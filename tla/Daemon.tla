-------------------------------- MODULE Daemon --------------------------------
(***************************************************************************)
(* The life of the daemon: its main thread (main, Controller), the Celery  *)
(* process it spawns, the three threads it runs as contexts (service       *)
(* registration, bus consumer, token renewer), the REST server, and the    *)
(* threads that signals start; under systemd, which restarts it when it    *)
(* fails.                                                                  *)
(***************************************************************************)
EXTENDS ConfigService, Sequences

CONSTANTS MaxSignals,      \* bound: the signals one life of the daemon gets
          Faults,
          MasterInConfig   \* is auth.master_tenant_uuid configured?

(***************************************************************************)
(* "raise"  a context or the REST server cannot be started                 *)
(* "kill"   the main process is killed                                     *)
(* "celery" the Celery process dies                                        *)
(***************************************************************************)
ASSUME DaemonAssumption == /\ MaxSignals \in Nat
                           /\ Faults \subseteq {"raise", "kill", "celery"}
                           /\ MasterInConfig \in BOOLEAN

VARIABLES
  main,      \* where the main thread is, see Phases
  depth,     \* the contexts entered: catalog, then consumer, then renewer
  raised,    \* did the main thread leave its with-block on an exception?
  failed,    \* did the last life end with an error?
  celery,    \* the Celery process
  held,      \* does FCM hold off a push that one of its workers makes?
  server,    \* CoreRestApi.server
  signals,   \* the signals handled so far, each with its stopping thread
  stopper,   \* where each stopping thread is; the last one is _stopping_thread
  tenant,    \* is the uuid of the master tenant known?
  once,      \* is the first token still to come?
  notify,    \* the callbacks the renewer has still to call
  booted     \* have the rows been registered in this life, and with a tenant?

mainVars   == <<main, depth, raised, failed>>
celeryVars == <<celery, held>>
signalVars == <<signals, stopper>>
tokenVars  == <<tenant, once, notify, booted>>
vars == <<mainVars, celeryVars, server, signalVars, tokenVars, configVars>>

(***************************************************************************)
(* "down"     there is no process                                          *)
(* "config"   main, up to spawn_workers                                    *)
(* "spawned"  the rest of Controller.__init__                              *)
(* "enter"    run, entering its contexts                                   *)
(* "serve"    rest_api.run                                                 *)
(* "leave"    run, leaving its contexts                                    *)
(* "finally"  before terminate, "join" before join, "stopped" before       *)
(*            joining _stopping_thread                                     *)
(* "exit"     main is over; the interpreter waits for what is left         *)
(* "failed"   the same, when Controller.__init__ or what precedes raised   *)
(***************************************************************************)
Phases == {"down", "config", "spawned", "enter", "serve", "leave",
           "finally", "join", "stopped", "exit", "failed"}
Contexts == 3

Stoppers == 1..MaxSignals

\* What is left of a process when it is over: nothing but its Celery process.
Over == /\ main' = "down" /\ depth' = 0 /\ raised' = FALSE
        /\ server' = "none"
        /\ signals' = 0 /\ stopper' = [i \in Stoppers |-> "none"]
        /\ tenant' = FALSE /\ once' = TRUE /\ notify' = <<>> /\ booted' = "no"
        /\ debug' = FALSE /\ verbose' = FALSE /\ always' = FALSE
        /\ configLock' = Nil
        /\ patch' = [p \in Patches |-> NewPatch]

Init == /\ main = "down" /\ depth = 0 /\ raised = FALSE /\ failed = FALSE
        /\ celery = "none" /\ held = FALSE /\ server = "none"
        /\ signals = 0 /\ stopper = [i \in Stoppers |-> "none"]
        /\ tenant = FALSE /\ once = TRUE /\ notify = <<>> /\ booted = "no"
        /\ ConfigLoaded(FALSE)

-----------------------------------------------------------------------------
(***************************************************************************)
(* systemd, and whoever signals the processes.                             *)
(***************************************************************************)
\* ExecStart, on request or because of Restart=on-failure.  systemd has ended
\* what the last life left behind.  The configuration is loaded.
Launch(d) ==
  /\ main = "down" /\ celery \in {"none", "dead"}
  /\ main' = "config" /\ failed' = FALSE /\ celery' = "none"
  /\ tenant' = MasterInConfig
  /\ debug' = d /\ verbose' = d /\ always' = d
  /\ UNCHANGED <<depth, raised, held, server, signalVars, once, notify, booted,
                 configLock, patch>>

Start == ~failed /\ \E d \in BOOLEAN : Launch(d)
Restart == failed /\ \E d \in BOOLEAN : Launch(d)

\* systemd waits for it, and kills it when it takes too long.
CleanUp == /\ main = "down" /\ celery \in {"up", "told"}
           /\ celery' = "dead" /\ held' = FALSE
           /\ UNCHANGED <<mainVars, server, signalVars, tokenVars, configVars>>

Kill == /\ "kill" \in Faults /\ main # "down"
        /\ Over /\ failed' = TRUE
        /\ UNCHANGED celeryVars

CeleryDies == /\ "celery" \in Faults /\ celery = "up"
              /\ celery' = "dead" /\ held' = FALSE
              /\ UNCHANGED <<mainVars, server, signalVars, tokenVars, configVars>>

\* Before run a signal ends the process; afterwards it starts a thread.
Installed == main \notin {"down", "config", "spawned", "failed"}

\* SIGTERM, to the main process or to all the processes of the service.
Told(toAll) == IF toAll /\ celery = "up" THEN "told" ELSE celery

SignalKills(toAll) ==
  /\ main \in {"config", "spawned", "failed"}
  /\ Over /\ failed' = FALSE
  /\ celery' = Told(toAll) /\ UNCHANGED held

\* _signal_handler and stop: a new stopping thread takes the place of the last.
Signal(toAll) ==
  /\ Installed /\ main # "exit" /\ signals < MaxSignals
  /\ signals' = signals + 1
  /\ stopper' = [stopper EXCEPT ![signals + 1] = "runs"]
  /\ celery' = Told(toAll)
  /\ UNCHANGED <<mainVars, held, server, tokenVars, configVars>>

-----------------------------------------------------------------------------
(***************************************************************************)
(* The main thread.                                                        *)
(***************************************************************************)
Go(label) == main' = label /\ UNCHANGED <<depth, raised, failed>>

\* celery.configure, load_celery_tasks and spawn_workers.
Spawn == /\ main = "config"
         /\ Go("spawned") /\ celery' = "up"
         /\ UNCHANGED <<held, server, signalVars, tokenVars, configVars>>

\* The rest of Controller.__init__, and the signal handlers of run.
Loaded == /\ main = "spawned"
          /\ Go("enter")
          /\ UNCHANGED <<celeryVars, server, signalVars, tokenVars, configVars>>

\* Mutant: one context too many.
EnterOneMore ==
  /\ main = "enter"
  /\ IF depth <= Contexts THEN depth' = depth + 1 /\ UNCHANGED main
                          ELSE main' = "serve" /\ UNCHANGED depth
  /\ UNCHANGED <<raised, failed, celeryVars, server, signalVars, tokenVars, configVars>>

\* The with-statement of run.
Enter == /\ main = "enter"
         /\ IF depth < Contexts THEN depth' = depth + 1 /\ UNCHANGED main
                                ELSE main' = "serve" /\ UNCHANGED depth
         /\ UNCHANGED <<raised, failed, celeryVars, server, signalVars, tokenVars, configVars>>

\* Mutant: the contexts are started by hand and not stopped on an exception.
RaiseKeepsContexts ==
  /\ "raise" \in Faults
  /\ main = "enter" \/ (main = "serve" /\ server \in {"none", "created"})
  /\ main' = "finally" /\ raised' = TRUE
  /\ server' = IF server = "created" THEN "stopped" ELSE server
  /\ UNCHANGED <<depth, failed, celeryVars, signalVars, tokenVars, configVars>>

\* A context or the server raises: the contexts entered so far are left.
Raise == /\ "raise" \in Faults
         /\ main = "enter" \/ (main = "serve" /\ server \in {"none", "created"})
         /\ main' = "leave" /\ raised' = TRUE
         /\ server' = IF server = "created" THEN "stopped" ELSE server
         /\ UNCHANGED <<depth, failed, celeryVars, signalVars, tokenVars, configVars>>

\* rest_api.run: the server is created, then started, which binds its port.
CreateServer == /\ main = "serve" /\ server = "none"
                /\ server' = "created"
                /\ UNCHANGED <<mainVars, celeryVars, signalVars, tokenVars, configVars>>

StartServer == /\ main = "serve" /\ server = "created"
               /\ server' = "ready"
               /\ UNCHANGED <<mainVars, celeryVars, signalVars, tokenVars, configVars>>

\* server.start returns once somebody has stopped the server.
ServerReturns == /\ main = "serve" /\ server = "stopped"
                 /\ Go("leave")
                 /\ UNCHANGED <<celeryVars, server, signalVars, tokenVars, configVars>>

\* The contexts are left in the reverse order; each waits for its thread, the
\* renewer's for the callbacks it is calling.
Leave == /\ main = "leave" /\ notify = <<>>
         /\ IF depth = 0 THEN main' = "finally" /\ UNCHANGED depth
                         ELSE depth' = depth - 1 /\ UNCHANGED main
         /\ UNCHANGED <<raised, failed, celeryVars, server, signalVars, tokenVars, configVars>>

\* Mutants: Celery is only told when a signal stops the daemon; it is joined
\* only, since systemd tells it as well.
TerminateIfAsked ==
  /\ main = "finally"
  /\ celery' = IF signals > 0 THEN Told(TRUE) ELSE celery
  /\ Go("join")
  /\ UNCHANGED <<held, server, signalVars, tokenVars, configVars>>

TerminateForgotten ==
  /\ main = "finally"
  /\ Go("join")
  /\ UNCHANGED <<celeryVars, server, signalVars, tokenVars, configVars>>

\* finally: terminate, join Celery, join _stopping_thread if there is one.
Terminate == /\ main = "finally"
             /\ celery' = Told(TRUE)
             /\ Go("join")
             /\ UNCHANGED <<held, server, signalVars, tokenVars, configVars>>

Join == /\ main = "join" /\ celery = "dead"
        /\ Go("stopped")
        /\ UNCHANGED <<celeryVars, server, signalVars, tokenVars, configVars>>

JoinStopper == /\ main = "stopped"
               /\ signals > 0 => stopper[signals] = "done"
               /\ Go("exit")
               /\ UNCHANGED <<celeryVars, server, signalVars, tokenVars, configVars>>

\* Mutant: the stopping threads are daemons, which nobody waits for at the end.
ExitAtOnce == /\ main \in {"exit", "failed"}
              /\ depth = 0 /\ celery \in {"none", "dead"}
              /\ Over /\ failed' = raised
              /\ UNCHANGED celeryVars

\* The interpreter joins the threads and the processes that are left.
Exit == /\ main \in {"exit", "failed"}
        /\ depth = 0 /\ celery \in {"none", "dead"}
        /\ \A i \in Stoppers : stopper[i] \in {"none", "done"}
        /\ Over /\ failed' = raised
        /\ UNCHANGED celeryVars

\* What Controller.__init__ raises, a missing uuid for one, ends main; the
\* interpreter waits for the Celery process, which nobody tells to end.
InitRaises == /\ "raise" \in Faults
              /\ main \in {"config", "spawned"}
              /\ main' = "failed" /\ raised' = TRUE
              /\ UNCHANGED <<depth, failed, celeryVars, server, signalVars, tokenVars, configVars>>

\* Celery, once told, waits for the tasks its workers have begun.
CeleryEnds == /\ celery = "told" /\ ~held /\ main # "down"
              /\ celery' = "dead"
              /\ UNCHANGED <<mainVars, held, server, signalVars, tokenVars, configVars>>

\* FCM answers a push with a Retry-After, which the worker sleeps for before it
\* tries again, as often and for as long as FCM asks.
Hold == /\ celery \in {"up", "told"} /\ ~held
        /\ held' = TRUE
        /\ UNCHANGED <<mainVars, celery, server, signalVars, tokenVars, configVars>>

Release == /\ held
           /\ held' = FALSE
           /\ UNCHANGED <<mainVars, celery, server, signalVars, tokenVars, configVars>>

MainStep == \/ Spawn \/ Loaded \/ Enter \/ CreateServer \/ StartServer
            \/ ServerReturns \/ Leave \/ Terminate \/ Join \/ JoinStopper \/ Exit

-----------------------------------------------------------------------------
(***************************************************************************)
(* The stopping threads and the requests.                                  *)
(***************************************************************************)
\* rest_api.stop: nothing without a server, or when it is not (or no longer)
\* serving; otherwise the server stops accepting requests.
Stop(i) == /\ stopper[i] = "runs"
           /\ IF server = "ready"
                THEN server' = "stopped" /\ stopper' = [stopper EXCEPT ![i] = "waits"]
                ELSE stopper' = [stopper EXCEPT ![i] = "done"] /\ UNCHANGED server
           /\ UNCHANGED <<mainVars, celeryVars, signals, tokenVars, configVars>>

\* server.stop waits for the requests under way.
StopReturns(i) == /\ stopper[i] = "waits"
                  /\ \A p \in Patches : At(p, "new")
                  /\ stopper' = [stopper EXCEPT ![i] = "done"]
                  /\ UNCHANGED <<mainVars, celeryVars, server, signals, tokenVars, configVars>>

StopperStep(i) == Stop(i) \/ StopReturns(i)

\* PATCH /config, answered with 503 until the master tenant is known.
Request(p) == /\ server = "ready" /\ tenant
              /\ \E value \in BOOLEAN \cup {Nil} : PatchAsks(p, value)
              /\ UNCHANGED <<mainVars, celeryVars, server, signalVars, tokenVars>>

Serve(p) == /\ PatchStep(p)
            /\ UNCHANGED <<mainVars, celeryVars, server, signalVars, tokenVars>>

-----------------------------------------------------------------------------
(***************************************************************************)
(* The token renewer, which calls its callbacks in the order in which they *)
(* were subscribed: those of the first token only, and set_token.          *)
(***************************************************************************)
CallbackNames == {"init_master_tenant", "set_token", "subscribe"}

\* Mutant: the plugins are loaded before the controller subscribes.
CallbacksPluginsFirst ==
  IF ~once THEN <<"set_token">>
  ELSE IF MasterInConfig THEN <<"subscribe", "set_token">>
  ELSE <<"subscribe", "init_master_tenant", "set_token">>

Callbacks ==
  IF ~once THEN <<"set_token">>
  ELSE IF MasterInConfig THEN <<"set_token", "subscribe">>
  ELSE <<"init_master_tenant", "set_token", "subscribe">>

\* wazo-auth answers, until the renewer is told to stop.
NewToken == /\ depth = Contexts /\ main # "leave" /\ notify = <<>>
            /\ notify' = Callbacks /\ once' = FALSE
            /\ UNCHANGED <<mainVars, celeryVars, server, signalVars, tenant, booted, configVars>>

\* init_master_tenant, set_token, or SubscriptionBusEventHandler.subscribe.
Notify == /\ notify # <<>>
          /\ notify' = Tail(notify)
          /\ tenant' = (tenant \/ Head(notify) = "init_master_tenant")
          /\ booted' = IF Head(notify) # "subscribe" THEN booted
                       ELSE IF tenant THEN "yes" ELSE "without tenant"
          /\ UNCHANGED <<mainVars, celeryVars, server, signalVars, once, configVars>>

-----------------------------------------------------------------------------
Environment == \/ Start \/ Kill \/ CeleryDies \/ Hold \/ Release
               \/ \E all \in BOOLEAN : SignalKills(all) \/ Signal(all)

Next == \/ Environment \/ CleanUp \/ Restart
        \/ MainStep \/ Raise \/ InitRaises \/ CeleryEnds
        \/ \E i \in Stoppers : StopperStep(i)
        \/ \E p \in Patches : Request(p) \/ Serve(p)
        \/ NewToken \/ Notify

Spec == Init /\ [][Next]_vars

\* Threads run, Celery ends once it is told to and its workers are free, the
\* renewer's callbacks return, and systemd clears up and restarts what failed.
\* Nothing makes FCM let go of a worker, wazo-auth answer, or anybody send a
\* signal or a request.
Fairness == /\ WF_vars(MainStep) /\ WF_vars(CeleryEnds)
            /\ WF_vars(CleanUp) /\ WF_vars(Restart)
            /\ \A i \in Stoppers : WF_vars(StopperStep(i))
            /\ \A p \in Patches : WF_vars(Serve(p))
            /\ WF_vars(Notify)

FairSpec == Spec /\ Fairness

-----------------------------------------------------------------------------
\* Every variable keeps its type.
TypeOK ==
  /\ main \in Phases /\ depth \in 0..Contexts
  /\ raised \in BOOLEAN /\ failed \in BOOLEAN
  /\ celery \in {"none", "up", "told", "dead"} /\ held \in BOOLEAN
  /\ server \in {"none", "created", "ready", "stopped"}
  /\ signals \in 0..MaxSignals
  /\ stopper \in [Stoppers -> {"none", "runs", "waits", "done"}]
  /\ tenant \in BOOLEAN /\ once \in BOOLEAN
  /\ notify \in Seq(CallbackNames)
  /\ booted \in {"no", "yes", "without tenant"}
  /\ ConfigType

\* When run tells Celery to end and waits for it, every context is left, the
\* consumer with them, and the server takes no new request, however the daemon
\* came to its end.  Requests under way go on beside terminate and join, but a
\* stopping thread waits for them.  (What they queue for Celery stays in RabbitMQ.)
Stopping == main \in {"finally", "join", "stopped", "exit"}

OrderlyEnd ==
  Stopping => /\ depth = 0 /\ server # "ready"
              /\ (\A p \in Patches : At(p, "new")) \/ \E i \in Stoppers : stopper[i] = "waits"

\* A stop cuts no request off: a process that ends without an error has answered
\* all of them, although run joins the last stopping thread only, which is not
\* the one that waits for them when a second signal followed the first.
RequestsAnswered ==
  [][main # "down" /\ main' = "down" /\ ~failed' => \A p \in Patches : At(p, "new")]_vars

\* The rows are registered with the consumer only once the uuid of the master
\* tenant, which their headers need, is known.
BootHasTenant == booted # "without tenant"

\* The one thing run may wait for without end: FCM holds off pushes of Celery's
\* workers, for good or again and again, and Celery ends after its tasks only.
HeldUp == []<>(main = "join" /\ held)

\* A signal that finds the server serving ends the daemon: the contexts, the
\* Celery process and every stopping thread, however many signals follow,
\* unless FCM holds Celery up.  (A stop by systemd is cut short by its timeout,
\* which the property does not count on.)
StopEnds ==
  []((\E i \in Stoppers : stopper[i] = "runs") /\ server = "ready"
       => <>(main = "down") \/ HeldUp)

\* A failure of run ends the process, with an error, so that systemd sees it,
\* unless FCM holds Celery up: then nothing puts an end to the wait, as systemd
\* takes a daemon that waits for one that runs.
FailureEnds ==
  [](main = "leave" /\ raised => <>(main = "down" /\ failed) \/ HeldUp)

=============================================================================
