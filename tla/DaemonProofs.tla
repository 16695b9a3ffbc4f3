----------------------------- MODULE DaemonProofs -----------------------------
(***************************************************************************)
(* The safety of Daemon for any number of signals and requests: the type   *)
(* invariant, the order in which run ends and the requests that it waits   *)
(* for, the master tenant before the registration of the rows, and the log *)
(* level that follows the flag.                                            *)
(***************************************************************************)
EXTENDS Daemon, TLAPS

\* Before run and after its with-block no context is entered, and the server
\* is ready only inside rest_api.run.
MainInv ==
  /\ main \notin {"enter", "serve", "leave"} => depth = 0
  /\ server = "ready" => main = "serve"
  /\ main = "down" => /\ notify = <<>> /\ configLock = Nil
                       /\ \A p \in Patches : At(p, "new")

\* The renewer calls its callbacks from the first or from a later token, and
\* the registration of the rows comes after the master tenant is known.
First == <<"init_master_tenant", "set_token", "subscribe">>
Lists == {<<>>, <<"set_token">>, <<"subscribe">>, <<"set_token", "subscribe">>, First}
TokenInv ==
  /\ notify \in Lists
  /\ notify \in {<<"subscribe">>, <<"set_token", "subscribe">>} => tenant
  /\ MasterInConfig /\ main # "down" => tenant
  /\ booted # "without tenant"

\* The lock is held by the request that has set the level and not the flag yet.
ConfigInv ==
  /\ configLock = Nil => verbose = (debug \/ always)
  /\ \A p \in Patches : /\ configLock = p <=> At(p, "debug")
                        /\ At(p, "write") \/ At(p, "debug") => patch[p].flag \in BOOLEAN
                        /\ At(p, "debug") => verbose = (patch[p].flag \/ always)

IInv == TypeOK /\ MainInv /\ TokenInv /\ ConfigInv

\* Requests are under way only while the server serves, or while a stopping
\* thread waits for them; there is one stopping thread for each signal.
NoRequest == \A p \in Patches : At(p, "new")
Awaited == server = "ready" \/ \E i \in Stoppers : stopper[i] = "waits"
RequestInv == /\ NoRequest \/ Awaited
              /\ \A i \in Stoppers : i > signals => stopper[i] = "none"
              /\ ~Installed => signals = 0

-----------------------------------------------------------------------------
LEMMA NoCallbacks == <<>> \in Seq(CallbackNames)
OBVIOUS

LEMMA InitEstablishes == Init => IInv
<1> SUFFICES ASSUME Init PROVE IInv
  OBVIOUS
<1>1. ConfigType
  BY DEF Init, ConfigLoaded, ConfigType, NewPatch
<1>2. MainInv /\ TokenInv
  BY DEF Init, MainInv, TokenInv, ConfigLoaded, NewPatch, At, Lists
<1>4. TypeOK
  <2>1. depth \in 0..Contexts /\ signals \in 0..MaxSignals
    BY DaemonAssumption DEF Init, Contexts
  <2> QED BY <1>1, <2>1, NoCallbacks DEF Init, TypeOK, Phases
<1>3. ConfigInv
  BY PatchesAssumption DEF Init, ConfigLoaded, ConfigInv, At, NewPatch
<1> QED BY <1>2, <1>3, <1>4 DEF IInv

\* The end of a process establishes the invariant again.
LEMMA OverStep ==
  ASSUME IInv, Over, failed' \in BOOLEAN, celery' \in {"none", "up", "told", "dead"},
         held' \in BOOLEAN
  PROVE  IInv'
<1>1. ConfigType'
  BY DEF Over, ConfigType, NewPatch
<1>2. MainInv' /\ TokenInv'
  BY DEF Over, MainInv, TokenInv, NewPatch, At, Lists
<1>4. TypeOK'
  <2>1. depth' \in 0..Contexts /\ signals' \in 0..MaxSignals
    BY DaemonAssumption DEF Over, Contexts
  <2> QED BY <1>1, <2>1, NoCallbacks DEF Over, TypeOK, Phases
<1>3. ConfigInv'
  BY PatchesAssumption DEF Over, ConfigInv, At, NewPatch
<1> QED BY <1>2, <1>3, <1>4 DEF IInv

\* Steps that leave the configuration and the tokens alone keep their parts.
LEMMA QuietConfig == ASSUME ConfigInv, UNCHANGED configVars PROVE ConfigInv'
BY DEF ConfigInv, configVars, At

LEMMA QuietTokens ==
  ASSUME TokenInv, UNCHANGED tokenVars, main' = "down" <=> main = "down" PROVE TokenInv'
BY DEF TokenInv, tokenVars

LEMMA LaunchStep ==
  ASSUME IInv, NEW d \in BOOLEAN, Launch(d)
  PROVE  IInv'
<1>1. /\ TypeOK /\ main = "down" /\ notify = <<>> /\ configLock = Nil
      /\ \A p \in Patches : At(p, "new")
  BY DEF IInv, MainInv, Launch
<1>2. /\ main' = "config" /\ failed' = FALSE /\ celery' = "none" /\ tenant' = MasterInConfig
      /\ debug' = d /\ verbose' = d /\ always' = d
      /\ UNCHANGED <<depth, raised, held, server, signals, stopper, once, notify, booted,
                     configLock, patch>>
  BY DEF Launch, signalVars
<1>3. ConfigType' /\ ConfigInv'
  BY <1>1, <1>2 DEF IInv, TypeOK, ConfigType, ConfigInv, At
<1>4. TypeOK'
  BY <1>1, <1>2, <1>3, DaemonAssumption DEF TypeOK, Phases
<1>5. MainInv'
  BY <1>1, <1>2 DEF IInv, MainInv
<1>6. TokenInv'
  BY <1>1, <1>2 DEF IInv, TokenInv
<1> QED BY <1>3, <1>4, <1>5, <1>6 DEF IInv

\* The steps of the main thread that change neither the tokens nor the
\* configuration, nor end the process.
Quiet == /\ UNCHANGED <<tenant, once, notify, booted>>
         /\ UNCHANGED <<debug, verbose, always, configLock, patch>>

LEMMA QuietStep ==
  ASSUME IInv, Quiet, main # "down",
         main' \in Phases \ {"down"}, depth' \in 0..Contexts,
         raised' \in BOOLEAN, failed' = failed,
         celery' \in {"none", "up", "told", "dead"}, held' \in BOOLEAN,
         server' \in {"none", "created", "ready", "stopped"},
         signals' \in 0..MaxSignals,
         stopper' \in [Stoppers -> {"none", "runs", "waits", "done"}],
         main' \notin {"enter", "serve", "leave"} => depth' = 0,
         server' = "ready" => main' = "serve"
  PROVE  IInv'
<1>1. ConfigType' /\ ConfigInv'
  BY DEF Quiet, IInv, TypeOK, ConfigType, ConfigInv, At
<1>2. TypeOK'
  BY <1>1 DEF Quiet, IInv, TypeOK
<1>3. MainInv' /\ TokenInv'
  BY DEF Quiet, IInv, MainInv, TokenInv
<1> QED BY <1>1, <1>2, <1>3 DEF IInv

LEMMA MainThreadStep ==
  ASSUME IInv, MainStep \/ Raise \/ InitRaises
  PROVE  IInv'
<1>1. /\ main \in Phases /\ depth \in 0..Contexts /\ raised \in BOOLEAN /\ failed \in BOOLEAN
      /\ celery \in {"none", "up", "told", "dead"} /\ held \in BOOLEAN
      /\ server \in {"none", "created", "ready", "stopped"}
      /\ signals \in 0..MaxSignals
      /\ stopper \in [Stoppers -> {"none", "runs", "waits", "done"}]
      /\ main \notin {"enter", "serve", "leave"} => depth = 0
      /\ server = "ready" => main = "serve"
  BY DEF IInv, TypeOK, MainInv
<1> USE DEF Go, Quiet, signalVars, tokenVars, configVars, mainVars, celeryVars
<1>2. CASE Spawn
  BY <1>1, <1>2, QuietStep DEF Spawn, Phases
<1>3. CASE Loaded
  BY <1>1, <1>3, QuietStep DEF Loaded, Phases
<1>4. CASE Enter
  <2>1. depth' \in 0..Contexts
    BY <1>1, <1>4 DEF Enter, Contexts
  <2> QED BY <1>1, <1>4, <2>1, QuietStep DEF Enter, Phases
<1>5. CASE CreateServer
  BY <1>1, <1>5, QuietStep DEF CreateServer, Phases
<1>6. CASE StartServer
  BY <1>1, <1>6, QuietStep DEF StartServer, Phases
<1>7. CASE ServerReturns
  BY <1>1, <1>7, QuietStep DEF ServerReturns, Phases
<1>8. CASE Leave
  <2>1. depth' \in 0..Contexts
    BY <1>1, <1>8 DEF Leave, Contexts
  <2> QED BY <1>1, <1>8, <2>1, QuietStep DEF Leave, Phases
<1>9. CASE Terminate
  BY <1>1, <1>9, QuietStep DEF Terminate, Told, Phases
<1>10. CASE Join
  BY <1>1, <1>10, QuietStep DEF Join, Phases
<1>11. CASE JoinStopper
  BY <1>1, <1>11, QuietStep DEF JoinStopper, Phases
<1>12. CASE Exit
  BY <1>1, <1>12, OverStep DEF Exit
<1>13. CASE Raise
  BY <1>1, <1>13, QuietStep DEF Raise, Phases
<1>14. CASE InitRaises
  BY <1>1, <1>14, QuietStep DEF InitRaises, Phases
<1> QED BY <1>2, <1>3, <1>4, <1>5, <1>6, <1>7, <1>8, <1>9, <1>10, <1>11, <1>12, <1>13, <1>14
        DEF MainStep

\* Signals, the stopping threads and the Celery process.
LEMMA ProcessStep ==
  ASSUME IInv,
         \/ CleanUp \/ Kill \/ CeleryDies \/ CeleryEnds \/ Hold \/ Release
         \/ \E all \in BOOLEAN : SignalKills(all) \/ Signal(all)
         \/ \E i \in Stoppers : StopperStep(i)
  PROVE  IInv'
<1>1. /\ main \in Phases /\ depth \in 0..Contexts /\ raised \in BOOLEAN /\ failed \in BOOLEAN
      /\ celery \in {"none", "up", "told", "dead"} /\ held \in BOOLEAN
      /\ server \in {"none", "created", "ready", "stopped"}
      /\ signals \in 0..MaxSignals
      /\ stopper \in [Stoppers -> {"none", "runs", "waits", "done"}]
      /\ main \notin {"enter", "serve", "leave"} => depth = 0
      /\ server = "ready" => main = "serve"
  BY DEF IInv, TypeOK, MainInv
<1> USE DEF Quiet, signalVars, tokenVars, configVars, mainVars, celeryVars
<1>2. ASSUME CleanUp \/ CeleryDies \/ CeleryEnds \/ Hold \/ Release PROVE IInv'
  <2>1. /\ celery' \in {"none", "up", "told", "dead"} /\ held' \in BOOLEAN /\ Quiet
        /\ UNCHANGED <<main, depth, raised, failed, server, signals, stopper>>
    BY <1>1, <1>2 DEF CleanUp, CeleryDies, CeleryEnds, Hold, Release
  <2>2. ConfigType' /\ ConfigInv'
    BY <2>1 DEF IInv, TypeOK, ConfigType, ConfigInv, At
  <2>3. TypeOK' /\ MainInv' /\ TokenInv'
    BY <2>1, <2>2 DEF IInv, TypeOK, MainInv, TokenInv, At
  <2> QED BY <2>2, <2>3 DEF IInv
<1>3. ASSUME Kill PROVE IInv'
  BY <1>1, <1>3, OverStep DEF Kill
<1>4. ASSUME NEW all \in BOOLEAN, SignalKills(all) PROVE IInv'
  BY <1>1, <1>4, OverStep DEF SignalKills, Told
<1>5. ASSUME NEW all \in BOOLEAN, Signal(all) PROVE IInv'
  <2>1. signals' \in 0..MaxSignals /\ signals + 1 \in Stoppers
    BY <1>1, <1>5, DaemonAssumption DEF Signal, Stoppers
  <2> QED BY <1>1, <1>5, <2>1, QuietStep DEF Signal, Told, Installed
<1>6. ASSUME NEW i \in Stoppers, StopperStep(i) PROVE IInv'
  <2>1. CASE main = "down"
    <3>1. /\ UNCHANGED <<main, depth, raised, failed, celery, held, signals>>
          /\ server' \in {"none", "created", "stopped", server}
          /\ stopper' \in [Stoppers -> {"none", "runs", "waits", "done"}]
          /\ Quiet
      BY <1>1, <1>6 DEF StopperStep, Stop, StopReturns
    <3>2. ConfigType' /\ ConfigInv'
      BY <3>1 DEF IInv, TypeOK, ConfigType, ConfigInv, At
    <3>3. TypeOK'
      BY <1>1, <3>1, <3>2 DEF IInv, TypeOK
    <3>4. server' = "ready" => main' = "serve"
      BY <1>1, <3>1
    <3>5. MainInv'
      BY <3>1, <3>4 DEF IInv, MainInv, At
    <3>6. TokenInv'
      BY <3>1 DEF IInv, TokenInv
    <3> QED BY <3>2, <3>3, <3>5, <3>6 DEF IInv
  <2>2. CASE main # "down"
    BY <1>1, <1>6, <2>2, QuietStep DEF StopperStep, Stop, StopReturns
  <2> QED BY <2>1, <2>2
<1> QED BY <1>2, <1>3, <1>4, <1>5, <1>6

\* The lists of callbacks that the renewer can have before it.
LEMMA CallbackLists ==
  Callbacks \in Lists \ {<<"subscribe">>}
  /\ (Callbacks = <<"set_token", "subscribe">> => MasterInConfig)
<1>1. Callbacks \in {<<"set_token">>, <<"set_token", "subscribe">>, First}
  BY DEF Callbacks, First
<1>2. <<"subscribe">> \notin {<<"set_token">>, <<"set_token", "subscribe">>, First}
  BY DEF First
<1>3. First # <<"set_token", "subscribe">> /\ <<"set_token">> # <<"set_token", "subscribe">>
  BY DEF First
<1>4. Callbacks = <<"set_token", "subscribe">> => MasterInConfig
  BY <1>3 DEF Callbacks, First
<1> QED BY <1>1, <1>2, <1>4 DEF Lists

LEMMA FirstIsLonger == First # <<"subscribe">> /\ First # <<"set_token", "subscribe">>
BY DEF First

LEMMA ListType == ASSUME NEW s \in Lists PROVE s \in Seq(CallbackNames)
<1>1. /\ <<>> \in Seq(CallbackNames)
      /\ <<"set_token">> \in Seq(CallbackNames)
      /\ <<"subscribe">> \in Seq(CallbackNames)
  BY DEF CallbackNames
<1>2. <<"set_token", "subscribe">> \in Seq(CallbackNames)
  BY DEF CallbackNames
<1>3. First \in Seq(CallbackNames)
  BY DEF First, CallbackNames
<1> QED BY <1>1, <1>2, <1>3 DEF Lists

LEMMA HeadsAndTails ==
  /\ Head(First) = "init_master_tenant" /\ Tail(First) = <<"set_token", "subscribe">>
  /\ Head(<<"set_token", "subscribe">>) = "set_token"
  /\ Tail(<<"set_token", "subscribe">>) = <<"subscribe">>
  /\ Head(<<"set_token">>) = "set_token" /\ Tail(<<"set_token">>) = <<>>
  /\ Head(<<"subscribe">>) = "subscribe" /\ Tail(<<"subscribe">>) = <<>>
BY DEF First

\* What neither the main thread nor a configuration step does keeps MainInv.
LEMMA MainStays ==
  ASSUME IInv, TypeOK', TokenInv', ConfigInv', main # "down",
         UNCHANGED <<main, depth, server>>
  PROVE  IInv'
<1>1. MainInv'
  BY DEF IInv, MainInv
<1> QED BY <1>1 DEF IInv

\* The token renewer.
LEMMA TokenStep ==
  ASSUME IInv, NewToken \/ Notify
  PROVE  IInv'
<1> USE DEF signalVars, configVars, mainVars, celeryVars
<1>1. /\ UNCHANGED <<main, depth, raised, failed, celery, held, server, signals, stopper>>
      /\ UNCHANGED <<debug, verbose, always, configLock, patch>>
  BY DEF NewToken, Notify
<1>2. ConfigType' /\ ConfigInv'
  BY <1>1 DEF IInv, TypeOK, ConfigType, ConfigInv, At
<1>3. main # "down"
  <2>1. CASE NewToken
    BY <2>1 DEF NewToken, IInv, MainInv, Contexts
  <2>2. CASE Notify
    BY <2>2 DEF Notify, IInv, MainInv
  <2> QED BY <2>1, <2>2
<1>4. tenant \in BOOLEAN /\ once \in BOOLEAN /\ booted \in {"no", "yes", "without tenant"}
  BY DEF IInv, TypeOK
<1>5. TokenInv
  BY DEF IInv
<1>6. CASE NewToken
  <2>1. notify' = Callbacks /\ once' = FALSE /\ tenant' = tenant /\ booted' = booted
    BY <1>6 DEF NewToken
  <2>2. notify' \in Lists \ {<<"subscribe">>}
        /\ (notify' = <<"set_token", "subscribe">> => MasterInConfig)
    BY <2>1, CallbackLists
  <2>3. TokenInv'
    BY <1>1, <1>3, <1>5, <2>1, <2>2, FirstIsLonger DEF TokenInv, Lists
  <2>4. TypeOK'
    BY <1>1, <1>2, <1>4, <2>1, <2>2, ListType DEF IInv, TypeOK
  <2> QED BY <1>1, <1>2, <1>3, <2>3, <2>4, MainStays
<1>7. CASE Notify
  <2>1. /\ notify # <<>> /\ notify' = Tail(notify) /\ once' = once
        /\ tenant' = (tenant \/ Head(notify) = "init_master_tenant")
        /\ booted' = IF Head(notify) # "subscribe" THEN booted
                     ELSE IF tenant THEN "yes" ELSE "without tenant"
    BY <1>7 DEF Notify
  <2>2. notify' \in Lists /\ TokenInv'
    <3>1. CASE notify = First
      <4>1. Head(notify) = "init_master_tenant" /\ notify' = <<"set_token", "subscribe">>
        BY <2>1, <3>1, HeadsAndTails
      <4> QED BY <1>1, <1>3, <1>5, <2>1, <4>1 DEF TokenInv, Lists
    <3>2. CASE notify = <<"set_token", "subscribe">>
      <4>1. Head(notify) = "set_token" /\ notify' = <<"subscribe">> /\ tenant
        BY <1>5, <2>1, <3>2, HeadsAndTails DEF TokenInv
      <4> QED BY <1>1, <1>3, <1>5, <2>1, <4>1 DEF TokenInv, Lists
    <3>3. CASE notify = <<"set_token">>
      <4>1. Head(notify) = "set_token" /\ notify' = <<>>
        BY <2>1, <3>3, HeadsAndTails
      <4>2. notify' \notin {<<"subscribe">>, <<"set_token", "subscribe">>}
        BY <4>1
      <4> QED BY <1>1, <1>3, <1>5, <2>1, <4>1, <4>2 DEF TokenInv, Lists
    <3>4. CASE notify = <<"subscribe">>
      <4>1. Head(notify) = "subscribe" /\ notify' = <<>> /\ tenant
        BY <1>5, <2>1, <3>4, HeadsAndTails DEF TokenInv
      <4> QED BY <1>1, <1>3, <1>5, <2>1, <4>1 DEF TokenInv, Lists
    <3> QED BY <1>5, <2>1, <3>1, <3>2, <3>3, <3>4 DEF TokenInv, Lists
  <2>3. tenant' \in BOOLEAN /\ once' \in BOOLEAN /\ booted' \in {"no", "yes", "without tenant"}
    BY <1>4, <2>1
  <2>4. TypeOK'
    BY <1>1, <1>2, <2>2, <2>3, ListType DEF IInv, TypeOK
  <2> QED BY <1>1, <1>2, <1>3, <2>2, <2>4, MainStays
<1> QED BY <1>6, <1>7

\* The requests.
LEMMA RequestStep ==
  ASSUME IInv, NEW p \in Patches, Request(p) \/ Serve(p)
  PROVE  IInv'
<1> USE DEF signalVars, tokenVars, mainVars, celeryVars
<1>1. /\ UNCHANGED <<main, depth, raised, failed, celery, held, server, signals, stopper>>
      /\ UNCHANGED <<tenant, once, notify, booted>>
      /\ \/ \E value \in BOOLEAN \cup {Nil} : PatchAsks(p, value)
         \/ PatchStep(p)
  BY DEF Request, Serve
<1>2. main # "down"
  <2>1. CASE Request(p)
    BY <2>1 DEF Request, IInv, MainInv
  <2>2. CASE Serve(p)
    BY <2>2 DEF Serve, PatchStep, PatchReads, PatchLevel, PatchDebug, PatchAnswers, IInv, MainInv, At
  <2> QED BY <2>1, <2>2
<1>3. ConfigType' /\ ConfigInv'
  <2>1. ConfigType /\ ConfigInv
    BY DEF IInv, TypeOK
  <2>2. CASE \E value \in BOOLEAN \cup {Nil} : PatchAsks(p, value)
    BY <2>1, <2>2, PatchesAssumption DEF ConfigType, ConfigInv, PatchAsks, At
  <2>3. CASE PatchReads(p)
    BY <2>1, <2>3, PatchesAssumption DEF ConfigType, ConfigInv, PatchReads, At
  <2>4. CASE PatchLevel(p)
    BY <2>1, <2>4, PatchesAssumption DEF ConfigType, ConfigInv, PatchLevel, At, Moved
  <2>5. CASE PatchDebug(p)
    BY <2>1, <2>5, PatchesAssumption DEF ConfigType, ConfigInv, PatchDebug, At, Moved
  <2>6. CASE PatchAnswers(p)
    BY <2>1, <2>6, PatchesAssumption DEF ConfigType, ConfigInv, PatchAnswers, At, NewPatch
  <2> QED BY <1>1, <2>2, <2>3, <2>4, <2>5, <2>6 DEF PatchStep
<1>4. TypeOK'
  BY <1>1, <1>3 DEF IInv, TypeOK
<1>5. MainInv'
  BY <1>1, <1>2 DEF IInv, MainInv
<1>6. TokenInv'
  BY <1>1 DEF IInv, TokenInv
<1> QED BY <1>3, <1>4, <1>5, <1>6 DEF IInv

LEMMA NextPreserves == IInv /\ [Next]_vars => IInv'
<1> SUFFICES ASSUME IInv, [Next]_vars PROVE IInv'
  OBVIOUS
<1>1. CASE UNCHANGED vars
  <2>1. /\ UNCHANGED <<main, depth, raised, failed, celery, held, server, signals, stopper>>
        /\ UNCHANGED <<tenant, once, notify, booted>>
        /\ UNCHANGED <<debug, verbose, always, configLock, patch>>
    BY <1>1 DEF vars, mainVars, celeryVars, signalVars, tokenVars, configVars
  <2>2. ConfigType' /\ ConfigInv'
    BY <2>1 DEF IInv, TypeOK, ConfigType, ConfigInv, At
  <2>3. TypeOK'
    BY <2>1, <2>2 DEF IInv, TypeOK
  <2>4. MainInv'
    BY <2>1 DEF IInv, MainInv, At
  <2>5. TokenInv'
    BY <2>1 DEF IInv, TokenInv
  <2> QED BY <2>2, <2>3, <2>4, <2>5 DEF IInv
<1>2. CASE Start \/ Restart
  BY <1>2, LaunchStep DEF Start, Restart
<1> QED BY <1>1, <1>2, MainThreadStep, ProcessStep, TokenStep, RequestStep DEF Next, Environment

-----------------------------------------------------------------------------
(***************************************************************************)
(* The requests under way.                                                 *)
(***************************************************************************)
\* A step that changes no request, stops no server and lets no thread return.
LEMMA SameRequests ==
  ASSUME RequestInv, UNCHANGED <<patch, stopper, signals>>,
         server = "ready" => server' = "ready", ~Installed' => ~Installed
  PROVE  RequestInv'
<1>1. NoRequest => NoRequest'
  BY DEF NoRequest, At
<1>2. Awaited => Awaited'
  BY DEF Awaited
<1> QED BY <1>1, <1>2 DEF RequestInv

\* A process that is over has no request.
LEMMA OverRequests == ASSUME Over PROVE RequestInv'
BY DEF Over, RequestInv, NoRequest, At, NewPatch

\* A request that goes on was waited for already, and still is.
LEMMA ServeRequests ==
  ASSUME IInv, RequestInv, NEW p \in Patches, Request(p) \/ Serve(p)
  PROVE  RequestInv'
<1>1. UNCHANGED <<main, server, signals, stopper>>
  BY DEF Request, Serve, mainVars, signalVars
<1>2. Awaited
  <2>1. CASE Request(p)
    BY <2>1 DEF Request, Awaited
  <2>2. CASE Serve(p)
    <3>1. ~At(p, "new")
      BY <2>2 DEF Serve, PatchStep, PatchReads, PatchLevel, PatchDebug, PatchAnswers, At
    <3> QED BY <3>1 DEF RequestInv, NoRequest
  <2> QED BY <2>1, <2>2
<1>3. Awaited'
  BY <1>1, <1>2 DEF Awaited
<1> QED BY <1>1, <1>3 DEF RequestInv, Installed

LEMMA StopperRequests ==
  ASSUME IInv, RequestInv, NEW i \in Stoppers, StopperStep(i)
  PROVE  RequestInv'
<1>1. /\ UNCHANGED <<main, signals, patch>>
      /\ stopper \in [Stoppers -> {"none", "runs", "waits", "done"}]
      /\ stopper[i] # "none"
  BY DEF StopperStep, Stop, StopReturns, mainVars, configVars, IInv, TypeOK
<1>2. NoRequest => NoRequest'
  BY <1>1 DEF NoRequest, At
<1>3. \A k \in Stoppers : k > signals => stopper'[k] = "none"
  <2>1. \A k \in Stoppers : stopper'[k] = stopper[k] \/ k = i
    BY <1>1 DEF StopperStep, Stop, StopReturns
  <2> QED BY <1>1, <2>1 DEF RequestInv
<1>4. NoRequest' \/ Awaited'
  <2>1. CASE Stop(i) /\ server = "ready"
    <3>1. stopper'[i] = "waits"
      BY <1>1, <2>1 DEF Stop
    <3> QED BY <3>1 DEF Awaited
  <2>2. CASE Stop(i) /\ server # "ready"
    <3>1. \A k \in Stoppers : stopper[k] = "waits" => stopper'[k] = "waits"
      BY <1>1, <2>2 DEF Stop
    <3> QED BY <1>2, <2>2, <3>1 DEF Awaited, RequestInv
  <2>3. CASE StopReturns(i)
    BY <1>2, <2>3 DEF StopReturns, NoRequest
  <2> QED BY <2>1, <2>2, <2>3 DEF StopperStep
<1> QED BY <1>1, <1>3, <1>4 DEF RequestInv, Installed

LEMMA SignalRequests ==
  ASSUME IInv, RequestInv, NEW all \in BOOLEAN, Signal(all)
  PROVE  RequestInv'
<1>1. /\ UNCHANGED <<main, server, patch>> /\ signals' = signals + 1
      /\ stopper' = [stopper EXCEPT ![signals + 1] = "runs"]
      /\ signals < MaxSignals /\ Installed
  BY DEF Signal, mainVars, configVars
<1>2. /\ stopper \in [Stoppers -> {"none", "runs", "waits", "done"}]
      /\ signals \in 0..MaxSignals
  BY DEF IInv, TypeOK
<1>3. signals \in Nat /\ signals + 1 \in Stoppers
  BY <1>1, <1>2, DaemonAssumption DEF Stoppers
<1>4. NoRequest => NoRequest'
  BY <1>1 DEF NoRequest, At
<1>5. stopper[signals + 1] = "none"
  BY <1>1, <1>2, <1>3 DEF RequestInv
<1>6. Awaited => Awaited'
  <2>1. \A k \in Stoppers : stopper[k] = "waits" => stopper'[k] = "waits"
    BY <1>1, <1>2, <1>3, <1>5
  <2> QED BY <1>1, <2>1 DEF Awaited
<1>7. \A k \in Stoppers : k > signals + 1 => stopper'[k] = "none"
  BY <1>1, <1>2, <1>3 DEF RequestInv, Stoppers
<1> QED BY <1>1, <1>4, <1>6, <1>7 DEF RequestInv, Installed

LEMMA RequestInvStep == IInv /\ RequestInv /\ [Next]_vars => RequestInv'
<1> SUFFICES ASSUME IInv, RequestInv, [Next]_vars PROVE RequestInv'
  OBVIOUS
<1> USE DEF mainVars, celeryVars, signalVars, tokenVars, configVars
<1>1. CASE UNCHANGED vars
  BY <1>1, SameRequests DEF vars, Installed
<1>2. CASE Start \/ Restart
  BY <1>2, SameRequests DEF Start, Restart, Launch, Installed
<1>3. CASE CleanUp \/ CeleryDies \/ CeleryEnds \/ Hold \/ Release
  BY <1>3, SameRequests DEF CleanUp, CeleryDies, CeleryEnds, Hold, Release, Installed
<1>4. CASE Kill
  BY <1>4, OverRequests DEF Kill
<1>5. ASSUME NEW all \in BOOLEAN, SignalKills(all) PROVE RequestInv'
  BY <1>5, OverRequests DEF SignalKills
<1>6. CASE MainStep
  <2>1. CASE Exit
    BY <2>1, OverRequests DEF Exit
  <2>2. CASE Spawn \/ Loaded
    BY <2>2, SameRequests DEF Spawn, Loaded, Go, Installed
  <2>3. CASE Enter \/ Leave
    BY <2>3, SameRequests DEF Enter, Leave, Installed
  <2>4. CASE CreateServer \/ StartServer
    BY <2>4, SameRequests DEF CreateServer, StartServer, Installed
  <2>5. CASE ServerReturns \/ Terminate \/ Join \/ JoinStopper
    BY <2>5, SameRequests DEF ServerReturns, Terminate, Join, JoinStopper, Go, Installed
  <2> QED BY <1>6, <2>1, <2>2, <2>3, <2>4, <2>5 DEF MainStep
<1>7. CASE Raise
  BY <1>7, SameRequests DEF Raise, Installed
<1>8. CASE InitRaises
  BY <1>8, SameRequests DEF InitRaises, Installed
<1>9. CASE NewToken \/ Notify
  BY <1>9, SameRequests DEF NewToken, Notify, Installed
<1> QED BY <1>1, <1>2, <1>3, <1>4, <1>5, <1>6, <1>7, <1>8, <1>9, SignalRequests,
           StopperRequests, ServeRequests DEF Next, Environment

\* The interpreter ends after its threads, one of which waits for the requests.
LEMMA LastStep ==
  IInv /\ RequestInv /\ [Next]_vars
    => [main # "down" /\ main' = "down" /\ ~failed' => \A p \in Patches : At(p, "new")]_vars
<1> SUFFICES ASSUME IInv, RequestInv, Next, main # "down", main' = "down", ~failed'
             PROVE  NoRequest
  BY DEF NoRequest
<1>1. CASE Exit
  BY <1>1 DEF Exit, IInv, MainInv, RequestInv, Awaited
<1>2. ASSUME NEW all \in BOOLEAN, SignalKills(all) PROVE NoRequest
  <2>1. server # "ready" /\ signals = 0
    BY <1>2 DEF SignalKills, IInv, MainInv, RequestInv, Installed
  <2>2. \A i \in Stoppers : stopper[i] = "none"
    BY <2>1, DaemonAssumption DEF RequestInv, Stoppers
  <2> QED BY <2>1, <2>2 DEF RequestInv, Awaited
<1>3. Exit \/ \E all \in BOOLEAN : SignalKills(all)
  <2> USE DEF mainVars, celeryVars, signalVars, tokenVars, configVars
  <2>1. ~Kill
    BY DEF Kill
  <2>2. ~(Start \/ Restart \/ CleanUp \/ CeleryDies \/ CeleryEnds \/ Hold \/ Release)
    BY DEF Start, Restart, Launch, CleanUp, CeleryDies, CeleryEnds, Hold, Release
  <2>3. \A all \in BOOLEAN : ~Signal(all)
    BY DEF Signal
  <2>4. ~(Spawn \/ Loaded \/ Enter \/ CreateServer \/ StartServer \/ ServerReturns)
    BY DEF Spawn, Loaded, Enter, CreateServer, StartServer, ServerReturns, Go
  <2>5. ~(Leave \/ Terminate \/ Join \/ JoinStopper \/ Raise \/ InitRaises)
    BY DEF Leave, Terminate, Join, JoinStopper, Raise, InitRaises, Go
  <2>6. \A i \in Stoppers : ~StopperStep(i)
    BY DEF StopperStep, Stop, StopReturns
  <2>7. ~NewToken /\ ~Notify /\ \A p \in Patches : ~Request(p) /\ ~Serve(p)
    BY DEF NewToken, Notify, Request, Serve
  <2> QED BY <2>1, <2>2, <2>3, <2>4, <2>5, <2>6, <2>7 DEF Next, Environment, MainStep
<1> QED BY <1>1, <1>2, <1>3

-----------------------------------------------------------------------------
THEOREM Invariance == Spec => []IInv
BY InitEstablishes, NextPreserves, PTL DEF Spec

LEMMA RequestInvariance == Spec => []RequestInv
<1>1. Init => RequestInv
  BY DEF Init, RequestInv, NoRequest, Installed, ConfigLoaded, NewPatch, At
<1> QED BY <1>1, RequestInvStep, Invariance, PTL DEF Spec

\* The type invariant, for any number of signals and requests.
THEOREM TypeCorrect == Spec => []TypeOK
<1>1. IInv => TypeOK
  BY DEF IInv
<1> QED BY Invariance, <1>1, PTL

\* The root logger agrees with the flag whenever no request is writing it.
THEOREM LevelAgrees == Spec => []LevelFollowsConfig
<1>1. IInv => LevelFollowsConfig
  BY DEF IInv, ConfigInv, LevelFollowsConfig
<1> QED BY Invariance, <1>1, PTL

\* However the daemon comes to its end, run tells Celery to end and waits for it
\* with every context left and a server that takes no new request, and a stopping
\* thread waits for the requests under way.
THEOREM EndIsOrderly == Spec => []OrderlyEnd
<1>1. IInv /\ RequestInv => OrderlyEnd
  BY DEF IInv, MainInv, RequestInv, Awaited, NoRequest, OrderlyEnd, Stopping
<1> QED BY Invariance, RequestInvariance, <1>1, PTL

\* Whatever the number of signals and requests, a process that ends without an
\* error has answered every request.
THEOREM NoRequestIsCutOff == Spec => RequestsAnswered
<1>1. IInv /\ RequestInv /\ [Next]_vars
      => [main # "down" /\ main' = "down" /\ ~failed' => \A p \in Patches : At(p, "new")]_vars
  BY LastStep
<1> QED BY Invariance, RequestInvariance, <1>1, PTL DEF Spec, RequestsAnswered

\* The rows are never registered without the uuid of the master tenant.
THEOREM BootKnowsTenant == Spec => []BootHasTenant
<1>1. IInv => BootHasTenant
  BY DEF IInv, TokenInv, BootHasTenant
<1> QED BY Invariance, <1>1, PTL

=============================================================================
