------------------------------ MODULE HookRunner ------------------------------
(***************************************************************************)
(* From a bus message to the log of its hooks: the consumer dispatches a   *)
(* message to the callbacks of the subscriptions it matches, a callback    *)
(* queues a Celery task, and a worker attempts the hook, logs the attempt  *)
(* and queues the next one (plugins/subscription/bus.py, bus.py,           *)
(* plugins/subscription/celery_tasks.py).                                  *)
(***************************************************************************)
EXTENDS HookOutcome

CONSTANTS Events,       \* the messages RabbitMQ delivers to the consumer
          Hooks,        \* one per message and subscription it triggers
          HooksOf,      \* the hooks of a message
          SubOf,        \* the subscription of a hook
          AnswersOf,    \* the answers the attempts at a hook may get
          Subs, Workers,
          MaxAttempts,  \* hook_max_attempts
          Faults,       \* what may fail, see below
          Nil

(***************************************************************************)
(* "broker" a task cannot be published to RabbitMQ                         *)
(* "log"    the log of an attempt cannot be committed                      *)
(* "crash"  a worker dies; it acknowledged its task before running it      *)
(* "delete" a subscription is deleted                                      *)
(***************************************************************************)
ASSUME MaxAttemptsAssumption == MaxAttempts \in Nat \ {0}
ASSUME FaultsAssumption == Faults \subseteq {"broker", "log", "crash", "delete"}
ASSUME HooksAssumption ==
  /\ HooksOf \in [Events -> SUBSET Hooks]
  /\ \A h \in Hooks : \E e \in Events : h \in HooksOf[e]
  /\ \A d, e \in Events : d # e => HooksOf[d] \cap HooksOf[e] = {}
  /\ SubOf \in [Hooks -> Subs]
  /\ AnswersOf \in [Hooks -> SUBSET Answers]
ASSUME NilAssumption == Nil \notin Events \cup Answers

VARIABLES
  inbox,       \* the consumer's queue in RabbitMQ
  current,     \* the message being dispatched, or Nil
  callbacks,   \* the hooks of that message still to be called
  queue,       \* the tasks in Celery's queue, [hook, retries]
  running,     \* what each worker runs
  rows,        \* the subscriptions that exist
  logs         \* webhookd_subscription_log

vars == <<inbox, current, callbacks, queue, running, rows, logs>>
consumer == <<inbox, current, callbacks>>

Resting == [step |-> "idle", hook |-> Nil, retries |-> 0, answer |-> Nil]

Init ==
  /\ inbox = Events
  /\ current = Nil
  /\ callbacks = {}
  /\ queue = {}
  /\ running = [w \in Workers |-> Resting]
  /\ rows = Subs
  /\ logs = {}

-----------------------------------------------------------------------------
(***************************************************************************)
(* The consumer: __dispatch copies the subscriptions under the lock, calls *)
(* them one after the other, swallows what one raises, and the message is  *)
(* acknowledged in any case.                                               *)
(***************************************************************************)
Dispatch(e) ==
  /\ current = Nil /\ e \in inbox
  /\ current' = e
  /\ callbacks' = HooksOf[e]
  /\ UNCHANGED <<inbox, queue, running, rows, logs>>

\* _callback: hook_runner_task.delay
Callback(h) ==
  /\ h \in callbacks
  /\ callbacks' = callbacks \ {h}
  /\ queue' = queue \cup {[hook |-> h, retries |-> 0]}
  /\ UNCHANGED <<inbox, current, running, rows, logs>>

\* Mutant: what a callback raises stops the dispatch and requeues the message.
CallbackRequeues(h) ==
  /\ "broker" \in Faults
  /\ h \in callbacks
  /\ callbacks' = {} /\ current' = Nil
  /\ UNCHANGED <<inbox, queue, running, rows, logs>>

\* _callback: no such service plugin (return), or OperationalError (raise).
CallbackFails(h) ==
  /\ "broker" \in Faults
  /\ h \in callbacks
  /\ callbacks' = callbacks \ {h}
  /\ UNCHANGED <<inbox, current, queue, running, rows, logs>>

\* Mutant: the message is requeued although its callbacks have run.
AckRequeues ==
  /\ current # Nil /\ callbacks = {}
  /\ current' = Nil
  /\ UNCHANGED <<inbox, callbacks, queue, running, rows, logs>>

Ack ==
  /\ current # Nil /\ callbacks = {}
  /\ inbox' = inbox \ {current}
  /\ current' = Nil
  /\ UNCHANGED <<callbacks, queue, running, rows, logs>>

-----------------------------------------------------------------------------
(***************************************************************************)
(* hook_runner_task in a worker.                                           *)
(***************************************************************************)
At(w, step) == running[w].step = step
Rest(w) == running' = [running EXCEPT ![w] = Resting]

\* Mutant: the task is not acknowledged when it is taken.
TakeUnacknowledged(w, m) ==
  /\ At(w, "idle") /\ m \in queue
  /\ running' = [running EXCEPT ![w] =
       [step |-> "run", hook |-> m.hook, retries |-> m.retries, answer |-> Nil]]
  /\ UNCHANGED <<consumer, queue, rows, logs>>

\* A worker takes a task whose countdown has elapsed and acknowledges it.
Take(w, m) ==
  /\ At(w, "idle") /\ m \in queue
  /\ queue' = queue \ {m}
  /\ running' = [running EXCEPT ![w] =
       [step |-> "run", hook |-> m.hook, retries |-> m.retries, answer |-> Nil]]
  /\ UNCHANGED <<consumer, rows, logs>>

Run(w, a) ==
  /\ At(w, "run") /\ a \in AnswersOf[running[w].hook]
  /\ running' = [running EXCEPT ![w].step = "log", ![w].answer = a]
  /\ UNCHANGED <<consumer, queue, rows, logs>>

\* Mutants: off by one.
LastAttemptEarly(t) == t.retries + 2 >= MaxAttempts
LastAttemptLate(t)  == t.retries + 1 > MaxAttempts

LastAttempt(t) == t.retries + 1 >= MaxAttempts

Status(t) ==
  IF Outcome(t.answer) = "ok"                              THEN "success"
  ELSE IF Outcome(t.answer) = "retry" /\ ~LastAttempt(t)   THEN "failure"
  ELSE                                                          "error"

\* Mutants: a service that raised anything is tried again; the attempts are
\* counted from zero.
RetriedUnlessOk(t) == Status(t) # "success"
LogOfFromZero(t) == [hook |-> t.hook, attempts |-> t.retries, status |-> Status(t),
                     answer |-> t.answer]

\* HookRetry with attempts left ends in task.retry, anything else in a verdict.
Retried(t) == Status(t) = "failure"

LogOf(t) == [hook |-> t.hook, attempts |-> t.retries + 1, status |-> Status(t),
             answer |-> t.answer]

\* create_hook_log.  The primary key is the hook and the attempt: a second log
\* for them raises.  The foreign key fails when the subscription is gone, which
\* is logged and ignored.
Log(w) ==
  LET t == running[w]
      taken == \E l \in logs : l.hook = t.hook /\ l.attempts = t.retries + 1 IN
  /\ At(w, "log")
  /\ logs' = IF SubOf[t.hook] \in rows /\ ~taken THEN logs \cup {LogOf(t)} ELSE logs
  /\ IF Retried(t) /\ ~taken
       THEN running' = [running EXCEPT ![w].step = "retry"]
       ELSE Rest(w)
  /\ UNCHANGED <<consumer, queue, rows>>

\* Mutant: a log that cannot be committed is ignored.
LogFailsIgnored(w) ==
  /\ "log" \in Faults
  /\ At(w, "log")
  /\ IF Retried(running[w]) THEN running' = [running EXCEPT ![w].step = "retry"]
                            ELSE Rest(w)
  /\ UNCHANGED <<consumer, queue, rows, logs>>

\* The commit of the log raises, and with it the task: nothing is retried.
LogFails(w) ==
  /\ "log" \in Faults
  /\ At(w, "log")
  /\ Rest(w)
  /\ UNCHANGED <<consumer, queue, rows, logs>>

\* Mutant: the limit is off by one.
RetryOnceLess(w) ==
  LET t == running[w] IN
  /\ At(w, "retry")
  /\ queue' = IF t.retries + 1 >= MaxAttempts - 1 THEN queue
              ELSE queue \cup {[hook |-> t.hook, retries |-> t.retries + 1]}
  /\ Rest(w)
  /\ UNCHANGED <<consumer, rows, logs>>

\* task.retry: the same task with one more retry, unless that passes
\* task.max_retries, which hook_runner_task set to hook_max_attempts - 1.
Retry(w) ==
  LET t == running[w] IN
  /\ At(w, "retry")
  /\ queue' = IF t.retries + 1 > MaxAttempts - 1 THEN queue
              ELSE queue \cup {[hook |-> t.hook, retries |-> t.retries + 1]}
  /\ Rest(w)
  /\ UNCHANGED <<consumer, rows, logs>>

RetryFails(w) ==
  /\ "broker" \in Faults
  /\ At(w, "retry")
  /\ Rest(w)
  /\ UNCHANGED <<consumer, queue, rows, logs>>

Crash(w) ==
  /\ "crash" \in Faults
  /\ ~At(w, "idle")
  /\ Rest(w)
  /\ UNCHANGED <<consumer, queue, rows, logs>>

\* SubscriptionService.delete commits: the logs go with the row (ON DELETE
\* CASCADE); callbacks being dispatched and queued tasks stay.
Delete(s) ==
  /\ "delete" \in Faults
  /\ s \in rows
  /\ rows' = rows \ {s}
  /\ logs' = {l \in logs : SubOf[l.hook] # s}
  /\ UNCHANGED <<consumer, queue, running>>

-----------------------------------------------------------------------------
\* All messages are acknowledged and no task is left: the daemon waits.
Idle == /\ inbox = {} /\ queue = {} /\ \A w \in Workers : At(w, "idle")
        /\ UNCHANGED vars

Consume == \/ Ack
           \/ \E e \in Events : Dispatch(e)
           \/ \E h \in Hooks : Callback(h) \/ CallbackFails(h)

Work(w) == \/ \E m \in queue : Take(w, m)
           \/ \E a \in Answers : Run(w, a)
           \/ Log(w) \/ LogFails(w) \/ Retry(w) \/ RetryFails(w)

Next == \/ Consume \/ Idle
        \/ \E w \in Workers : Work(w) \/ Crash(w)
        \/ \E s \in Subs : Delete(s)

Spec == Init /\ [][Next]_vars

\* The consumer's thread and the workers run, and an HTTP call ends: the code
\* gives each a timeout.  Celery serves every queued task in the end.
Fairness == /\ WF_vars(Consume)
            /\ \A w \in Workers : WF_vars(Work(w))

FairSpec == Spec /\ Fairness

-----------------------------------------------------------------------------
TaskType == [hook : Hooks, retries : 0..(MaxAttempts - 1)]
RunType  == [step : {"run"}, hook : Hooks, retries : 0..(MaxAttempts - 1),
             answer : {Nil}]
       \cup [step : {"log", "retry"}, hook : Hooks, retries : 0..(MaxAttempts - 1),
             answer : Answers]
LogType  == [hook : Hooks, attempts : 1..MaxAttempts,
             status : {"success", "failure", "error"}, answer : Answers]

\* Types; in particular no task ever carries more retries than the limit allows.
TypeOK ==
  /\ inbox \subseteq Events
  /\ current \in Events \cup {Nil}
  /\ callbacks \subseteq Hooks
  /\ queue \subseteq TaskType
  /\ running \in [Workers -> RunType \cup {Resting}]
  /\ rows \subseteq Subs
  /\ logs \subseteq LogType

Busy(w) == ~At(w, "idle")

\* Two attempts at a hook are never made at the same time, nor queued together,
\* whatever is lost on the way: at most one task, queued or running, is about it.
SingleFlight ==
  /\ \A m, n \in queue : m.hook = n.hook => m = n
  /\ \A v, w \in Workers :
       Busy(v) /\ Busy(w) /\ running[v].hook = running[w].hook => v = w
  /\ \A m \in queue, w \in Workers : Busy(w) => m.hook # running[w].hook

\* Once an attempt has given the verdict on a hook, "success" or "error", the
\* hook is neither queued nor attempted again, and there is no other verdict.
VerdictIsFinal ==
  \A l \in logs : l.status # "failure" =>
    /\ \A m \in queue : m.hook # l.hook
    /\ \A w \in Workers : Busy(w) => running[w].hook # l.hook
    /\ \A k \in logs : k.hook = l.hook /\ k.status # "failure" => k = l

FailedAttempt(h, n) ==
  \E l \in logs : l.hook = h /\ l.attempts = n /\ l.status = "failure"

\* An attempt is logged only after each attempt before it was logged as a
\* failure: the logs of a hook never show a gap.
LogsContiguous ==
  \A l \in logs : \A n \in 1..(l.attempts - 1) : FailedAttempt(l.hook, n)

\* A hook is given up for want of attempts only after hook_max_attempts of them,
\* all in the log (test_http_callback.py: 5 logs, one of them "error").
GivenUpAfterMax ==
  \A l \in logs : l.status = "error" /\ Outcome(l.answer) = "retry" =>
    \A n \in 1..MaxAttempts : \E k \in logs : k.hook = l.hook /\ k.attempts = n

\* The two limits agree: the task asks Celery for a retry only when Celery's
\* own limit allows it, so that MaxRetriesExceededError is never raised.
RetryAllowed == \A w \in Workers : At(w, "retry") => running[w].retries + 1 < MaxAttempts

\* A call inside the retry helper that got no answer is transient: it is tried
\* again, or it was the last attempt (the except clause of helpers.py:115 lists
\* these exceptions).
NoAnswerRetried ==
  \A l \in logs : l.answer.via \in {"requests", "httpx"} /\ l.answer.what \in NoAnswer =>
    l.status = "failure" \/ l.attempts = MaxAttempts

\* A message is not done with before each of its callbacks has queued its task
\* or the subscription is served no more ("our bus will get this message again
\* on reconnection").
Tasks(h)  == {m \in queue : m.hook = h}
Runs(h)   == {w \in Workers : Busy(w) /\ running[w].hook = h}
Handed(h) == Tasks(h) # {} \/ Runs(h) # {} \/ \E l \in logs : l.hook = h
NoneDropped == \A e \in Events \ inbox : \A h \in HooksOf[e] : Handed(h)

Untouched(h) == h \in callbacks \/ \E e \in inbox \ {current} : h \in HooksOf[e]

Stage(h) ==
  IF Tasks(h) # {}      THEN (CHOOSE m \in Tasks(h) : TRUE).retries + 1
  ELSE IF Runs(h) # {}  THEN running[CHOOSE w \in Runs(h) : TRUE].retries + 1
  ELSE IF Untouched(h)  THEN 0
  ELSE MaxAttempts + 1

Delivery == INSTANCE HookDelivery WITH stage <- [h \in Hooks |-> Stage(h)]

\* Every hook goes through its attempts in order, at most MaxAttempts of them,
\* whatever fails.
Delivered == Delivery!Spec

\* Every message is acknowledged: a callback that raises does not hold up the
\* consumer.
MessagesEnd == \A e \in Events : <>(e \notin inbox)

=============================================================================
