--------------------------- MODULE HookRunnerProofs ---------------------------
(***************************************************************************)
(* The runner of hooks keeps its promises for every number of messages,    *)
(* hooks, workers and attempts, and whatever fails.                        *)
(*                                                                         *)
(* The argument: a hook has at most one token, which is first in the inbox *)
(* or among the callbacks, then in the queue, then with a worker, and may  *)
(* be lost but never copied; and the token carries the number of attempts  *)
(* the log of the hook shows.                                              *)
(***************************************************************************)
EXTENDS HookRunner, TLAPS

\* The callbacks are those of the message being dispatched, not yet acknowledged.
ConsumerInv ==
  /\ current = Nil => callbacks = {}
  /\ current # Nil => current \in inbox /\ callbacks \subseteq HooksOf[current]

\* A hook whose callback has not run has no task and no log.
Unattempted(h) == /\ \A m \in queue : m.hook # h
                  /\ \A w \in Workers : Busy(w) => running[w].hook # h
                  /\ \A l \in logs : l.hook # h
FreshInv == \A h \in Hooks : Untouched(h) => Unattempted(h)

\* The log of hook h shows n attempts, all of them failures.
History(h, n) ==
  /\ \A l \in logs : l.hook = h => l.status = "failure" /\ l.attempts <= n
  /\ SubOf[h] \in rows => \A i \in 1..n : FailedAttempt(h, i)

QueueInv == \A m \in queue : History(m.hook, m.retries)
RunningInv ==
  \A w \in Workers :
    /\ At(w, "run") \/ At(w, "log") => History(running[w].hook, running[w].retries)
    /\ At(w, "retry") => /\ History(running[w].hook, running[w].retries + 1)
                         /\ running[w].retries + 1 < MaxAttempts

\* A hook has one verdict, given for want of attempts after the last one only.
LogsInv ==
  /\ \A k, l \in logs :
       k.hook = l.hook /\ k.status # "failure" /\ l.status # "failure" => k = l
  /\ \A l \in logs : l.status = "error" /\ Outcome(l.answer) = "retry" =>
       l.attempts = MaxAttempts

IInv == /\ TypeOK /\ ConsumerInv /\ SingleFlight /\ FreshInv
        /\ QueueInv /\ RunningInv /\ LogsInv /\ LogsContiguous

-----------------------------------------------------------------------------
USE MaxAttemptsAssumption, HooksAssumption, NilAssumption

LEMMA InitIInv == Init => IInv
BY DEF Init, IInv, TypeOK, ConsumerInv, SingleFlight, FreshInv, Unattempted, QueueInv,
       RunningInv, LogsInv, LogsContiguous, Busy, At, Resting

LEMMA FreshKept ==
  ASSUME FreshInv, UNCHANGED <<queue, running, logs>>,
         \A h \in Hooks : Untouched(h)' => Untouched(h)
  PROVE  FreshInv'
BY DEF FreshInv, Unattempted, Busy, At

\* The consumer's steps change no task, worker or log but for the new task.
LEMMA DispatchIInv == ASSUME IInv, NEW e \in Events, Dispatch(e) PROVE IInv'
<1>1. TypeOK' BY DEF IInv, TypeOK, Dispatch
<1>2. ConsumerInv' BY DEF IInv, ConsumerInv, Dispatch
<1>a. e \in inbox \ {current} BY DEF Dispatch
<1>b. \A h \in Hooks : Untouched(h)' => Untouched(h)
  BY <1>a DEF IInv, TypeOK, Untouched, Dispatch
<1>3. FreshInv' BY <1>b, FreshKept DEF IInv, Dispatch
<1>4. SingleFlight' /\ QueueInv' /\ RunningInv' /\ LogsInv' /\ LogsContiguous'
  BY DEF IInv, Dispatch, SingleFlight, QueueInv, RunningInv, LogsInv, LogsContiguous,
         History, FailedAttempt, Busy, At
<1> QED BY <1>1, <1>2, <1>3, <1>4 DEF IInv

LEMMA AckIInv == ASSUME IInv, Ack PROVE IInv'
<1>1. TypeOK' BY DEF IInv, TypeOK, Ack
<1>2. ConsumerInv' BY DEF IInv, ConsumerInv, Ack
<1>b. \A h \in Hooks : Untouched(h)' => Untouched(h)
  BY DEF Untouched, Ack
<1>3. FreshInv' BY <1>b, FreshKept DEF IInv, Ack
<1>4. SingleFlight' /\ QueueInv' /\ RunningInv' /\ LogsInv' /\ LogsContiguous'
  BY DEF IInv, Ack, SingleFlight, QueueInv, RunningInv, LogsInv, LogsContiguous,
         History, FailedAttempt, Busy, At
<1> QED BY <1>1, <1>2, <1>3, <1>4 DEF IInv

LEMMA CallbackFailsIInv == ASSUME IInv, NEW h \in Hooks, CallbackFails(h) PROVE IInv'
<1>1. TypeOK' BY DEF IInv, TypeOK, CallbackFails
<1>2. ConsumerInv' BY DEF IInv, ConsumerInv, CallbackFails
<1>b. \A g \in Hooks : Untouched(g)' => Untouched(g)
  BY DEF Untouched, CallbackFails
<1>3. FreshInv' BY <1>b, FreshKept DEF IInv, CallbackFails
<1>4. SingleFlight' /\ QueueInv' /\ RunningInv' /\ LogsInv' /\ LogsContiguous'
  BY DEF IInv, CallbackFails, SingleFlight, QueueInv, RunningInv, LogsInv,
         LogsContiguous, History, FailedAttempt, Busy, At
<1> QED BY <1>1, <1>2, <1>3, <1>4 DEF IInv

LEMMA CallbackIInv == ASSUME IInv, NEW h \in Hooks, Callback(h) PROVE IInv'
<1> DEFINE task == [hook |-> h, retries |-> 0]
<1>1. TypeOK' BY DEF IInv, TypeOK, TaskType, Callback
<1>2. ConsumerInv' BY DEF IInv, ConsumerInv, Callback
<1>3. Unattempted(h) BY DEF IInv, FreshInv, Untouched, Callback
<1>4. ~Untouched(h)'
  BY DEF IInv, TypeOK, ConsumerInv, Untouched, Callback
<1>5. FreshInv'
  BY <1>4 DEF IInv, FreshInv, Untouched, Unattempted, Busy, At, Callback
<1>6. SingleFlight'
  BY <1>3 DEF IInv, SingleFlight, Unattempted, Busy, At, Callback
<1>7. QueueInv'
  BY <1>3 DEF IInv, QueueInv, Unattempted, History, FailedAttempt, Callback
<1>8. RunningInv' /\ LogsInv' /\ LogsContiguous'
  BY DEF IInv, Callback, RunningInv, LogsInv, LogsContiguous, History, FailedAttempt,
         At
<1> QED BY <1>1, <1>2, <1>5, <1>6, <1>7, <1>8 DEF IInv

-----------------------------------------------------------------------------
(***************************************************************************)
(* The workers.                                                            *)
(***************************************************************************)
Others(w) == \A v \in Workers \ {w} : running'[v] = running[v]

LEMMA WorkerRests ==
  ASSUME TypeOK, NEW w \in Workers, Rest(w)
  PROVE  /\ ~Busy(w)' /\ ~At(w, "run")' /\ ~At(w, "log")' /\ ~At(w, "retry")'
         /\ Others(w)
         /\ running' \in [Workers -> RunType \cup {Resting}]
BY DEF TypeOK, Rest, Busy, At, Resting, Others

\* A worker that gives up its task, for whatever reason, only loses a token.
LEMMA Forget ==
  ASSUME IInv, NEW w \in Workers, Rest(w), UNCHANGED <<consumer, queue, rows, logs>>
  PROVE  IInv'
<1>1. TypeOK BY DEF IInv
<1>2. /\ ~Busy(w)' /\ ~At(w, "run")' /\ ~At(w, "log")' /\ ~At(w, "retry")'
      /\ Others(w) /\ running' \in [Workers -> RunType \cup {Resting}]
  BY <1>1, WorkerRests
<1>3. TypeOK' BY <1>1, <1>2 DEF TypeOK, consumer
<1>4. ConsumerInv' BY DEF IInv, ConsumerInv, consumer
<1>5. \A v \in Workers : Busy(v)' => Busy(v) /\ running'[v] = running[v]
  BY <1>2 DEF Others, Busy, At
<1>6. SingleFlight' BY <1>5 DEF IInv, SingleFlight
<1>7. FreshInv'
  <2>1. \A h \in Hooks : Untouched(h)' => Untouched(h) BY DEF Untouched, consumer
  <2> QED BY <1>5, <2>1 DEF IInv, FreshInv, Unattempted
<1>8. QueueInv' /\ LogsInv' /\ LogsContiguous'
  BY DEF IInv, QueueInv, LogsInv, LogsContiguous, History, FailedAttempt
<1>9. RunningInv'
  BY <1>2 DEF IInv, RunningInv, Others, At, History, FailedAttempt
<1> QED BY <1>3, <1>4, <1>6, <1>7, <1>8, <1>9 DEF IInv

LEMMA TakeIInv ==
  ASSUME IInv, NEW w \in Workers, NEW m \in queue, Take(w, m) PROVE IInv'
<1> DEFINE run == [step |-> "run", hook |-> m.hook, retries |-> m.retries, answer |-> Nil]
<1>1. TypeOK BY DEF IInv
<1>2. m \in TaskType BY <1>1 DEF TypeOK
<1>3. running'[w] = run /\ Others(w)
  BY <1>1 DEF TypeOK, Take, Others
<1>4. TypeOK'
  <2>1. run \in RunType BY <1>2 DEF TaskType, RunType
  <2> QED BY <1>1, <2>1 DEF TypeOK, Take, consumer
<1>5. ConsumerInv' BY DEF IInv, ConsumerInv, Take, consumer
<1>6. SingleFlight'
  BY <1>3 DEF IInv, SingleFlight, Take, Others, Busy, At
<1>7. FreshInv'
  <2>1. \A h \in Hooks : Untouched(h)' => Untouched(h) BY DEF Untouched, Take, consumer
  <2> QED BY <1>3, <2>1 DEF IInv, FreshInv, Unattempted, Others, Busy, At, Take
<1>8. QueueInv' /\ LogsInv' /\ LogsContiguous'
  BY DEF IInv, QueueInv, LogsInv, LogsContiguous, History, FailedAttempt, Take
<1>9. RunningInv'
  <2>1. History(m.hook, m.retries)' BY DEF IInv, QueueInv, History, FailedAttempt, Take
  <2>2. ASSUME NEW v \in Workers \ {w}
        PROVE  /\ At(v, "run")' \/ At(v, "log")' =>
                    History(running[v].hook, running[v].retries)'
               /\ At(v, "retry")' => /\ History(running[v].hook, running[v].retries + 1)'
                                     /\ (running[v].retries + 1 < MaxAttempts)'
    BY <1>3 DEF IInv, RunningInv, Others, At, History, FailedAttempt, Take
  <2> QED BY <1>3, <2>1, <2>2 DEF RunningInv, At
<1> QED BY <1>4, <1>5, <1>6, <1>7, <1>8, <1>9 DEF IInv

LEMMA RunIInv ==
  ASSUME IInv, NEW w \in Workers, NEW a \in Answers, Run(w, a) PROVE IInv'
<1> DEFINE t == running[w]
           run == [t EXCEPT !.step = "log", !.answer = a]
<1>1. TypeOK BY DEF IInv
<1>2. t \in RunType BY <1>1 DEF TypeOK, Run, At, Resting
<1>3. running'[w] = run /\ Others(w) /\ running' = [running EXCEPT ![w] = run]
  BY <1>1 DEF TypeOK, Run, Others
<1>4. /\ run.step = "log" /\ run.hook = t.hook /\ run.retries = t.retries
      /\ run \in RunType
  BY <1>2 DEF RunType
<1>5. TypeOK' BY <1>1, <1>3, <1>4 DEF TypeOK, Run, consumer
<1>6. ConsumerInv' BY DEF IInv, ConsumerInv, Run, consumer
<1>7. \A v \in Workers : /\ Busy(v)' => Busy(v)
                         /\ running'[v].hook = running[v].hook
                         /\ running'[v].retries = running[v].retries
  BY <1>3, <1>4 DEF Run, Others, Busy, At
<1>8. queue' = queue /\ rows' = rows /\ logs' = logs BY DEF Run
<1>12. SingleFlight' BY <1>7, <1>8 DEF IInv, SingleFlight
<1>9. FreshInv'
  <2>1. \A h \in Hooks : Untouched(h)' => Untouched(h) BY DEF Untouched, Run, consumer
  <2> QED BY <1>7, <2>1 DEF IInv, FreshInv, Unattempted, Run
<1>10. QueueInv' /\ LogsInv' /\ LogsContiguous'
  BY DEF IInv, QueueInv, LogsInv, LogsContiguous, History, FailedAttempt, Run
<1>11. RunningInv'
  <2>1. \A v \in Workers : /\ At(v, "run")' \/ At(v, "log")' => At(v, "run") \/ At(v, "log")
                           /\ At(v, "retry")' => At(v, "retry")
    BY <1>3, <1>4 DEF Run, Others, At
  <2>2. ASSUME NEW h, NEW n, History(h, n) PROVE History(h, n)'
    BY <1>8, <2>2 DEF History, FailedAttempt
  <2>3. ASSUME NEW v \in Workers, At(v, "run")' \/ At(v, "log")'
        PROVE  History(running[v].hook, running[v].retries)'
    BY <1>7, <2>1, <2>2, <2>3 DEF IInv, RunningInv
  <2>4. ASSUME NEW v \in Workers, At(v, "retry")'
        PROVE  /\ History(running[v].hook, running[v].retries + 1)'
               /\ (running[v].retries + 1)' < MaxAttempts
    BY <1>7, <2>1, <2>2, <2>4 DEF IInv, RunningInv
  <2> QED BY <2>3, <2>4 DEF RunningInv
<1> QED BY <1>5, <1>6, <1>12, <1>9, <1>10, <1>11 DEF IInv

LEMMA RetryIInv == ASSUME IInv, NEW w \in Workers, Retry(w) PROVE IInv'
<1> DEFINE t == running[w]
           task == [hook |-> t.hook, retries |-> t.retries + 1]
<1>1. TypeOK BY DEF IInv
<1>2. t \in RunType BY <1>1 DEF TypeOK, Retry, At, Resting
<1>3. /\ ~Busy(w)' /\ ~At(w, "run")' /\ ~At(w, "log")' /\ ~At(w, "retry")'
      /\ Others(w) /\ running' \in [Workers -> RunType \cup {Resting}]
  BY <1>1, WorkerRests DEF Retry
<1>4. History(t.hook, t.retries + 1) /\ t.retries + 1 < MaxAttempts
  BY DEF IInv, RunningInv, Retry
<1>5. queue' = queue \cup {task} BY <1>2, <1>4 DEF Retry, RunType
<1>6. task \in TaskType BY <1>2, <1>4 DEF TaskType, RunType
<1>7. TypeOK' BY <1>1, <1>3, <1>5, <1>6 DEF TypeOK, Retry, consumer
<1>8. ConsumerInv' BY DEF IInv, ConsumerInv, Retry, consumer
<1>9. \A v \in Workers : Busy(v)' => Busy(v) /\ running'[v] = running[v] /\ v # w
  BY <1>3 DEF Others, Busy, At
<1>10. Busy(w) BY DEF Retry, Busy, At
<1>11. SingleFlight' BY <1>5, <1>9, <1>10 DEF IInv, SingleFlight
<1>12. FreshInv'
  <2>1. \A h \in Hooks : Untouched(h)' => Untouched(h) BY DEF Untouched, Retry, consumer
  <2> QED BY <1>5, <1>9, <1>10, <2>1 DEF IInv, FreshInv, Unattempted, Retry
<1>13. QueueInv'
  BY <1>4, <1>5 DEF IInv, QueueInv, History, FailedAttempt, Retry
<1>14. LogsInv' /\ LogsContiguous'
  BY DEF IInv, LogsInv, LogsContiguous, FailedAttempt, Retry
<1>15. RunningInv'
  BY <1>3 DEF IInv, RunningInv, Others, At, History, FailedAttempt, Retry
<1> QED BY <1>7, <1>8, <1>11, <1>12, <1>13, <1>14, <1>15 DEF IInv

LEMMA DeleteIInv == ASSUME IInv, NEW s \in Subs, Delete(s) PROVE IInv'
<1>1. TypeOK' BY DEF IInv, TypeOK, Delete, consumer
<1>2. ConsumerInv' BY DEF IInv, ConsumerInv, Delete, consumer
<1>3. SingleFlight' BY DEF IInv, SingleFlight, Delete, Busy, At
<1>4. logs' \subseteq logs /\ rows' \subseteq rows BY DEF Delete
<1>5. FreshInv'
  <2>1. \A h \in Hooks : Untouched(h)' => Untouched(h) BY DEF Untouched, Delete, consumer
  <2> QED BY <1>4, <2>1 DEF IInv, FreshInv, Unattempted, Delete, Busy, At
<1>6. ASSUME NEW h \in Hooks, NEW n, History(h, n) PROVE History(h, n)'
  <2>1. SubOf[h] \in rows' => SubOf[h] # s BY DEF Delete
  <2>2. ASSUME NEW i, FailedAttempt(h, i), SubOf[h] # s PROVE FailedAttempt(h, i)'
    BY <2>2 DEF FailedAttempt, Delete
  <2> QED BY <1>4, <1>6, <2>1, <2>2 DEF History
<1>7. QueueInv'
  <2>1. \A m \in queue : m.hook \in Hooks BY DEF IInv, TypeOK, TaskType
  <2> QED BY <1>6, <2>1 DEF IInv, QueueInv, Delete
<1>8. RunningInv'
  <2>1. \A w \in Workers : ~At(w, "idle") => running[w].hook \in Hooks
    BY DEF IInv, TypeOK, RunType, Resting, At
  <2>2. running' = running BY DEF Delete
  <2> QED BY <1>6, <2>1, <2>2 DEF IInv, RunningInv, At
<1>9. LogsInv' BY <1>4 DEF IInv, LogsInv
<1>10. LogsContiguous' BY DEF IInv, LogsContiguous, FailedAttempt, Delete
<1> QED BY <1>1, <1>2, <1>3, <1>5, <1>7, <1>8, <1>9, <1>10 DEF IInv

LEMMA LogIInv == ASSUME IInv, NEW w \in Workers, Log(w) PROVE IInv'
<1> DEFINE t == running[w]
           log == LogOf(t)
           fails == Retried(t)
<1>1. TypeOK BY DEF IInv
<1>2. t \in RunType /\ t.answer \in Answers
  BY <1>1 DEF TypeOK, Log, At, Resting, RunType
<1>3. History(t.hook, t.retries) BY DEF IInv, RunningInv, Log
<1>4. ~ \E l \in logs : l.hook = t.hook /\ l.attempts = t.retries + 1
  BY <1>2, <1>3 DEF History, RunType
<1>5. log \in LogType /\ (fails => t.retries + 1 < MaxAttempts)
  BY <1>2 DEF LogType, LogOf, Retried, Status, RunType, LastAttempt
<1>6. /\ log.hook = t.hook /\ log.attempts = t.retries + 1
      /\ log.status = Status(t) /\ log.answer = t.answer
  BY DEF LogOf
<1>7. /\ logs' = IF SubOf[t.hook] \in rows THEN logs \cup {log} ELSE logs
      /\ IF fails THEN running' = [running EXCEPT ![w].step = "retry"] ELSE Rest(w)
      /\ UNCHANGED <<consumer, queue, rows>>
  BY <1>4 DEF Log
<1>8. /\ Others(w) /\ running' \in [Workers -> RunType \cup {Resting}]
      /\ ~At(w, "run")' /\ ~At(w, "log")'
      /\ IF fails
           THEN /\ At(w, "retry")' /\ Busy(w)'
                /\ running'[w].hook = t.hook /\ running'[w].retries = t.retries
           ELSE ~At(w, "retry")' /\ ~Busy(w)'
  <2>1. CASE fails
    <3> DEFINE r == [t EXCEPT !.step = "retry"]
    <3>1. r \in RunType /\ r.step = "retry" /\ r.hook = t.hook /\ r.retries = t.retries
      BY <1>2 DEF RunType
    <3>2. running' = [running EXCEPT ![w] = r] BY <1>1, <1>7, <2>1 DEF TypeOK
    <3> QED BY <1>1, <2>1, <3>1, <3>2 DEF TypeOK, Others, Busy, At
  <2>2. CASE ~fails BY <1>1, <1>7, <2>2, WorkerRests
  <2> QED BY <2>1, <2>2
<1>9. TypeOK' BY <1>1, <1>5, <1>7, <1>8 DEF TypeOK, consumer
<1>10. ConsumerInv' BY <1>7 DEF IInv, ConsumerInv, consumer
<1>11. Busy(w) BY DEF Log, Busy, At
<1>12. \A v \in Workers : Busy(v)' => Busy(v) /\ running'[v].hook = running[v].hook
  BY <1>8, <1>11 DEF Others, Busy, At
<1>13. SingleFlight' BY <1>7, <1>12 DEF IInv, SingleFlight
<1>14. FreshInv'
  <2>1. \A h \in Hooks : Untouched(h)' => Untouched(h) BY <1>7 DEF Untouched, consumer
  <2> QED BY <1>6, <1>7, <1>11, <1>12, <2>1 DEF IInv, FreshInv, Unattempted
\* The logs of another hook are what they were.
<1>15. ASSUME NEW h, NEW n, h # t.hook, History(h, n) PROVE History(h, n)'
  BY <1>6, <1>7, <1>15 DEF History, FailedAttempt
<1>16. QueueInv'
  <2>1. \A m \in queue : m.hook # t.hook BY <1>11 DEF IInv, SingleFlight
  <2> QED BY <1>7, <1>15, <2>1 DEF IInv, QueueInv
<1>17. ASSUME fails, NEW h, NEW n, h = t.hook, n = t.retries + 1 PROVE History(h, n)'
  <2>1. \A i : FailedAttempt(h, i) => FailedAttempt(h, i)'
    BY <1>7 DEF FailedAttempt
  <2>2. SubOf[h] \in rows => FailedAttempt(h, n)'
    BY <1>6, <1>7, <1>17 DEF FailedAttempt, Retried
  <2>3. t.retries \in Nat BY <1>2 DEF RunType
  <2>4. \A l \in logs' : l.hook = h => l.status = "failure" /\ l.attempts <= n
    <3>1. \A l \in logs : l.attempts \in Nat BY <1>1 DEF TypeOK, LogType
    <3> QED BY <1>3, <1>6, <1>7, <1>17, <2>3, <3>1 DEF History, Retried
  <2>5. ASSUME NEW i \in 1..n, SubOf[h] \in rows PROVE FailedAttempt(h, i)'
    <3>1. i = n \/ i \in 1..t.retries BY <1>17, <2>3
    <3> QED BY <1>3, <1>17, <2>1, <2>2, <2>5, <3>1 DEF History
  <2> QED BY <1>7, <2>4, <2>5 DEF History
<1>18. RunningInv'
  <2>1. \A v \in Workers \ {w} : Busy(v) => running[v].hook # t.hook
    BY <1>11 DEF IInv, SingleFlight
  <2>2. ASSUME NEW v \in Workers \ {w}, At(v, "run")' \/ At(v, "log")'
        PROVE  History(running[v].hook, running[v].retries)'
    BY <1>8, <1>15, <2>1, <2>2 DEF IInv, RunningInv, Others, Busy, At
  <2>3. ASSUME NEW v \in Workers \ {w}, At(v, "retry")'
        PROVE  /\ History(running[v].hook, running[v].retries + 1)'
               /\ (running[v].retries + 1)' < MaxAttempts
    BY <1>8, <1>15, <2>1, <2>3 DEF IInv, RunningInv, Others, Busy, At
  <2>4. ASSUME At(w, "retry")'
        PROVE  /\ History(running[w].hook, running[w].retries + 1)'
               /\ (running[w].retries + 1)' < MaxAttempts
    BY <1>5, <1>8, <1>17, <2>4
  <2> QED BY <1>8, <2>2, <2>3, <2>4 DEF RunningInv
<1>19. LogsInv'
  <2>1. log.status = "error" /\ Outcome(log.answer) = "retry" => log.attempts = MaxAttempts
    BY <1>2, <1>6 DEF Status, LastAttempt, RunType
  <2>2. \A l \in logs : l.hook = log.hook => l.status = "failure"
    BY <1>3, <1>6 DEF History
  <2> QED BY <1>7, <2>1, <2>2 DEF IInv, LogsInv
<1>20. LogsContiguous'
  <2>1. \A h, i : FailedAttempt(h, i) => FailedAttempt(h, i)' BY <1>7 DEF FailedAttempt
  <2>2. SubOf[t.hook] \in rows =>
          \A n \in 1..(log.attempts - 1) : FailedAttempt(log.hook, n)
    BY <1>2, <1>3, <1>6 DEF History, RunType
  <2> QED BY <1>7, <2>1, <2>2 DEF IInv, LogsContiguous
<1> QED BY <1>9, <1>10, <1>13, <1>14, <1>16, <1>18, <1>19, <1>20 DEF IInv

-----------------------------------------------------------------------------
LEMMA NextIInv == IInv /\ [Next]_vars => IInv'
<1> SUFFICES ASSUME IInv, [Next]_vars PROVE IInv'
  OBVIOUS
<1>1. ASSUME NEW e \in Events, Dispatch(e) PROVE IInv' BY <1>1, DispatchIInv
<1>2. ASSUME Ack PROVE IInv' BY <1>2, AckIInv
<1>3. ASSUME NEW h \in Hooks, Callback(h) PROVE IInv' BY <1>3, CallbackIInv
<1>4. ASSUME NEW h \in Hooks, CallbackFails(h) PROVE IInv' BY <1>4, CallbackFailsIInv
<1>5. ASSUME NEW w \in Workers, NEW m \in queue, Take(w, m) PROVE IInv'
  BY <1>5, TakeIInv
<1>6. ASSUME NEW w \in Workers, NEW a \in Answers, Run(w, a) PROVE IInv'
  BY <1>6, RunIInv
<1>7. ASSUME NEW w \in Workers, Log(w) PROVE IInv' BY <1>7, LogIInv
<1>8. ASSUME NEW w \in Workers, LogFails(w) \/ RetryFails(w) \/ Crash(w) PROVE IInv'
  BY <1>8, Forget DEF LogFails, RetryFails, Crash
<1>9. ASSUME NEW w \in Workers, Retry(w) PROVE IInv' BY <1>9, RetryIInv
<1>10. ASSUME NEW s \in Subs, Delete(s) PROVE IInv' BY <1>10, DeleteIInv
<1>11. CASE Idle \/ UNCHANGED vars
  <2>1. UNCHANGED vars BY <1>11 DEF Idle
  <2> QED BY <2>1 DEF vars, IInv, TypeOK, ConsumerInv, SingleFlight, FreshInv, Untouched,
       Unattempted, QueueInv, RunningInv, LogsInv, LogsContiguous, History,
       FailedAttempt, Busy, At
<1> QED BY <1>1, <1>2, <1>3, <1>4, <1>5, <1>6, <1>7, <1>8, <1>9, <1>10, <1>11
        DEF Next, Consume, Work

\* The inductive invariant holds in every reachable state.
THEOREM Invariance == Spec => []IInv
BY InitIInv, NextIInv, PTL DEF Spec

\* Types, and with them the limit on retries: hook_runner_task never has more
\* than hook_max_attempts - 1 of them, however many workers there are.
THEOREM TypeCorrect == Spec => []TypeOK
BY Invariance, PTL DEF IInv

\* A hook is never attempted twice at the same time: the consumer queues one
\* task per hook and a retry replaces the task it retries.
THEOREM NeverTwoAttempts == Spec => []SingleFlight
BY Invariance, PTL DEF IInv

\* No attempt follows the verdict on a hook, whatever fails.
THEOREM VerdictsAreFinal == Spec => []VerdictIsFinal
<1>1. IInv => VerdictIsFinal
  <2> SUFFICES ASSUME IInv, NEW l \in logs, l.status # "failure"
               PROVE  /\ \A m \in queue : m.hook # l.hook
                      /\ \A w \in Workers : Busy(w) => running[w].hook # l.hook
                      /\ \A k \in logs : k.hook = l.hook /\ k.status # "failure" => k = l
    BY DEF VerdictIsFinal
  <2>1. \A m \in queue : m.hook # l.hook BY DEF IInv, QueueInv, History
  <2>2. ASSUME NEW w \in Workers, Busy(w) PROVE running[w].hook # l.hook
    <3>1. At(w, "run") \/ At(w, "log") \/ At(w, "retry")
      BY <2>2 DEF IInv, TypeOK, RunType, Resting, Busy, At
    <3> QED BY <3>1 DEF IInv, RunningInv, History
  <2>3. \A k \in logs : k.hook = l.hook /\ k.status # "failure" => k = l
    BY DEF IInv, LogsInv
  <2> QED BY <2>1, <2>2, <2>3
<1> QED BY Invariance, <1>1, PTL

\* The log of a hook has no gap.
THEOREM NoGapInLogs == Spec => []LogsContiguous
BY Invariance, PTL DEF IInv

\* A hook given up for want of attempts shows hook_max_attempts attempts.
THEOREM GivesUpAfterMax == Spec => []GivenUpAfterMax
<1>1. IInv => GivenUpAfterMax
  <2> SUFFICES ASSUME IInv, NEW l \in logs,
                      l.status = "error" /\ Outcome(l.answer) = "retry",
                      NEW n \in 1..MaxAttempts
               PROVE  \E k \in logs : k.hook = l.hook /\ k.attempts = n
    BY DEF GivenUpAfterMax
  <2>1. l.attempts = MaxAttempts BY DEF IInv, LogsInv
  <2>2. n = MaxAttempts \/ n \in 1..(l.attempts - 1) BY <2>1
  <2> QED BY <2>1, <2>2 DEF IInv, LogsContiguous, FailedAttempt
<1> QED BY Invariance, <1>1, PTL

\* Celery's limit never refuses a retry the task asks for.
THEOREM RetriesAllowed == Spec => []RetryAllowed
<1>1. IInv => RetryAllowed BY DEF IInv, RunningInv, RetryAllowed
<1> QED BY Invariance, <1>1, PTL

-----------------------------------------------------------------------------
(***************************************************************************)
(* Which answers are in the log.                                           *)
(***************************************************************************)
\* An answer that is about to be logged, or is, is one the hook may get, and
\* only a good one is logged as a success.
AnswersInv ==
  /\ \A w \in Workers : At(w, "log") => running[w].answer \in AnswersOf[running[w].hook]
  /\ \A l \in logs : /\ l.answer \in AnswersOf[l.hook]
                     /\ l.status = "success" => Outcome(l.answer) = "ok"

LEMMA AnswersKept ==
  ASSUME AnswersInv, logs' \subseteq logs,
         \A w \in Workers : At(w, "log")' => running'[w] = running[w]
  PROVE  AnswersInv'
BY DEF AnswersInv, At

LEMMA LogAnswersInv == ASSUME TypeOK, AnswersInv, NEW w \in Workers, Log(w) PROVE AnswersInv'
<1> DEFINE t == running[w]
<1>1. t.answer \in AnswersOf[t.hook] BY DEF AnswersInv, Log
<1>2. /\ LogOf(t).answer = t.answer /\ LogOf(t).hook = t.hook
      /\ LogOf(t).status = "success" => Outcome(t.answer) = "ok"
  BY DEF LogOf, Status
<1>3. logs' \subseteq logs \cup {LogOf(t)} BY DEF Log
<1>4. ASSUME NEW v \in Workers, At(v, "log")' PROVE running'[v] = running[v]
  <2>1. t \in RunType BY DEF TypeOK, Log, Resting, At
  <2>2. running'[w].step # "log" /\ \A u \in Workers \ {w} : running'[u] = running[u]
    BY <2>1 DEF TypeOK, RunType, Log, Rest, Resting
  <2> QED BY <1>4, <2>2 DEF At
<1> QED BY <1>1, <1>2, <1>3, <1>4 DEF AnswersInv, At

LEMMA NextAnswersInv == TypeOK /\ AnswersInv /\ [Next]_vars => AnswersInv'
<1> SUFFICES ASSUME TypeOK, AnswersInv, [Next]_vars PROVE AnswersInv'
  OBVIOUS
<1>1. ASSUME NEW w \in Workers, Rest(w), UNCHANGED logs PROVE AnswersInv'
  <2>1. \A v \in Workers : At(v, "log")' => running'[v] = running[v]
    BY <1>1 DEF TypeOK, Rest, Resting, At
  <2> QED BY <1>1, <2>1, AnswersKept
<1>2. CASE Consume \/ Idle \/ UNCHANGED vars
  <2>1. UNCHANGED <<running, logs>>
    BY <1>2 DEF Consume, Dispatch, Callback, CallbackFails, Ack, Idle, vars
  <2> QED BY <2>1, AnswersKept
<1>3. ASSUME NEW w \in Workers, NEW m \in queue, Take(w, m) PROVE AnswersInv'
  <2>1. \A v \in Workers : At(v, "log")' => running'[v] = running[v]
    BY <1>3 DEF TypeOK, Take, At
  <2> QED BY <1>3, <2>1, AnswersKept DEF Take
<1>4. ASSUME NEW w \in Workers, NEW a \in Answers, Run(w, a) PROVE AnswersInv'
  <2>1. running[w] \in RunType BY <1>4 DEF TypeOK, Run, Resting, At
  <2>2. running'[w].hook = running[w].hook /\ running'[w].answer = a
    BY <1>4, <2>1 DEF TypeOK, Run, RunType
  <2>3. \A v \in Workers \ {w} : running'[v] = running[v] BY <1>4 DEF TypeOK, Run
  <2>4. running'[w].answer \in AnswersOf[running'[w].hook] BY <1>4, <2>2 DEF Run
  <2>5. ASSUME NEW v \in Workers \ {w}, At(v, "log")'
        PROVE  running'[v].answer \in AnswersOf[running'[v].hook]
    BY <2>3, <2>5 DEF AnswersInv, At
  <2> QED BY <1>4, <2>4, <2>5 DEF AnswersInv, Run
<1>5. ASSUME NEW w \in Workers, Log(w) PROVE AnswersInv' BY <1>5, LogAnswersInv
<1>6. ASSUME NEW w \in Workers, LogFails(w) \/ Retry(w) \/ RetryFails(w) \/ Crash(w)
      PROVE  AnswersInv'
  BY <1>1, <1>6 DEF LogFails, Retry, RetryFails, Crash
<1>7. ASSUME NEW s \in Subs, Delete(s) PROVE AnswersInv'
  BY <1>7, AnswersKept DEF Delete
<1> QED BY <1>2, <1>3, <1>4, <1>5, <1>6, <1>7 DEF Next, Work

LEMMA AnswersInvariance == Spec => []AnswersInv
<1>1. Init => AnswersInv BY DEF Init, AnswersInv, At, Resting
<1>2. QED BY <1>1, NextAnswersInv, TypeCorrect, PTL DEF Spec

\* requests_automatic_hook_retry turns a call of requests without an answer into
\* HookRetry.
LEMMA NoAnswerIsTransient ==
  ASSUME NEW a \in Answers, a.via = "requests", a.what \in NoAnswer
  PROVE  Outcome(a) = "retry"
<1>1. ~HttpError(a) BY DEF HttpError, NoAnswer
<1>2. requests_automatic_hook_retry(a) = "retry" BY <1>1 DEF requests_automatic_hook_retry
<1> QED BY <1>2 DEF Outcome

\* No hook pushes through httpx, i.e. to a phone of Apple's.  For those that do
\* the property is false.
NoPushToApple == \A h \in Hooks : \A a \in AnswersOf[h] : a.via # "httpx"

\* A call without an answer is tried again until the attempts are used up.
THEOREM NoAnswerIsRetried == ASSUME NoPushToApple PROVE Spec => []NoAnswerRetried
<1>1. IInv /\ AnswersInv => NoAnswerRetried
  <2> SUFFICES ASSUME IInv, AnswersInv, NEW l \in logs,
                      l.answer.via \in {"requests", "httpx"}, l.answer.what \in NoAnswer
               PROVE  l.status = "failure" \/ l.attempts = MaxAttempts
    BY DEF NoAnswerRetried
  <2>1. l \in LogType BY DEF IInv, TypeOK
  <2>2. l.answer.via = "requests" BY <2>1 DEF AnswersInv, NoPushToApple, LogType
  <2>3. Outcome(l.answer) = "retry" BY <2>1, <2>2, NoAnswerIsTransient DEF LogType
  <2>4. l.status # "success" BY <2>3 DEF AnswersInv
  <2>5. l.status = "error" => l.attempts = MaxAttempts BY <2>3 DEF IInv, LogsInv
  <2> QED BY <2>1, <2>4, <2>5 DEF LogType
<1> QED BY Invariance, AnswersInvariance, <1>1, PTL

-----------------------------------------------------------------------------
(***************************************************************************)
(* HookRunner implements HookDelivery.                                     *)
(***************************************************************************)
Absent(h) == Tasks(h) = {} /\ Runs(h) = {}

\* Stage reads the number of the pending attempt off the one token of a hook.
StageInv ==
  /\ \A m \in queue : Stage(m.hook) = m.retries + 1
  /\ \A w \in Workers : Busy(w) => Stage(running[w].hook) = running[w].retries + 1
  /\ \A h \in Hooks : Absent(h) => Stage(h) = IF Untouched(h) THEN 0 ELSE MaxAttempts + 1

LEMMA StageIsToken == SingleFlight => StageInv
<1> SUFFICES ASSUME SingleFlight PROVE StageInv
  OBVIOUS
<1>1. ASSUME NEW m \in queue PROVE Stage(m.hook) = m.retries + 1
  <2>1. Tasks(m.hook) = {m} BY DEF Tasks, SingleFlight
  <2> QED BY <2>1 DEF Stage
<1>2. ASSUME NEW w \in Workers, Busy(w) PROVE Stage(running[w].hook) = running[w].retries + 1
  <2>1. Tasks(running[w].hook) = {} BY <1>2 DEF Tasks, SingleFlight
  <2>2. Runs(running[w].hook) = {w} BY <1>2 DEF Runs, SingleFlight
  <2> QED BY <2>1, <2>2 DEF Stage
<1>3. \A h \in Hooks : Absent(h) => Stage(h) = IF Untouched(h) THEN 0 ELSE MaxAttempts + 1
  BY DEF Absent, Stage
<1> QED BY <1>1, <1>2, <1>3 DEF StageInv

LEMMA StageIsTokenNext == SingleFlight' => StageInv'
BY StageIsToken, PTL

StageFn == [h \in Hooks |-> Stage(h)]

\* A step that leaves the token of a hook where it is.
Kept(g) == /\ Tasks(g)' = Tasks(g)
           /\ Runs(g)' = Runs(g)
           /\ \A w \in Runs(g) : running'[w].retries = running[w].retries
           /\ Untouched(g)' <=> Untouched(g)

LEMMA StageKept == ASSUME NEW g, Kept(g) PROVE Stage(g)' = Stage(g)
<1>1. CASE Tasks(g) # {} BY <1>1 DEF Kept, Stage
<1>2. CASE Tasks(g) = {} /\ Runs(g) # {}
  <2> DEFINE w == CHOOSE v \in Runs(g) : TRUE
  <2>1. w \in Runs(g) BY <1>2
  <2>2. Stage(g) = running[w].retries + 1 BY <1>2 DEF Stage
  <2>3. Stage(g)' = running'[w].retries + 1 BY <1>2 DEF Kept, Stage
  <2> QED BY <2>1, <2>2, <2>3 DEF Kept
<1>3. CASE Tasks(g) = {} /\ Runs(g) = {} BY <1>3 DEF Kept, Stage
<1> QED BY <1>1, <1>2, <1>3

LEMMA StageStays ==
  ASSUME \A g \in Hooks : Stage(g)' = Stage(g) PROVE StageFn' = StageFn
BY DEF StageFn

\* The attempt due next, or the end of the hook, is a step of HookDelivery.
LEMMA StageMoves ==
  ASSUME NEW h \in Hooks, \A g \in Hooks \ {h} : Stage(g)' = Stage(g),
         \/ Stage(h) < MaxAttempts /\ Stage(h)' = Stage(h) + 1
         \/ Stage(h)' = MaxAttempts + 1
  PROVE  Delivery!Next
<1>1. CASE Stage(h) < MaxAttempts /\ Stage(h)' = Stage(h) + 1
  <2>1. Delivery!Due(h) BY <1>1 DEF Delivery!Due
  <2> QED BY <2>1 DEF Delivery!Next
<1>2. CASE Stage(h)' = MaxAttempts + 1
  <2>1. Delivery!End(h) BY <1>2 DEF Delivery!End, Delivery!Over
  <2> QED BY <2>1 DEF Delivery!Next
<1> QED BY <1>1, <1>2

\* The consumer's steps.
LEMMA DispatchStays ==
  ASSUME IInv, NEW e \in Events, Dispatch(e) PROVE StageFn' = StageFn
<1> SUFFICES ASSUME NEW g \in Hooks PROVE Stage(g)' = Stage(g)
  BY StageStays
<1>1. Untouched(g)' <=> Untouched(g)
  BY DEF IInv, TypeOK, ConsumerInv, Untouched, Dispatch
<1> QED BY <1>1, StageKept DEF Kept, Dispatch, Tasks, Runs, Busy, At

LEMMA AckStays == ASSUME IInv, Ack PROVE StageFn' = StageFn
<1> SUFFICES ASSUME NEW g \in Hooks PROVE Stage(g)' = Stage(g)
  BY StageStays
<1>1. Untouched(g)' <=> Untouched(g)
  BY DEF IInv, TypeOK, ConsumerInv, Untouched, Ack
<1> QED BY <1>1, StageKept DEF Kept, Ack, Tasks, Runs, Busy, At

LEMMA CallbackMoves ==
  ASSUME IInv, IInv', NEW h \in Hooks, Callback(h) \/ CallbackFails(h)
  PROVE  Delivery!Next
<1>1. StageInv /\ StageInv' BY StageIsToken, StageIsTokenNext DEF IInv
<1>2. ASSUME NEW g \in Hooks \ {h} PROVE Stage(g)' = Stage(g)
  <2>1. Untouched(g)' <=> Untouched(g) BY DEF Untouched, Callback, CallbackFails
  <2>2. Tasks(g)' = Tasks(g) BY DEF Tasks, Callback, CallbackFails
  <2> QED BY <2>1, <2>2, StageKept DEF Kept, Callback, CallbackFails, Runs, Busy, At
<1>3. Untouched(h) BY DEF Untouched, Callback, CallbackFails
<1>4. Absent(h) BY <1>3 DEF IInv, FreshInv, Unattempted, Absent, Tasks, Runs
<1>5. Stage(h) = 0 BY <1>1, <1>3, <1>4 DEF StageInv
<1>6. ~Untouched(h)'
  BY DEF IInv, TypeOK, ConsumerInv, Untouched, Callback, CallbackFails
<1>7. CASE Callback(h)
  <2> DEFINE m == [hook |-> h, retries |-> 0]
  <2>1. m \in queue' BY <1>7 DEF Callback
  <2>2. Stage(h)' = m.retries + 1 BY <1>1, <2>1 DEF StageInv
  <2> QED BY <1>2, <1>5, <2>2, StageMoves
<1>8. CASE CallbackFails(h)
  <2>1. Absent(h)' BY <1>4, <1>8 DEF Absent, CallbackFails, Tasks, Runs, Busy, At
  <2>2. Stage(h)' = MaxAttempts + 1 BY <1>1, <1>6, <2>1 DEF StageInv
  <2> QED BY <1>2, <2>2, StageMoves
<1> QED BY <1>7, <1>8

\* A worker's steps.
LEMMA TakeStays ==
  ASSUME IInv, IInv', NEW w \in Workers, NEW m \in queue, Take(w, m)
  PROVE  StageFn' = StageFn
<1>1. StageInv /\ StageInv' BY StageIsToken, StageIsTokenNext DEF IInv
<1>2. /\ running'[w].hook = m.hook /\ running'[w].retries = m.retries
      /\ Busy(w)' /\ ~Busy(w) /\ \A v \in Workers \ {w} : running'[v] = running[v]
  BY DEF IInv, TypeOK, Take, Busy, At
<1>3. Stage(m.hook)' = Stage(m.hook) BY <1>1, <1>2 DEF StageInv
<1>4. ASSUME NEW g \in Hooks \ {m.hook} PROVE Stage(g)' = Stage(g)
  <2>1. Untouched(g)' <=> Untouched(g) BY DEF Untouched, Take, consumer
  <2>2. Tasks(g)' = Tasks(g) BY DEF Tasks, Take
  <2>3. Runs(g)' = Runs(g) BY <1>2 DEF Runs, Busy, At
  <2>4. \A v \in Runs(g) : running'[v].retries = running[v].retries BY <1>2 DEF Runs
  <2> QED BY <2>1, <2>2, <2>3, <2>4, StageKept DEF Kept
<1> QED BY <1>3, <1>4, StageStays

LEMMA RetryMoves ==
  ASSUME IInv, IInv', NEW w \in Workers, Retry(w) PROVE Delivery!Next
<1>1. StageInv /\ StageInv' BY StageIsToken, StageIsTokenNext DEF IInv
<1>2. running[w] \in RunType BY DEF IInv, TypeOK, Retry, At, Resting
<1>3. PICK h \in Hooks, n \in Nat : h = running[w].hook /\ n = running[w].retries
  BY <1>2 DEF RunType
<1> DEFINE m == [hook |-> h, retries |-> n + 1]
<1>4. n + 1 < MaxAttempts BY <1>3 DEF IInv, RunningInv, Retry
<1>5. queue' = queue \cup {m} BY <1>3, <1>4 DEF Retry
<1>6. Busy(w) BY DEF Retry, Busy, At
<1>7. Stage(h) = n + 1 /\ Stage(h)' = n + 2
  <2>1. Stage(h) = n + 1 BY <1>1, <1>3, <1>6 DEF StageInv
  <2>2. m \in queue' BY <1>5
  <2>3. Stage(m.hook)' = m.retries + 1 BY <1>1, <2>2 DEF StageInv
  <2> QED BY <2>1, <2>3
<1>8. ~Busy(w)' /\ \A v \in Workers \ {w} : running'[v] = running[v]
  BY DEF IInv, TypeOK, Retry, Rest, Resting, Busy, At
<1>9. ASSUME NEW g \in Hooks \ {h} PROVE Stage(g)' = Stage(g)
  <2>1. Untouched(g)' <=> Untouched(g) BY DEF Untouched, Retry, consumer
  <2>2. Tasks(g)' = Tasks(g) BY <1>5 DEF Tasks
  <2>3. Runs(g)' = Runs(g) BY <1>3, <1>8 DEF Runs, Busy, At
  <2>4. \A v \in Runs(g) : running'[v].retries = running[v].retries
    BY <1>8, <2>3 DEF Runs
  <2> QED BY <2>1, <2>2, <2>3, <2>4, StageKept DEF Kept
<1> QED BY <1>4, <1>7, <1>9, StageMoves

\* A worker that rests without a retry ends its hook.
LEMMA RestMoves ==
  ASSUME IInv, IInv', NEW w \in Workers, Busy(w), Rest(w), UNCHANGED <<consumer, queue>>
  PROVE  Delivery!Next
<1>1. StageInv' BY StageIsTokenNext DEF IInv
<1>2. PICK h \in Hooks : h = running[w].hook
  BY DEF IInv, TypeOK, RunType, Resting, Busy, At
<1>3. ~Busy(w)' /\ \A v \in Workers \ {w} : running'[v] = running[v]
  BY DEF IInv, TypeOK, Rest, Resting, Busy, At
<1>4. Stage(h)' = MaxAttempts + 1
  <2>1. ~Untouched(h) BY <1>2 DEF IInv, FreshInv, Unattempted, Runs, TypeOK, RunType, Resting, Busy, At
  <2>2. ~Untouched(h)' BY <2>1 DEF Untouched, consumer
  <2>3. Absent(h)' BY <1>2, <1>3 DEF IInv, SingleFlight, Absent, Tasks, Runs, Busy, At
  <2> QED BY <1>1, <1>2, <2>2, <2>3 DEF StageInv
<1>5. ASSUME NEW g \in Hooks \ {h} PROVE Stage(g)' = Stage(g)
  <2>1. Untouched(g)' <=> Untouched(g) BY DEF Untouched, consumer
  <2>2. Tasks(g)' = Tasks(g) BY DEF Tasks
  <2>3. Runs(g)' = Runs(g) BY <1>2, <1>3 DEF Runs, Busy, At
  <2>4. \A v \in Runs(g) : running'[v].retries = running[v].retries
    BY <1>3, <2>3 DEF Runs
  <2> QED BY <2>1, <2>2, <2>3, <2>4, StageKept DEF Kept
<1> QED BY <1>4, <1>5, StageMoves

\* A worker that goes on with its task, or a deletion, moves no token.
LEMMA WorkStays ==
  ASSUME UNCHANGED <<consumer, queue>>,
         \A v \in Workers : /\ Busy(v)' <=> Busy(v)
                            /\ running'[v].hook = running[v].hook
                            /\ running'[v].retries = running[v].retries
  PROVE  StageFn' = StageFn
<1> SUFFICES ASSUME NEW g \in Hooks PROVE Stage(g)' = Stage(g)
  BY StageStays
<1>1. Untouched(g)' <=> Untouched(g) BY DEF Untouched, consumer
<1>2. Runs(g)' = Runs(g) BY DEF Runs
<1>3. \A v \in Runs(g) : running'[v].retries = running[v].retries BY DEF Runs
<1> QED BY <1>1, <1>2, <1>3, StageKept DEF Kept, Tasks

LEMMA GoesOn ==
  ASSUME TypeOK, NEW w \in Workers, Busy(w),
         \/ \E a : running' = [running EXCEPT ![w].step = "log", ![w].answer = a]
         \/ running' = [running EXCEPT ![w].step = "retry"]
  PROVE  \A v \in Workers : /\ Busy(v)' <=> Busy(v)
                            /\ running'[v].hook = running[v].hook
                            /\ running'[v].retries = running[v].retries
<1>1. running[w] \in RunType BY DEF TypeOK, Resting, Busy, At
<1>2. /\ running'[w].step # "idle" /\ running'[w].hook = running[w].hook
      /\ running'[w].retries = running[w].retries
      /\ \A v \in Workers \ {w} : running'[v] = running[v]
  BY <1>1 DEF TypeOK, RunType
<1> QED BY <1>2 DEF Busy, At

LEMMA StepDelivers == IInv /\ IInv' /\ [Next]_vars => [Delivery!Next]_StageFn
<1> SUFFICES ASSUME IInv, IInv', [Next]_vars PROVE Delivery!Next \/ StageFn' = StageFn
  OBVIOUS
<1>0. TypeOK BY DEF IInv
<1>1. ASSUME NEW e \in Events, Dispatch(e) PROVE StageFn' = StageFn
  BY <1>1, DispatchStays
<1>2. CASE Ack BY <1>2, AckStays
<1>3. ASSUME NEW h \in Hooks, Callback(h) \/ CallbackFails(h) PROVE Delivery!Next
  BY <1>3, CallbackMoves
<1>4. ASSUME NEW w \in Workers, NEW m \in queue, Take(w, m) PROVE StageFn' = StageFn
  BY <1>4, TakeStays
<1>5. ASSUME NEW w \in Workers, NEW a \in Answers, Run(w, a) PROVE StageFn' = StageFn
  BY <1>0, <1>5, GoesOn, WorkStays DEF Run, Busy, At
<1>6. ASSUME NEW w \in Workers, Log(w) PROVE Delivery!Next \/ StageFn' = StageFn
  <2>1. Busy(w) BY <1>6 DEF Log, Busy, At
  <2>2. CASE Rest(w) BY <1>6, <2>1, <2>2, RestMoves DEF Log
  <2>3. CASE running' = [running EXCEPT ![w].step = "retry"]
    BY <1>0, <1>6, <2>1, <2>3, GoesOn, WorkStays DEF Log
  <2> QED BY <1>6, <2>2, <2>3 DEF Log
<1>7. ASSUME NEW w \in Workers, LogFails(w) \/ RetryFails(w) \/ Crash(w) PROVE Delivery!Next
  BY <1>7, RestMoves DEF LogFails, RetryFails, Crash, Busy, At
<1>8. ASSUME NEW w \in Workers, Retry(w) PROVE Delivery!Next BY <1>8, RetryMoves
<1>9. ASSUME NEW s \in Subs, Delete(s) PROVE StageFn' = StageFn
  BY <1>9, WorkStays DEF Delete, Busy, At
<1>10. CASE Idle \/ UNCHANGED vars
  BY <1>10, WorkStays DEF Idle, vars, consumer, Busy, At
<1> QED BY <1>1, <1>2, <1>3, <1>4, <1>5, <1>6, <1>7, <1>8, <1>9, <1>10
        DEF Next, Consume, Work

\* The runner of hooks implements HookDelivery.
THEOREM DeliversInOrder == Spec => Delivered
<1>1. Init => Delivery!Init
  <2> SUFFICES ASSUME Init, NEW h \in Hooks PROVE Stage(h) = 0
    BY DEF Delivery!Init
  <2>1. Untouched(h) BY DEF Init, Untouched
  <2> QED BY <2>1 DEF Init, Stage, Tasks, Runs, Busy, At, Resting
<1>2. IInv /\ IInv' /\ [Next]_vars => [Delivery!Next]_([h \in Hooks |-> Stage(h)])
  BY StepDelivers DEF StageFn
<1> QED BY <1>1, <1>2, Invariance, PTL DEF Spec, Delivered, Delivery!Spec

=============================================================================
