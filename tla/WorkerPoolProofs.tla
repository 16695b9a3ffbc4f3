--------------------------- MODULE WorkerPoolProofs ---------------------------
(***************************************************************************)
(* The pool that hooks share with notifications, and whose workers may be  *)
(* held off by FCM, is still a runner of hooks: each of its steps is one   *)
(* of HookRunner or none, so that everything proved of HookRunner holds in *)
(* it, for every number of notifications and however often FCM asks for    *)
(* another wait.                                                           *)
(***************************************************************************)
EXTENDS WorkerPool, HookRunnerProofs

\* What a push does concerns the notifications alone.
LEMMA NotesStutter ==
  ASSUME \/ \E n \in Notes : Request(n)
         \/ \E w \in Workers : \/ Wait(w)
                               \/ \E a \in NoteAnswers : Push(w, a)
                               \/ \E n \in Notes : TakeNote(w, n)
  PROVE  UNCHANGED vars
BY DEF Request, Verify, Publish, PublishFails, Wait, Push, TakeNote

\* A worker that wakes up runs the hook it slept in, or ends its push.
LEMMA WakeSteps == ASSUME NEW w \in Workers, Wake(w) PROVE [Next]_vars
<1>1. CASE \E a \in Answers : Run(w, a) BY <1>1 DEF Next, Work
<1>2. CASE \E a \in NoteAnswers : Push(w, a) BY <1>2, NotesStutter
<1> QED BY <1>1, <1>2 DEF Wake

LEMMA PoolSteps == [PoolNext]_<<vars, pool>> => [Next]_vars
<1> SUFFICES ASSUME [PoolNext]_<<vars, pool>> PROVE [Next]_vars
  OBVIOUS
<1>1. CASE Consume BY <1>1 DEF Next
<1>2. CASE PoolIdle BY <1>2 DEF PoolIdle, Next
<1>3. ASSUME NEW w \in Workers, PoolWork(w) PROVE [Next]_vars
  <2>1. CASE Awake(w) BY <2>1 DEF Awake, Next
  <2>2. CASE Answered(w) \/ \E n \in Notes : TakeNote(w, n)
    BY <2>2, NotesStutter DEF Answered
  <2> QED BY <1>3, <2>1, <2>2 DEF PoolWork
<1>4. ASSUME NEW w \in Workers, Wait(w) PROVE [Next]_vars BY <1>4, NotesStutter
<1>5. ASSUME NEW w \in Workers, Wake(w) PROVE [Next]_vars BY <1>5, WakeSteps
<1>6. ASSUME NEW n \in Notes, Request(n) PROVE [Next]_vars BY <1>6, NotesStutter
<1> QED BY <1>1, <1>2, <1>3, <1>4, <1>5, <1>6 DEF PoolNext

\* The pool implements the runner of hooks.
THEOREM PoolRunsHooks == PoolSpec => Spec
<1>1. PoolInit => Init BY DEF PoolInit
<1>2. PoolSpec => PoolInit /\ [][PoolNext]_<<vars, pool>> BY PTL DEF PoolSpec
<1> QED BY <1>1, <1>2, PoolSteps, PTL DEF Spec

\* In the pool too, a call without an answer is tried again until the attempts
\* are used up, for hooks that do not push to a phone of Apple's.
THEOREM PoolRetriesNoAnswer == ASSUME NoPushToApple PROVE PoolSpec => []NoAnswerRetried
BY PoolRunsHooks, NoAnswerIsRetried, PTL

=============================================================================
