------------------------------ MODULE WorkerPool ------------------------------
(***************************************************************************)
(* The pool of Celery workers that hooks share with the notifications      *)
(* which POST /mobile/notifications queues (plugins/mobile/http.py,        *)
(* celery_tasks.py), and the client of FCM, which sleeps in its worker for *)
(* as long as FCM asks it to (services/mobile/fcm_client.py).  The faults  *)
(* and the deletion of a row are left to HookRunner.                       *)
(***************************************************************************)
EXTENDS HookRunner

CONSTANTS Notes,       \* the notifications requested over HTTP
          NoteAnswers  \* the answers a push of one may get

ASSUME NotesAssumption ==
  Nil \notin Notes /\ NoteAnswers \subseteq Answers /\ Faults = {}

VARIABLES
  notes,       \* where each notification is
  pushing,     \* the notification each worker pushes, or Nil
  waiting      \* the workers whose client sleeps for a Retry-After

pool == <<notes, pushing, waiting>>

\* "refused" and "unpublished" are answered 400 and 500, "queued" 204; the task
\* of "failed" ended with an exception or without a success.
PoolInit ==
  /\ Init
  /\ notes = [n \in Notes |-> "new"]
  /\ pushing = [w \in Workers |-> Nil]
  /\ waiting = {}

Became(n, label) == notes' = [notes EXCEPT ![n] = label]
Free(w) == At(w, "idle") /\ pushing[w] = Nil

-----------------------------------------------------------------------------
\* post: verify_user_uuid lets only an enabled user of the tenant through.
Verify(n, allowed) ==
  /\ notes[n] = "new"
  /\ Became(n, IF allowed THEN "verified" ELSE "refused")
  /\ UNCHANGED <<vars, pushing, waiting>>

\* apply_async, whose retry policy is about this call and not about the task.
Publish(n) ==
  /\ notes[n] = "verified"
  /\ Became(n, "queued")
  /\ UNCHANGED <<vars, pushing, waiting>>

PublishFails(n) ==
  /\ notes[n] = "verified"
  /\ Became(n, "unpublished")
  /\ UNCHANGED <<vars, pushing, waiting>>

TakeNote(w, n) ==
  /\ Free(w) /\ notes[n] = "queued"
  /\ pushing' = [pushing EXCEPT ![w] = n]
  /\ Became(n, "taken")
  /\ UNCHANGED <<vars, waiting>>

\* Mutant: what the helper raises puts the task back, as often as it is raised.
PushRetried(w, a) ==
  /\ pushing[w] # Nil /\ a \in NoteAnswers
  /\ w \in waiting => a.via = "fcm"
  /\ Became(pushing[w], IF Outcome(a) = "retry" THEN "queued" ELSE "failed")
  /\ pushing' = [pushing EXCEPT ![w] = Nil]
  /\ waiting' = waiting \ {w}
  /\ UNCHANGED vars

\* send_notification: whatever the push raises, HookRetry too, ends the task, as
\* the death of its worker does.
Push(w, a) ==
  /\ pushing[w] # Nil /\ a \in NoteAnswers
  /\ w \in waiting => a.via = "fcm"
  /\ Became(pushing[w], IF Outcome(a) = "ok" /\ a.what # "nameless" THEN "sent" ELSE "failed")
  /\ pushing' = [pushing EXCEPT ![w] = Nil]
  /\ waiting' = waiting \ {w}
  /\ UNCHANGED vars

-----------------------------------------------------------------------------
Calls(w) == IF pushing[w] # Nil THEN NoteAnswers
            ELSE IF At(w, "run") THEN AnswersOf[running[w].hook] ELSE {}

\* do_request: FCM answers with a Retry-After.
Wait(w) == /\ w \notin waiting
           /\ \E a \in Calls(w) : a.via = "fcm"
           /\ waiting' = waiting \cup {w}
           /\ UNCHANGED <<vars, notes, pushing>>

\* Mutant: the workers share one client of FCM, which they wait for.
AwakeAlone(w) == Work(w) /\ waiting = {} /\ pushing[w] = Nil /\ UNCHANGED pool

\* The steps of HookRunner in a worker that serves no notification.
Awake(w) == Work(w) /\ w \notin waiting /\ pushing[w] = Nil /\ UNCHANGED pool

\* The sleep is over, and the answer to the same call asks for no other.
Wake(w) == /\ w \in waiting
           /\ \/ \E a \in Answers : a.via = "fcm" /\ Run(w, a) /\ waiting' = waiting \ {w}
                                    /\ UNCHANGED <<notes, pushing>>
              \/ \E a \in NoteAnswers : Push(w, a)

Answered(w) == w \notin waiting /\ \E a \in NoteAnswers : Push(w, a)

PoolWork(w) == Awake(w) \/ Answered(w) \/ \E n \in Notes : TakeNote(w, n)

PoolIdle == /\ Idle /\ \A w \in Workers : pushing[w] = Nil
            /\ \A n \in Notes : notes[n] \notin {"new", "verified", "queued"}
            /\ UNCHANGED pool

Request(n) == \/ \E allowed \in BOOLEAN : Verify(n, allowed)
              \/ Publish(n) \/ PublishFails(n)

PoolNext ==
  \/ Consume /\ UNCHANGED pool
  \/ PoolIdle
  \/ \E w \in Workers : PoolWork(w) \/ Wait(w) \/ Wake(w)
  \/ \E n \in Notes : Request(n)

\* As for HookRunner; nothing makes FCM stop asking for another wait.
PoolSpec == /\ PoolInit /\ [][PoolNext]_<<vars, pool>>
            /\ WF_<<vars, pool>>(Consume /\ UNCHANGED pool)
            /\ \A w \in Workers : WF_<<vars, pool>>(PoolWork(w))

-----------------------------------------------------------------------------
Held(w) == <>[](w \in waiting)

\* While FCM holds off some pushes, for good perhaps, every other hook still gets
\* its verdict, unless the held ones have taken all the workers.
HooksSettleUnlessHeld == \A h \in Hooks :
  \/ <>(\E l \in logs : l.hook = h /\ l.status # "failure")
  \/ <>[](\E w \in waiting : running[w].hook = h)
  \/ \A w \in Workers : Held(w)

\* And so does every notification that was answered 204: it is sent or fails,
\* and no failure puts it back before the hooks.
NotesEndUnlessHeld == \A n \in Notes :
  \/ notes[n] = "queued" ~> notes[n] \in {"sent", "failed"}
  \/ <>[](\E w \in waiting : pushing[w] = n)
  \/ \A w \in Workers : Held(w)

=============================================================================
