----------------------------- MODULE HookDelivery -----------------------------
(***************************************************************************)
(* What the runner of hooks promises about one hook: its attempts are made *)
(* one after the other, at most MaxAttempts of them, and none once it is   *)
(* over.                                                                   *)
(***************************************************************************)
EXTENDS Naturals

CONSTANTS Hooks, MaxAttempts

VARIABLE stage   \* the number of the pending attempt, 0 before the first one

Over == MaxAttempts + 1

Init == stage = [h \in Hooks |-> 0]

\* The next attempt is due: the first one, or one more after a failure.
Due(h) == stage[h] < MaxAttempts /\ stage' = [stage EXCEPT ![h] = @ + 1]

\* After a verdict, or because something failed on the way.
End(h) == stage' = [stage EXCEPT ![h] = Over]

Next == \E h \in Hooks : Due(h) \/ End(h)

Spec == Init /\ [][Next]_stage

=============================================================================
