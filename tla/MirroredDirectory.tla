--------------------------- MODULE MirroredDirectory ---------------------------
(***************************************************************************)
(* What the registry promises: a directory of rows and a mirror of it that *)
(* is armed, i.e. whose entries react to messages.  After the start, when  *)
(* the mirror is loaded from the rows, each change is announced to the     *)
(* mirror first and settled in the rows next, and no entry is ever more    *)
(* than one change ahead of its row.                                       *)
(***************************************************************************)
CONSTANTS Subs, Rows, Nil

VARIABLES rows,    \* the row of each subscription, or Nil
          armed,   \* what the mirror holds for it, or Nil
          started

vars == <<rows, armed, started>>

Init == /\ rows \in [Subs -> Rows \cup {Nil}]
        /\ armed = [s \in Subs |-> Nil]
        /\ started = FALSE

Load(s) == /\ ~started
           /\ armed[s] = Nil
           /\ armed' = [armed EXCEPT ![s] = rows[s]]
           /\ UNCHANGED <<rows, started>>

Start == /\ ~started /\ armed = rows
         /\ started' = TRUE
         /\ UNCHANGED <<rows, armed>>

\* A row appears, changes (a row for another) or disappears.
Announce(s, r) == /\ started
                  /\ armed[s] = rows[s]
                  /\ armed' = [armed EXCEPT ![s] = r]
                  /\ UNCHANGED <<rows, started>>

Settle(s) == /\ started
             /\ rows' = [rows EXCEPT ![s] = armed[s]]
             /\ UNCHANGED <<armed, started>>

Next == \/ Start
        \/ \E s \in Subs : Load(s) \/ Settle(s)
        \/ \E s \in Subs, r \in Rows \cup {Nil} : Announce(s, r)

Spec == Init /\ [][Next]_vars

=============================================================================
