------------------------ MODULE MCSubscriptionRegistry ------------------------
(***************************************************************************)
(* Small instances of SubscriptionRegistry: one or two subscriptions, two  *)
(* or three requests, two events, two tenants.                             *)
(***************************************************************************)
EXTENDS SubscriptionRegistry, TLC

CONSTANTS o1, o2, o3, s1, s2, e1, gv, master, ta, u1

Row(E, t, u) == [events |-> E, tenant |-> t, user |-> u, wazo |-> Nil]
Msg(e, t, U) == [event |-> e, tenant |-> t, users |-> U, wazo |-> Nil]

\* Bodies that differ in their events, their user filter or their tenant.
BodiesOfThreeKinds == {Row({e1, gv}, ta, u1), Row({e1}, ta, Nil), Row({gv}, master, Nil)}

\* Every event comes from each tenant, for one user or for all of them.
AllMessages == {Msg(e, t, U) : e \in {e1, gv}, t \in {master, ta},
                               U \in {{u1}, {Everyone}, {}}}

OpSymmetry == Permutations(Ops)

=============================================================================
