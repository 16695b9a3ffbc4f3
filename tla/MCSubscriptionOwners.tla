-------------------------- MODULE MCSubscriptionOwners --------------------------
(***************************************************************************)
(* A small instance of SubscriptionOwners: a user, its tenant, and an      *)
(* administrator of the tenant above it that watches the user.             *)
(***************************************************************************)
EXTENDS SubscriptionOwners, TLC

CONSTANTS s1, s2, u1, t1, t2

TenantOfUser  == u1 :> t1
ParentAndSelf == (t1 :> {t1}) @@ (t2 :> {t1, t2})

\* An administrator's own subscription to the events of the user.
AdminBodies == {[owner |-> Nil, events |-> u1, mobile |-> FALSE]}

=============================================================================
