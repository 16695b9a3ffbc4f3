------------------------ MODULE SubscriptionOwnersProofs ------------------------
(***************************************************************************)
(* The rows of removed users and tenants are removed, and every user with  *)
(* a phone has one mobile subscription, for every number of users,         *)
(* tenants, subscriptions and events.                                      *)
(*                                                                         *)
(* The argument: when a row names a user that is gone, the event that says *)
(* so is still to come, or its handler is going to delete that very row,   *)
(* or the user is adrift.  The handlers write rows too; a phone registered *)
(* before its user was removed is announced before the removal, so that    *)
(* whatever is created for it is still ahead of the event that removes it. *)
(***************************************************************************)
EXTENDS SubscriptionOwners, FiniteSetTheorems, TLAPS

UserDeleted(u)   == [name |-> "user_deleted", about |-> u]
TenantDeleted(t) == [name |-> "tenant_deleted", about |-> t]

\* Event e is in the inbox, after the i-th one.
Coming(e, i) == \E j \in 1..Len(inbox) : i < j /\ inbox[j] = e

GoneUser(u, i)   == u \notin users => u \in adrift \/ Coming(UserDeleted(u), i)
GoneTenant(t, i) == t \notin tenants => t \in adrift \/ Coming(TenantDeleted(t), i)

Registers(e) == e.name \in {"added", "updated"}

\* The removal of a user follows the registrations of its phone.
InboxInv == \A i \in 1..Len(inbox) : Registers(inbox[i]) =>
  GoneUser(inbox[i].about, i) /\ GoneTenant(TenantOf[inbox[i].about], i)

JobInv ==
  /\ Registers(job.event) =>
       GoneUser(job.event.about, 0) /\ GoneTenant(TenantOf[job.event.about], 0)
  /\ job.step = "create" => Registers(job.event)
  /\ job.step = "watching" => job.event.name = "user_deleted"

\* The handler is going to delete row s of user u, of tenant t.
HandlingUser(s, u) ==
  /\ job.event = UserDeleted(u)
  /\ \/ job.step = "list"
     \/ job.step = "watching" /\ (s \in job.todo \/ rows[s].events = u)
     \/ job.step = "delete" /\ s \in job.todo
HandlingTenant(s, t) ==
  /\ job.event = TenantDeleted(t)
  /\ \/ job.step = "list"
     \/ job.step = "delete" /\ s \in job.todo

UserRowsInv == \A s \in Existing : \A u \in Named(rows[s]) :
  GoneUser(u, 0) \/ HandlingUser(s, u)
TenantRowsInv == \A s \in Existing :
  GoneTenant(rows[s].tenant, 0) \/ HandlingTenant(s, rows[s].tenant)

IInv == TypeOK /\ InboxInv /\ JobInv /\ UserRowsInv /\ TenantRowsInv

-----------------------------------------------------------------------------
USE TenantsAssumption, BodiesAssumption, BoundAssumption, NilAssumption

LEMMA InitIInv == Init => IInv
<1> SUFFICES ASSUME Init PROVE IInv
  OBVIOUS
<1>1. TypeOK
  BY DEF Init, TypeOK, Idle, NoPending, NoSync
<1>2. InboxInv
  BY DEF Init, InboxInv
<1>3. JobInv
  BY DEF Init, JobInv, Registers, Idle, NoEvent
<1>4. UserRowsInv /\ TenantRowsInv
  BY DEF Init, UserRowsInv, TenantRowsInv, Existing
<1> QED
  BY <1>1, <1>2, <1>3, <1>4 DEF IInv

-----------------------------------------------------------------------------
(***************************************************************************)
(* Types.                                                                  *)
(***************************************************************************)
Writable(row) == row \in RowType \cup {Nil}

LEMMA UserRowTyped ==
  ASSUME NEW u \in Users, NEW m \in BOOLEAN PROVE UserRow(u, m) \in RowType
BY DEF UserRow, RowType

LEMMA CreatesTyped ==
  ASSUME TypeOK, NEW s \in Subs, CreateMobile(s), JobInv
  PROVE  rows' \in [Subs -> RowType \cup {Nil}]
<1>1. Registers(job.event) /\ job.event \in EventType
  BY DEF TypeOK, CreateMobile, JobInv, Idle
<1>2. job.event.about \in Users
  BY <1>1 DEF EventType, Registers
<1>3. UserRow(job.event.about, TRUE) \in RowType
  BY <1>2, UserRowTyped
<1> QED
  BY <1>3 DEF TypeOK, CreateMobile

LEMMA WriteTypeOK ==
  ASSUME TypeOK, NEW s \in Subs, NEW new, Writable(new), Write(s, new)
  PROVE  rows' \in [Subs -> RowType \cup {Nil}] /\ adrift' \subseteq Users \cup Tenants
<1>1. rows[s] \in RowType \cup {Nil}
  BY DEF TypeOK
<1>2. \A r \in RowType : Named(r) \subseteq Users /\ r.tenant \in Tenants
  BY DEF RowType, Named
<1>3. new # Nil => new \in RowType
  BY DEF Writable
<1> QED
  BY <1>1, <1>2, <1>3 DEF TypeOK, Write, Writable

LEMMA PublishTypeOK ==
  ASSUME TypeOK, NEW name, NEW about, Publish(name, about),
         [name |-> name, about |-> about] \in EventType, about \in Users \cup Tenants,
         users' \subseteq Users, tenants' \subseteq Tenants, mobile' \subseteq users'
  PROVE  TypeOK'
<1>1. published' \in 0..MaxEvents
  BY DEF TypeOK, Publish
<1>2. inbox' \in Seq(EventType)
  <2>1. CASE up
    BY <2>1 DEF TypeOK, Publish
  <2>2. CASE ~up
    BY <2>2 DEF TypeOK, Publish
  <2> QED
    BY <2>1, <2>2
<1>3. adrift' \subseteq Users \cup Tenants
  BY DEF TypeOK, Publish
<1> QED
  BY <1>1, <1>2, <1>3 DEF TypeOK, Publish

LEMMA AuthTypeOK == ASSUME TypeOK, WazoAuth PROVE TypeOK'
<1>1. \A u \in Users : \A n \in {"added", "updated", "deleted", "user_deleted"} :
        [name |-> n, about |-> u] \in EventType
  BY DEF EventType
<1>2. \A t \in Tenants : [name |-> "tenant_deleted", about |-> t] \in EventType
  BY DEF EventType
<1>3. ASSUME NEW u \in Users, RegisterPhone(u) PROVE TypeOK'
  <2>1. PICK n \in {"added", "updated"} : Publish(n, u)
    BY <1>3 DEF RegisterPhone
  <2>2. mobile' \subseteq users' /\ users' = users /\ tenants' = tenants
    BY <1>3 DEF RegisterPhone, TypeOK
  <2> QED
    BY <1>1, <2>1, <2>2, PublishTypeOK DEF TypeOK
<1>4. ASSUME NEW u \in Users, UnregisterPhone(u) PROVE TypeOK'
  BY <1>1, <1>4, PublishTypeOK DEF TypeOK, UnregisterPhone
<1>5. ASSUME NEW u \in Users, RemoveUser(u) PROVE TypeOK'
  BY <1>1, <1>5, PublishTypeOK DEF TypeOK, RemoveUser
<1>6. ASSUME NEW t \in Tenants, RemoveTenant(t) PROVE TypeOK'
  BY <1>2, <1>6, PublishTypeOK DEF TypeOK, RemoveTenant
<1> QED
  BY <1>3, <1>4, <1>5, <1>6 DEF WazoAuth

LEMMA ClientsTypeOK == ASSUME TypeOK, Clients PROVE TypeOK'
<1>1. ASSUME NEW s \in Subs, NEW row \in RowType, Flush(s, row) PROVE TypeOK'
  BY <1>1 DEF TypeOK, Flush, auth
<1>2. ASSUME NEW s \in Subs, NEW new, Writable(new), Write(s, new),
             UNCHANGED <<auth, inbox, up, job, sync>>,
             pending' \in {pending, NoPending}
      PROVE  TypeOK'
  BY <1>2, WriteTypeOK DEF TypeOK, auth
<1>3. ASSUME NEW u \in Users, NEW s \in Subs, NEW m \in BOOLEAN,
             UserPost(u, s, m) \/ UserPut(u, s, m)
      PROVE  TypeOK'
  <2>1. CASE UserPost(u, s, m)
    BY <1>1, <2>1, UserRowTyped DEF UserPost
  <2>2. CASE UserPut(u, s, m)
    <3>1. rows[s] \in RowType
      BY <2>2 DEF TypeOK, UserPut, SeenByUser, Existing
    <3>2. Writable([rows[s] EXCEPT !.mobile = m])
      BY <3>1 DEF RowType, Writable
    <3> QED
      BY <1>2, <2>2, <3>2 DEF UserPut
  <2> QED
    BY <1>3, <2>1, <2>2
<1>4. ASSUME NEW t \in Tenants, NEW s \in Subs, NEW b \in Bodies,
             AdminPost(t, s, b) \/ AdminPut(t, s, b)
      PROVE  TypeOK'
  <2>1. AdminRow(t, b) \in RowType
    BY DEF AdminRow, RowType
  <2> QED
    BY <1>1, <1>2, <1>4, <2>1 DEF AdminPost, AdminPut, Writable
<1>5. ASSUME NEW s \in Subs, Delete(s) PROVE TypeOK'
  BY <1>2, <1>5 DEF Delete, Writable
<1>6. ASSUME Commit PROVE TypeOK'
  <2>1. pending.sub \in Subs /\ Writable(pending.row)
    BY <1>6 DEF TypeOK, Commit, Writable
  <2> QED
    BY <1>2, <1>6, <2>1 DEF Commit
<1>7. ASSUME Rollback PROVE TypeOK'
  BY <1>7 DEF TypeOK, Rollback, auth
<1> QED
  BY <1>3, <1>4, <1>5, <1>6, <1>7 DEF Clients

Jobs == [event : EventType, step : {"list", "create"}, todo : {{}}]
   \cup [event : EventType, step : {"watching", "delete"}, todo : SUBSET Subs]

LEMMA OverTypeOK ==
  ASSUME job \in Jobs, NEW ss \in SUBSET Subs, Over(ss)
  PROVE  job' \in Jobs \cup {Idle}
BY DEF Jobs, Over

LEMMA HandleTypeOK == ASSUME TypeOK, JobInv, Handle PROVE TypeOK'
<1>1. ASSUME UNCHANGED <<auth, inbox, up, pending, sync, adrift>>,
             rows' \in [Subs -> RowType \cup {Nil}], job' \in Jobs \cup {Idle}
      PROVE  TypeOK'
  BY <1>1 DEF TypeOK, Jobs, auth
<1>2. job.step # "idle" => job \in Jobs
  BY DEF TypeOK, Jobs, Idle
<1>3. \A u : Owned(u) \subseteq Subs /\ Watching(u) \subseteq Subs /\ MobileRows(u) \subseteq Subs
  BY DEF Owned, Watching, MobileRows, Existing
<1>4. \A t : InTenant(t) \subseteq Subs
  BY DEF InTenant, Existing
<1>5. job \in Jobs => job.todo \subseteq Subs
  BY DEF Jobs
<1>6. rows \in [Subs -> RowType \cup {Nil}]
  BY DEF TypeOK
<1>7. ASSUME Take PROVE TypeOK'
  <2>1. Head(inbox) \in EventType /\ inbox' \in Seq(EventType)
    BY <1>7 DEF TypeOK, Take
  <2>2. job' \in Jobs
    BY <1>7, <2>1 DEF Take, Jobs
  <2> QED
    BY <1>7, <2>1, <2>2 DEF TypeOK, Take, Jobs, auth
<1>8. ASSUME Ensure PROVE TypeOK'
  <2>1. CASE MobileRows(job.event.about) = {}
    <3>1. job' \in Jobs
      BY <1>2, <1>8, <2>1 DEF Ensure, Jobs, TypeOK, Idle
    <3> QED
      BY <1>1, <1>6, <1>8, <3>1 DEF Ensure
  <2>2. CASE MobileRows(job.event.about) # {}
    <3>1. PICK first : Over(MobileRows(job.event.about) \ {first})
      BY <1>8, <2>2 DEF Ensure
    <3>2. job' \in Jobs \cup {Idle}
      BY <1>2, <1>3, <1>8, <3>1, OverTypeOK DEF Ensure
    <3> QED
      BY <1>1, <1>6, <1>8, <3>2 DEF Ensure
  <2> QED
    BY <2>1, <2>2
<1>9. ASSUME ListMobile PROVE TypeOK'
  BY <1>1, <1>2, <1>3, <1>6, <1>9, OverTypeOK DEF ListMobile
<1>10. ASSUME ListTenant PROVE TypeOK'
  BY <1>1, <1>2, <1>4, <1>6, <1>10, OverTypeOK DEF ListTenant
<1>11. ASSUME ListOwner PROVE TypeOK'
  <2>1. job' \in Jobs
    BY <1>2, <1>3, <1>11 DEF ListOwner, Jobs
  <2> QED
    BY <1>1, <1>6, <1>11, <2>1 DEF ListOwner
<1>12. ASSUME ListWatching PROVE TypeOK'
  BY <1>1, <1>2, <1>3, <1>5, <1>6, <1>12, OverTypeOK DEF ListWatching
<1>13. ASSUME NEW s \in Subs, CreateMobile(s) PROVE TypeOK'
  BY <1>1, <1>13, CreatesTyped DEF CreateMobile, TypeOK
<1>14. ASSUME NEW s \in Subs, DeleteNext(s) PROVE TypeOK'
  <2>1. rows' \in [Subs -> RowType \cup {Nil}]
    BY <1>6, <1>14 DEF DeleteNext
  <2>2. job' \in Jobs \cup {Idle}
    <3>1. PICK ss \in SUBSET Subs : Over(ss)
      BY <1>2, <1>5, <1>14 DEF DeleteNext
    <3> QED
      BY <1>2, <1>14, <3>1, OverTypeOK DEF DeleteNext
  <2> QED
    BY <1>1, <1>14, <2>1, <2>2 DEF DeleteNext
<1> QED
  BY <1>7, <1>8, <1>9, <1>10, <1>11, <1>12, <1>13, <1>14 DEF Handle

LEMMA RestTypeOK ==
  ASSUME TypeOK, HandlerFails \/ Stop \/ Start \/ Sync PROVE TypeOK'
<1>1. job # Idle => job.event.about \in Users \cup Tenants
  BY DEF TypeOK, EventType
<1>2. job.event.about # Nil => job # Idle
  BY DEF Idle, NoEvent
<1>3. ASSUME HandlerFails PROVE TypeOK'
  BY <1>1, <1>3 DEF TypeOK, HandlerFails, auth
<1>4. ASSUME Stop PROVE TypeOK'
  <2>1. \A i \in DOMAIN inbox : inbox[i].about \in Users \cup Tenants
    BY DEF TypeOK, EventType
  <2>2. adrift' \subseteq Users \cup Tenants
    BY <1>1, <1>2, <1>4, <2>1 DEF TypeOK, Stop
  <2>3. inbox' \in Seq(EventType)
    BY <1>4 DEF Stop
  <2> QED
    BY <1>4, <2>2, <2>3 DEF TypeOK, Stop, auth
<1>5. ASSUME Start PROVE TypeOK'
  BY <1>5 DEF TypeOK, Start, auth
<1>6. ASSUME SyncTenants \/ SyncUsers PROVE TypeOK'
  <2>1. sync' \in [step : {"idle", "users", "remove"}, tenants : SUBSET Tenants,
                   users : SUBSET Users]
    BY <1>6 DEF TypeOK, SyncTenants, SyncUsers
  <2> QED
    BY <1>6, <2>1 DEF TypeOK, SyncTenants, SyncUsers, auth
<1>7. ASSUME SyncRemove PROVE TypeOK'
  BY <1>7 DEF TypeOK, SyncRemove, NoSync, auth
<1> QED
  BY <1>3, <1>4, <1>5, <1>6, <1>7 DEF Sync

-----------------------------------------------------------------------------
(***************************************************************************)
(* Events published or lost: an announced removal stays announced.         *)
(***************************************************************************)
LEMMA PublishComing ==
  ASSUME TypeOK, NEW name, NEW about, Publish(name, about)
  PROVE  /\ adrift \subseteq adrift'
         /\ \A e : \A i \in Nat : Coming(e, i) => Coming(e, i)'
         /\ \A i \in 0..Len(inbox) :
              about \in adrift' \/ Coming([name |-> name, about |-> about], i)'
<1> DEFINE new == [name |-> name, about |-> about]
<1>1. CASE up
  <2>1. inbox' = Append(inbox, new) /\ adrift' = adrift
    BY <1>1 DEF Publish
  <2>2. /\ Len(inbox) \in Nat /\ Len(inbox') = Len(inbox) + 1
        /\ \A j \in 1..Len(inbox) : inbox'[j] = inbox[j]
        /\ inbox'[Len(inbox) + 1] = new
    BY <2>1 DEF TypeOK
  <2>3. ASSUME NEW e, NEW i \in Nat, Coming(e, i) PROVE Coming(e, i)'
    BY <2>2, <2>3 DEF Coming
  <2>4. ASSUME NEW i \in 0..Len(inbox) PROVE Coming(new, i)'
    BY <2>2 DEF Coming
  <2> QED
    BY <2>1, <2>3, <2>4
<1>2. CASE ~up
  BY <1>2 DEF Publish, Coming
<1> QED
  BY <1>1, <1>2

\* What wazo-auth does keeps the removals announced.
LEMMA AuthGone ==
  ASSUME TypeOK, WazoAuth, NEW i \in 0..Len(inbox)
  PROVE  /\ \A u : GoneUser(u, i) => GoneUser(u, i)'
         /\ \A t : GoneTenant(t, i) => GoneTenant(t, i)'
<1>1. i \in Nat
  BY DEF TypeOK
<1>2. ASSUME NEW name, NEW about, Publish(name, about),
             users' \in {users, users \ {about}}, users' = users \/ name = "user_deleted",
             tenants' \in {tenants, tenants \ {about}}, tenants' = tenants \/ name = "tenant_deleted"
      PROVE  /\ \A u : GoneUser(u, i) => GoneUser(u, i)'
             /\ \A t : GoneTenant(t, i) => GoneTenant(t, i)'
  <2>1. /\ adrift \subseteq adrift'
        /\ \A e : Coming(e, i) => Coming(e, i)'
        /\ about \in adrift' \/ Coming([name |-> name, about |-> about], i)'
    BY <1>1, <1>2, PublishComing
  <2>2. ASSUME NEW u, GoneUser(u, i), u \notin users'
        PROVE  u \in adrift' \/ Coming(UserDeleted(u), i)'
    <3>1. CASE u \notin users
      BY <2>1, <2>2, <3>1 DEF GoneUser
    <3>2. CASE u \in users
      <4>1. u = about /\ name = "user_deleted"
        BY <1>2, <2>2, <3>2
      <4> QED
        BY <2>1, <4>1 DEF UserDeleted
    <3> QED
      BY <3>1, <3>2
  <2>3. ASSUME NEW t, GoneTenant(t, i), t \notin tenants'
        PROVE  t \in adrift' \/ Coming(TenantDeleted(t), i)'
    <3>1. CASE t \notin tenants
      BY <2>1, <2>3, <3>1 DEF GoneTenant
    <3>2. CASE t \in tenants
      <4>1. t = about /\ name = "tenant_deleted"
        BY <1>2, <2>3, <3>2
      <4> QED
        BY <2>1, <4>1 DEF TenantDeleted
    <3> QED
      BY <3>1, <3>2
  <2> QED
    BY <2>2, <2>3 DEF GoneUser, GoneTenant
<1>3. ASSUME NEW u \in Users, RegisterPhone(u) \/ UnregisterPhone(u)
      PROVE  \E name : Publish(name, u) /\ users' = users /\ tenants' = tenants
  BY <1>3 DEF RegisterPhone, UnregisterPhone
<1>4. ASSUME NEW u \in Users, RemoveUser(u)
      PROVE  Publish("user_deleted", u) /\ users' = users \ {u} /\ tenants' = tenants
  BY <1>4 DEF RemoveUser
<1>5. ASSUME NEW t \in Tenants, RemoveTenant(t)
      PROVE  Publish("tenant_deleted", t) /\ tenants' = tenants \ {t} /\ users' = users
  BY <1>5 DEF RemoveTenant
<1>6. CASE \E u \in Users : RegisterPhone(u) \/ UnregisterPhone(u)
  BY <1>2, <1>3, <1>6
<1>7. CASE \E u \in Users : RemoveUser(u)
  BY <1>2, <1>4, <1>7
<1>8. CASE \E t \in Tenants : RemoveTenant(t)
  BY <1>2, <1>5, <1>8
<1> QED
  BY <1>6, <1>7, <1>8 DEF WazoAuth

\* Nothing happens to what is announced.
LEMMA CalmGone ==
  ASSUME UNCHANGED <<users, tenants, inbox>>, adrift \subseteq adrift', NEW i
  PROVE  /\ \A u : GoneUser(u, i) => GoneUser(u, i)'
         /\ \A t : GoneTenant(t, i) => GoneTenant(t, i)'
BY DEF GoneUser, GoneTenant, Coming

\* When webhookd stops, whatever was announced is lost.
LEMMA StopGone ==
  ASSUME Stop
  PROVE  /\ \A u : GoneUser(u, 0) => GoneUser(u, 0)'
         /\ \A t : GoneTenant(t, 0) => GoneTenant(t, 0)'
<1>1. \A e : Coming(e, 0) => e.about \in adrift'
  BY DEF Stop, Coming
<1>2. adrift \subseteq adrift' /\ users' = users /\ tenants' = tenants
  BY DEF Stop, auth
<1> QED
  BY <1>1, <1>2 DEF GoneUser, GoneTenant, UserDeleted, TenantDeleted

-----------------------------------------------------------------------------
(***************************************************************************)
(* The invariant, step by step.                                            *)
(***************************************************************************)
Keeps == /\ \A u : GoneUser(u, 0) => GoneUser(u, 0)'
         /\ \A t : GoneTenant(t, 0) => GoneTenant(t, 0)'

\* The handler does not give up on row s.
StillHandled(s) ==
  /\ \A u \in Named(rows[s]) : HandlingUser(s, u) => HandlingUser(s, u)' \/ GoneUser(u, 0)'
  /\ \A t : HandlingTenant(s, t) => HandlingTenant(s, t)' \/ GoneTenant(t, 0)'

\* The row may be there: nothing has to remove it, or it is announced.
Announced(row) == /\ \A u \in Named(row) : GoneUser(u, 0)
                  /\ GoneTenant(row.tenant, 0)

LEMMA RowsKept ==
  ASSUME UserRowsInv, TenantRowsInv, Keeps,
         \A s \in Existing' :
           \/ s \in Existing /\ rows'[s] = rows[s] /\ StillHandled(s)
           \/ Announced(rows[s])'
  PROVE  UserRowsInv' /\ TenantRowsInv'
<1>1. ASSUME NEW s \in Existing', NEW u \in Named(rows[s])'
      PROVE  (GoneUser(u, 0) \/ HandlingUser(s, u))'
  <2>1. CASE s \in Existing /\ rows'[s] = rows[s] /\ StillHandled(s)
    <3>1. u \in Named(rows[s])
      BY <1>1, <2>1 DEF Named
    <3>2. GoneUser(u, 0) \/ HandlingUser(s, u)
      BY <2>1, <3>1 DEF UserRowsInv
    <3> QED
      BY <2>1, <3>1, <3>2 DEF Keeps, StillHandled
  <2>2. CASE Announced(rows[s])'
    BY <1>1, <2>2 DEF Announced
  <2> QED
    BY <2>1, <2>2
<1>2. ASSUME NEW s \in Existing'
      PROVE  (GoneTenant(rows[s].tenant, 0) \/ HandlingTenant(s, rows[s].tenant))'
  <2>1. CASE s \in Existing /\ rows'[s] = rows[s] /\ StillHandled(s)
    <3>1. GoneTenant(rows[s].tenant, 0) \/ HandlingTenant(s, rows[s].tenant)
      BY <2>1 DEF TenantRowsInv
    <3>2. \A t : GoneTenant(t, 0) \/ HandlingTenant(s, t) =>
                   GoneTenant(t, 0)' \/ HandlingTenant(s, t)'
      BY <2>1 DEF Keeps, StillHandled
    <3>3. PICK t : t = rows[s].tenant
      OBVIOUS
    <3>4. t = rows'[s].tenant
      BY <2>1, <3>3
    <3>5. GoneTenant(t, 0)' \/ HandlingTenant(s, t)'
      BY <3>1, <3>2, <3>3
    <3> QED
      BY <3>4, <3>5 DEF GoneTenant, HandlingTenant
  <2>2. CASE Announced(rows[s])'
    BY <2>2 DEF Announced
  <2> QED
    BY <2>1, <2>2
<1> QED
  BY <1>1, <1>2 DEF UserRowsInv, TenantRowsInv

\* Nothing happens to the handler or to the row.
LEMMA SameJob ==
  ASSUME UNCHANGED job, NEW s \in Existing, rows'[s] = rows[s]
  PROVE  StillHandled(s)
BY DEF StillHandled, HandlingUser, HandlingTenant

LEMMA CalmInbox ==
  ASSUME InboxInv, UNCHANGED <<users, tenants, inbox>>, adrift \subseteq adrift'
  PROVE  InboxInv' /\ Keeps
<1>1. Keeps
  BY CalmGone DEF Keeps
<1>2. ASSUME NEW i \in 1..Len(inbox), Registers(inbox[i])
      PROVE  GoneUser(inbox[i].about, i)' /\ GoneTenant(TenantOf[inbox[i].about], i)'
  <2>1. GoneUser(inbox[i].about, i) /\ GoneTenant(TenantOf[inbox[i].about], i)
    BY <1>2 DEF InboxInv
  <2> QED
    BY <2>1 DEF GoneUser, GoneTenant, Coming
<1>3. UNCHANGED inbox
  OBVIOUS
<1> QED
  BY <1>1, <1>2, <1>3 DEF InboxInv, Registers

LEMMA SameJobInv == ASSUME JobInv, Keeps, UNCHANGED job PROVE JobInv'
<1>1. PICK u, t : u = job.event.about /\ t = TenantOf[u]
  OBVIOUS
<1>2. Registers(job.event) => GoneUser(u, 0)' /\ GoneTenant(t, 0)'
  BY <1>1 DEF JobInv, Keeps
<1>3. job' = job
  OBVIOUS
<1>4. Registers(job.event)' => (GoneUser(job.event.about, 0) /\ GoneTenant(TenantOf[job.event.about], 0))'
  BY <1>1, <1>2, <1>3 DEF Registers, GoneUser, GoneTenant
<1> QED
  BY <1>3, <1>4 DEF JobInv, Registers

LEMMA SameRowsKept ==
  ASSUME UserRowsInv, TenantRowsInv, Keeps, UNCHANGED <<rows, job>>
  PROVE  UserRowsInv' /\ TenantRowsInv'
<1>1. \A s \in Existing' : s \in Existing /\ rows'[s] = rows[s] /\ StillHandled(s)
  BY SameJob DEF Existing
<1> QED
  BY <1>1, RowsKept

\* wazo-auth: a phone is registered for somebody who is there.
LEMMA AuthStep == ASSUME IInv, WazoAuth PROVE IInv'
<1> USE DEF IInv
<1> DEFINE Registered(e) ==
      /\ inbox' = Append(inbox, e)
      /\ Registers(e) => /\ e.about \in users /\ TenantOf[e.about] \in tenants
                         /\ users' = users /\ tenants' = tenants
<1>1. Keeps
  <2>1. 0 \in 0..Len(inbox)
    BY DEF TypeOK
  <2> QED
    BY <2>1, AuthGone DEF Keeps
<1>2. UNCHANGED <<rows, job>>
  BY DEF WazoAuth, RegisterPhone, UnregisterPhone, RemoveUser, RemoveTenant, Publish
<1>3. inbox' = inbox \/ \E e : Registered(e)
  <2>1. ASSUME NEW name, NEW about, Publish(name, about),
               name \in {"added", "updated"} =>
                 /\ about \in users /\ TenantOf[about] \in tenants
                 /\ users' = users /\ tenants' = tenants
        PROVE  inbox' = inbox \/ \E e : Registered(e)
    BY <2>1 DEF Publish, Registers
  <2>2. ASSUME NEW u \in Users, RegisterPhone(u) PROVE inbox' = inbox \/ \E e : Registered(e)
    BY <2>1, <2>2 DEF RegisterPhone
  <2>3. ASSUME NEW u \in Users, UnregisterPhone(u) PROVE inbox' = inbox \/ \E e : Registered(e)
    BY <2>1, <2>3 DEF UnregisterPhone
  <2>4. ASSUME NEW u \in Users, RemoveUser(u) PROVE inbox' = inbox \/ \E e : Registered(e)
    BY <2>1, <2>4 DEF RemoveUser
  <2>5. ASSUME NEW t \in Tenants, RemoveTenant(t) PROVE inbox' = inbox \/ \E e : Registered(e)
    BY <2>1, <2>5 DEF RemoveTenant
  <2> QED
    BY <2>2, <2>3, <2>4, <2>5 DEF WazoAuth
<1>4. ASSUME NEW i \in 1..Len(inbox'), NEW u, NEW t, Registers(inbox'[i]),
             u = inbox'[i].about, t = TenantOf[u]
      PROVE  GoneUser(u, i)' /\ GoneTenant(t, i)'
  <2>1. CASE i \in 1..Len(inbox) /\ inbox'[i] = inbox[i]
    <3>1. GoneUser(u, i) /\ GoneTenant(t, i)
      BY <1>4, <2>1 DEF InboxInv
    <3>2. i \in 0..Len(inbox)
      BY <2>1 DEF TypeOK
    <3> QED
      BY <3>1, <3>2, AuthGone
  <2>2. CASE u \in users' /\ t \in tenants'
    BY <2>2 DEF GoneUser, GoneTenant
  <2> QED
    <3>1. CASE inbox' = inbox
      BY <2>1, <3>1
    <3>2. CASE inbox' # inbox
      <4>1. PICK e : /\ inbox' = Append(inbox, e)
                     /\ Registers(e) => e.about \in users' /\ TenantOf[e.about] \in tenants'
        BY <1>3, <3>2
      <4>2. \/ i \in 1..Len(inbox) /\ inbox'[i] = inbox[i]
            \/ inbox'[i] = e
        BY <4>1 DEF TypeOK
      <4> QED
        BY <1>4, <2>1, <2>2, <4>1, <4>2
    <3> QED
      BY <3>1, <3>2
<1>5. InboxInv'
  <2>1. ASSUME NEW i \in 1..Len(inbox'), Registers(inbox'[i])
        PROVE  (GoneUser(inbox[i].about, i) /\ GoneTenant(TenantOf[inbox[i].about], i))'
    <3>1. PICK u, t : u = inbox'[i].about /\ t = TenantOf[u]
      OBVIOUS
    <3>2. GoneUser(u, i)' /\ GoneTenant(t, i)'
      BY <1>4, <2>1, <3>1
    <3> QED
      BY <3>1, <3>2 DEF GoneUser, GoneTenant
  <2> QED
    BY <2>1 DEF InboxInv, Registers
<1> QED
  BY <1>1, <1>2, <1>5, AuthTypeOK, SameJobInv, SameRowsKept

-----------------------------------------------------------------------------
(***************************************************************************)
(* A client's row for somebody who is gone makes them adrift.              *)
(***************************************************************************)
LEMMA WriteStep ==
  ASSUME IInv, TypeOK', NEW s \in Subs, NEW new \in RowType \cup {Nil}, Write(s, new),
         UNCHANGED <<users, tenants, inbox, job>>
  PROVE  IInv'
<1>1. adrift \subseteq adrift'
  BY DEF Write
<1>2. InboxInv' /\ Keeps
  BY <1>1, CalmInbox DEF IInv
<1>3. JobInv'
  BY <1>2, SameJobInv DEF IInv
<1>4. new # Nil => Announced(new)'
  <2>1. new # Nil /\ Orphan(new) => new.tenant \in adrift' /\ Named(new) \subseteq adrift'
    BY DEF Write
  <2>2. ~Orphan(new) => new.tenant \in tenants' /\ Named(new) \subseteq users'
    BY DEF Orphan
  <2>3. Named(new)' = Named(new)
    BY DEF Named
  <2> QED
    BY <2>1, <2>2, <2>3 DEF Announced, GoneUser, GoneTenant
<1>5. ASSUME NEW q \in Existing'
      PROVE  \/ q \in Existing /\ rows'[q] = rows[q] /\ StillHandled(q)
             \/ Announced(rows[q])'
  <2>1. CASE q = s
    <3>1. rows'[q] = new /\ new # Nil
      BY <1>5, <2>1 DEF Write, IInv, TypeOK, Existing
    <3> QED
      BY <1>4, <3>1 DEF Announced, Named, GoneUser, GoneTenant
  <2>2. CASE q # s
    <3>1. q \in Existing /\ rows'[q] = rows[q]
      BY <1>5, <2>2 DEF Write, IInv, TypeOK, Existing
    <3> QED
      BY <3>1, SameJob
  <2> QED
    BY <2>1, <2>2
<1> QED
  BY <1>2, <1>3, <1>5, RowsKept DEF IInv

LEMMA CalmStep ==
  ASSUME IInv, TypeOK', UNCHANGED <<users, tenants, inbox, rows, job>>,
         adrift \subseteq adrift'
  PROVE  IInv'
BY CalmInbox, SameJobInv, SameRowsKept DEF IInv

LEMMA ClientsStep == ASSUME IInv, Clients PROVE IInv'
<1>1. TypeOK'
  BY ClientsTypeOK DEF IInv
<1>2. ASSUME NEW s, NEW row, Flush(s, row) PROVE IInv'
  BY <1>1, <1>2, CalmStep DEF Flush, auth
<1>3. ASSUME NEW u \in Users, NEW s \in Subs, NEW m \in BOOLEAN,
             UserPost(u, s, m) \/ UserPut(u, s, m)
      PROVE  IInv'
  <2>1. CASE UserPost(u, s, m)
    BY <1>2, <2>1 DEF UserPost
  <2>2. CASE UserPut(u, s, m)
    <3>1. [rows[s] EXCEPT !.mobile = m] \in RowType
      BY <2>2 DEF IInv, TypeOK, UserPut, SeenByUser, Existing, RowType
    <3> QED
      BY <1>1, <2>2, <3>1, WriteStep DEF UserPut, auth
  <2> QED
    BY <1>3, <2>1, <2>2
<1>4. ASSUME NEW t \in Tenants, NEW s \in Subs, NEW b \in Bodies,
             AdminPost(t, s, b) \/ AdminPut(t, s, b)
      PROVE  IInv'
  <2>1. CASE AdminPost(t, s, b)
    BY <1>2, <2>1 DEF AdminPost
  <2>2. CASE AdminPut(t, s, b)
    <3>1. AdminRow(t, b) \in RowType
      BY DEF AdminRow, RowType
    <3> QED
      BY <1>1, <2>2, <3>1, WriteStep DEF AdminPut, auth
  <2> QED
    BY <1>4, <2>1, <2>2
<1>5. ASSUME NEW s \in Subs, Delete(s) PROVE IInv'
  BY <1>1, <1>5, WriteStep DEF Delete, auth
<1>6. ASSUME Commit PROVE IInv'
  <2>1. pending.sub \in Subs /\ pending.row \in RowType
    BY <1>6 DEF IInv, TypeOK, Commit
  <2> QED
    BY <1>1, <1>6, <2>1, WriteStep DEF Commit, auth
<1>7. ASSUME Rollback PROVE IInv'
  BY <1>1, <1>7, CalmStep DEF Rollback, auth
<1> QED
  BY <1>3, <1>4, <1>5, <1>6, <1>7 DEF Clients

-----------------------------------------------------------------------------
(***************************************************************************)
(* The handlers.                                                           *)
(***************************************************************************)
\* The event taken from the inbox is the one being handled.
LEMMA TakeStep == ASSUME IInv, Take PROVE IInv'
<1>1. TypeOK'
  BY HandleTypeOK DEF IInv, Handle
<1>2. /\ Len(inbox) \in Nat /\ Len(inbox) > 0
      /\ Len(inbox') = Len(inbox) - 1
      /\ \A j \in 1..Len(inbox') : inbox'[j] = inbox[j + 1]
      /\ job'.event = inbox[1] /\ job'.step = "list"
  BY DEF IInv, TypeOK, Take
<1>3. users' = users /\ tenants' = tenants /\ adrift' = adrift /\ rows' = rows
  BY DEF Take, auth
<1>4. \A e : \A i \in Nat : Coming(e, i + 1) => Coming(e, i)'
  <2>1. ASSUME NEW e, NEW i \in Nat, NEW j \in 1..Len(inbox), i + 1 < j, inbox[j] = e
        PROVE  j - 1 \in 1..Len(inbox') /\ i < j - 1 /\ inbox'[j - 1] = e
    BY <1>2, <2>1
  <2> QED
    BY <2>1 DEF Coming
<1>5. \A e : Coming(e, 0) => Coming(e, 0)' \/ e = job'.event
  <2>1. ASSUME NEW e, NEW j \in 1..Len(inbox), inbox[j] = e
        PROVE  \/ j - 1 \in 1..Len(inbox') /\ 0 < j - 1 /\ inbox'[j - 1] = e
               \/ e = job'.event
    BY <1>2, <2>1
  <2> QED
    BY <2>1 DEF Coming
<1>6. \A i \in Nat : /\ \A u : GoneUser(u, i + 1) => GoneUser(u, i)'
                    /\ \A t : GoneTenant(t, i + 1) => GoneTenant(t, i)'
  BY <1>3, <1>4 DEF GoneUser, GoneTenant
<1>7. ASSUME NEW i \in Nat, i + 1 \in 1..Len(inbox), Registers(inbox[i + 1]), NEW u, NEW t,
             u = inbox[i + 1].about, t = TenantOf[u]
      PROVE  GoneUser(u, i)' /\ GoneTenant(t, i)'
  BY <1>6, <1>7 DEF IInv, InboxInv
<1>8. InboxInv'
  <2>1. ASSUME NEW i \in 1..Len(inbox'), Registers(inbox'[i])
        PROVE  (GoneUser(inbox[i].about, i) /\ GoneTenant(TenantOf[inbox[i].about], i))'
    <3>1. PICK u, t : u = inbox'[i].about /\ t = TenantOf[u]
      OBVIOUS
    <3>2. i \in Nat /\ i + 1 \in 1..Len(inbox) /\ inbox[i + 1] = inbox'[i]
      BY <1>2
    <3>3. GoneUser(u, i)' /\ GoneTenant(t, i)'
      BY <1>7, <2>1, <3>1, <3>2
    <3> QED
      BY <3>1, <3>3 DEF GoneUser, GoneTenant
  <2> QED
    BY <2>1 DEF InboxInv, Registers
<1>9. JobInv'
  <2>1. PICK u, t : u = inbox[1].about /\ t = TenantOf[u]
    OBVIOUS
  <2>2. Registers(inbox[1]) => GoneUser(u, 0)' /\ GoneTenant(t, 0)'
    <3>1. 0 \in Nat /\ 0 + 1 = 1 /\ 1 \in 1..Len(inbox)
      BY <1>2
    <3> QED
      BY <1>7, <2>1, <3>1
  <2>3. Registers(job.event)' =>
          (GoneUser(job.event.about, 0) /\ GoneTenant(TenantOf[job.event.about], 0))'
    BY <1>2, <2>1, <2>2 DEF Registers, GoneUser, GoneTenant
  <2> QED
    BY <1>2, <2>3 DEF JobInv, Registers
<1>10. \A s, u, t : ~HandlingUser(s, u) /\ ~HandlingTenant(s, t)
  BY DEF Take, Idle, NoEvent, UserDeleted, TenantDeleted, HandlingUser, HandlingTenant
<1>11. \A u : GoneUser(u, 0) => \A s : GoneUser(u, 0)' \/ HandlingUser(s, u)'
  BY <1>2, <1>3, <1>5 DEF GoneUser, HandlingUser
<1>12. \A t : GoneTenant(t, 0) => \A s : GoneTenant(t, 0)' \/ HandlingTenant(s, t)'
  BY <1>2, <1>3, <1>5 DEF GoneTenant, HandlingTenant
<1>13. UserRowsInv'
  <2>1. \A s \in Existing : \A u \in Named(rows[s]) : GoneUser(u, 0)' \/ HandlingUser(s, u)'
    BY <1>10, <1>11 DEF IInv, UserRowsInv
  <2> QED
    BY <1>3, <2>1 DEF UserRowsInv, Existing, Named
<1>14. TenantRowsInv'
  <2>1. ASSUME NEW s \in Existing, NEW t, t = rows[s].tenant
        PROVE  GoneTenant(t, 0)' \/ HandlingTenant(s, t)'
    BY <1>10, <1>12, <2>1 DEF IInv, TenantRowsInv
  <2>2. ASSUME NEW s \in Existing'
        PROVE  (GoneTenant(rows[s].tenant, 0) \/ HandlingTenant(s, rows[s].tenant))'
    <3>1. PICK t : t = rows[s].tenant
      OBVIOUS
    <3>2. s \in Existing /\ t = rows'[s].tenant
      BY <1>3, <3>1 DEF Existing
    <3>3. GoneTenant(t, 0)' \/ HandlingTenant(s, t)'
      BY <2>1, <3>1, <3>2
    <3> QED
      BY <3>2, <3>3 DEF GoneTenant, HandlingTenant
  <2> QED
    BY <2>2 DEF TenantRowsInv
<1> QED
  BY <1>1, <1>8, <1>9, <1>13, <1>14 DEF IInv

\* Between two of its steps a handler keeps its event, or ends; it ends or goes
\* on to delete what it has found.
LEMMA HandlerStep ==
  ASSUME IInv, TypeOK', UNCHANGED <<users, tenants, inbox, adrift>>, JobInv',
         \A s \in Existing' :
           \/ s \in Existing /\ rows'[s] = rows[s] /\ StillHandled(s)
           \/ Announced(rows[s])'
  PROVE  IInv'
BY CalmInbox, RowsKept DEF IInv

LEMMA OverJob ==
  ASSUME IInv, job # Idle, UNCHANGED <<users, tenants, inbox, adrift>>, NEW ss, Over(ss)
  PROVE  /\ JobInv'
         /\ \A s \in ss : job'.event = job.event /\ job'.step = "delete" /\ s \in job'.todo
<1>1. CASE ss = {}
  BY <1>1 DEF Over, JobInv, Registers, Idle, NoEvent
<1>2. CASE ss # {}
  <2>1. job'.event = job.event /\ job'.step = "delete" /\ job'.todo = ss
    BY <1>2 DEF Over, IInv, TypeOK
  <2>2. PICK u, t : u = job.event.about /\ t = TenantOf[u]
    OBVIOUS
  <2>3. Registers(job.event) => GoneUser(u, 0)' /\ GoneTenant(t, 0)'
    BY <2>2, CalmInbox DEF IInv, JobInv, Keeps
  <2>4. Registers(job.event)' =>
          (GoneUser(job.event.about, 0) /\ GoneTenant(TenantOf[job.event.about], 0))'
    BY <2>1, <2>2, <2>3 DEF Registers, GoneUser, GoneTenant
  <2> QED
    BY <2>1, <2>4 DEF JobInv
<1> QED
  BY <1>1, <1>2

\* A handler that lists the rows it is going to delete has found row s, or does
\* not have to delete it.
LEMMA ListStep ==
  ASSUME IInv, TypeOK', job # Idle, UNCHANGED <<users, tenants, inbox, adrift, rows>>,
         NEW ss, Over(ss),
         \A s \in Existing, u \in Users :
           u \in Named(rows[s]) /\ HandlingUser(s, u) => s \in ss,
         \A s \in Existing : HandlingTenant(s, rows[s].tenant) => s \in ss
  PROVE  IInv'
<1>1. JobInv' /\ \A s \in ss : job'.event = job.event /\ job'.step = "delete" /\ s \in job'.todo
  BY OverJob
<1>2. \A s \in ss : \A u : HandlingUser(s, u) => HandlingUser(s, u)'
  BY <1>1 DEF HandlingUser
<1>3. \A s \in ss : \A t : HandlingTenant(s, t) => HandlingTenant(s, t)'
  BY <1>1 DEF HandlingTenant
<1>4. Keeps
  BY CalmInbox DEF IInv
<1>5. UserRowsInv'
  <2>1. ASSUME NEW s \in Existing, NEW u \in Named(rows[s])
        PROVE  GoneUser(u, 0)' \/ HandlingUser(s, u)'
    <3>1. u \in Users
      BY DEF IInv, TypeOK, Existing, Named, RowType
    <3> QED
      BY <1>2, <1>4, <2>1, <3>1 DEF IInv, UserRowsInv, Keeps
  <2> QED
    BY <2>1 DEF UserRowsInv, Existing, Named
<1>6. TenantRowsInv'
  <2>1. ASSUME NEW s \in Existing, NEW t, t = rows[s].tenant
        PROVE  GoneTenant(t, 0)' \/ HandlingTenant(s, t)'
    BY <1>3, <1>4, <2>1 DEF IInv, TenantRowsInv, Keeps
  <2>2. ASSUME NEW s \in Existing'
        PROVE  (GoneTenant(rows[s].tenant, 0) \/ HandlingTenant(s, rows[s].tenant))'
    <3>1. PICK t : t = rows[s].tenant
      OBVIOUS
    <3>2. s \in Existing /\ t = rows'[s].tenant
      BY <3>1 DEF Existing
    <3>3. GoneTenant(t, 0)' \/ HandlingTenant(s, t)'
      BY <2>1, <3>1, <3>2
    <3> QED
      BY <3>2, <3>3 DEF GoneTenant, HandlingTenant
  <2> QED
    BY <2>2 DEF TenantRowsInv
<1> QED
  BY <1>1, <1>5, <1>6, CalmInbox DEF IInv

LEMMA HandleStep == ASSUME IInv, Handle PROVE IInv'
<1> USE DEF IInv
<1>1. TypeOK'
  BY HandleTypeOK
<1>2. job.step # "idle" => job # Idle
  BY DEF Idle
<1>3. ASSUME Ensure PROVE IInv'
  <2>1. \A s, u, t : ~HandlingUser(s, u) /\ ~HandlingTenant(s, t)
    BY <1>3 DEF Ensure, HandlingUser, HandlingTenant, UserDeleted, TenantDeleted
  <2>2. CASE MobileRows(job.event.about) = {}
    <3>1. job'.event = job.event /\ job'.step = "create"
      BY <1>2, <1>3, <2>2 DEF Ensure, TypeOK
    <3>2. Keeps
      BY <1>3, CalmInbox DEF Ensure, auth
    <3>3. JobInv'
      <4>1. PICK u, t : u = job.event.about /\ t = TenantOf[u]
        OBVIOUS
      <4>2. GoneUser(u, 0)' /\ GoneTenant(t, 0)' /\ Registers(job.event)
        BY <1>3, <3>2, <4>1 DEF JobInv, Keeps, Ensure, Registers
      <4>3. (GoneUser(job.event.about, 0) /\ GoneTenant(TenantOf[job.event.about], 0))'
        BY <3>1, <4>1, <4>2 DEF GoneUser, GoneTenant
      <4> QED
        BY <3>1, <4>2, <4>3 DEF JobInv, Registers
    <3>4. \A s : StillHandled(s)
      BY <2>1 DEF StillHandled
    <3> QED
      BY <1>1, <1>3, <3>3, <3>4, HandlerStep DEF Ensure, auth, Existing
  <2>3. CASE MobileRows(job.event.about) # {}
    <3>1. PICK first : Over(MobileRows(job.event.about) \ {first})
      BY <1>3, <2>3 DEF Ensure
    <3> QED
      BY <1>1, <1>2, <1>3, <2>1, <3>1, ListStep DEF Ensure, auth
  <2> QED
    BY <2>2, <2>3
<1>4. ASSUME ListMobile PROVE IInv'
  <2>1. \A s, u, t : ~HandlingUser(s, u) /\ ~HandlingTenant(s, t)
    BY <1>4 DEF ListMobile, HandlingUser, HandlingTenant, UserDeleted, TenantDeleted
  <2> QED
    BY <1>1, <1>2, <1>4, <2>1, ListStep DEF ListMobile, auth
<1>5. ASSUME ListTenant PROVE IInv'
  <2>1. \A s, u : ~HandlingUser(s, u)
    BY <1>5 DEF ListTenant, HandlingUser, UserDeleted
  <2>2. \A s \in Existing : HandlingTenant(s, rows[s].tenant) => s \in InTenant(job.event.about)
    BY DEF HandlingTenant, TenantDeleted, InTenant
  <2> QED
    BY <1>1, <1>2, <1>5, <2>1, <2>2, ListStep DEF ListTenant, auth
<1>6. ASSUME ListOwner PROVE IInv'
  <2>1. /\ job'.event = job.event /\ job'.step = "watching"
        /\ job'.todo = Owned(job.event.about)
        /\ job.event.name = "user_deleted" /\ UNCHANGED rows
    BY <1>2, <1>6 DEF ListOwner, TypeOK
  <2>2. JobInv'
    BY <2>1 DEF JobInv, Registers
  <2>3. ASSUME NEW s \in Existing PROVE StillHandled(s)
    <3>1. ASSUME NEW u \in Named(rows[s]), HandlingUser(s, u) PROVE HandlingUser(s, u)'
      <4>1. u = job.event.about
        BY <3>1 DEF HandlingUser, UserDeleted
      <4>2. s \in job'.todo \/ rows'[s].events = u
        BY <2>1, <3>1, <4>1 DEF Named, Owned
      <4> QED
        BY <2>1, <3>1, <4>2 DEF HandlingUser
    <3>2. \A t : ~HandlingTenant(s, t)
      BY <2>1 DEF HandlingTenant, TenantDeleted
    <3> QED
      BY <3>1, <3>2 DEF StillHandled
  <2> QED
    BY <1>1, <1>6, <2>1, <2>2, <2>3, HandlerStep DEF ListOwner, auth, Existing
<1>7. ASSUME ListWatching PROVE IInv'
  <2> DEFINE ss == job.todo \cup Watching(job.event.about)
  <2>1. job.event.name = "user_deleted"
    BY <1>7 DEF JobInv, ListWatching
  <2>2. \A s, t : ~HandlingTenant(s, t)
    BY <2>1 DEF HandlingTenant, TenantDeleted
  <2>3. \A s \in Existing, u \in Users : HandlingUser(s, u) => s \in ss
    BY <1>7 DEF HandlingUser, UserDeleted, ListWatching, Watching
  <2> QED
    BY <1>1, <1>2, <1>7, <2>2, <2>3, ListStep DEF ListWatching, auth
<1>8. ASSUME NEW s \in Subs, CreateMobile(s) PROVE IInv'
  <2>1. Registers(job.event)
    BY <1>8 DEF CreateMobile, JobInv
  <2>2. PICK u, t : u = job.event.about /\ t = TenantOf[u]
    OBVIOUS
  <2>3. GoneUser(u, 0)' /\ GoneTenant(t, 0)'
    BY <1>8, <2>1, <2>2, CalmInbox DEF CreateMobile, auth, JobInv, Keeps
  <2>4. JobInv'
    BY <1>8 DEF CreateMobile, Idle, NoEvent, JobInv, Registers
  <2>5. rows'[s] = UserRow(u, TRUE)
    BY <1>8, <2>2 DEF CreateMobile, TypeOK
  <2>6. Announced(rows[s])'
    <3>1. Named(rows'[s]) \subseteq {u} /\ rows'[s].tenant = t
      BY <2>2, <2>5 DEF UserRow, Named
    <3> QED
      BY <2>3, <3>1 DEF Announced, GoneUser, GoneTenant, Named
  <2>7. ASSUME NEW q \in Existing', q # s
        PROVE  q \in Existing /\ rows'[q] = rows[q] /\ StillHandled(q)
    <3>1. \A v, w : ~HandlingUser(q, v) /\ ~HandlingTenant(q, w)
      BY <2>1 DEF HandlingUser, HandlingTenant, UserDeleted, TenantDeleted, Registers
    <3>2. rows'[q] = rows[q]
      BY <1>8, <2>7 DEF CreateMobile, TypeOK, Existing
    <3> QED
      BY <2>7, <3>1, <3>2 DEF Existing, StillHandled
  <2> QED
    BY <1>1, <1>8, <2>4, <2>6, <2>7, HandlerStep DEF CreateMobile, auth
<1>9. ASSUME NEW s \in Subs, DeleteNext(s) PROVE IInv'
  <2>1. PICK ss : Over(ss) /\ (~OnMobile => ss = job.todo \ {s})
    BY <1>9 DEF DeleteNext
  <2>2. job # Idle /\ job.step = "delete"
    BY <1>2, <1>9 DEF DeleteNext
  <2>3. JobInv' /\ \A q \in ss : job'.event = job.event /\ job'.step = "delete" /\ q \in job'.todo
    BY <1>9, <2>1, <2>2, OverJob DEF DeleteNext, auth
  <2>4. ASSUME NEW q \in Existing'
        PROVE  q \in Existing /\ rows'[q] = rows[q] /\ StillHandled(q)
    <3>1. q # s /\ q \in Existing /\ rows'[q] = rows[q]
      BY <1>9 DEF DeleteNext, TypeOK, Existing
    <3>2. ASSUME NEW u, HandlingUser(q, u) PROVE HandlingUser(q, u)'
      <4>1. q \in job.todo /\ ~OnMobile
        BY <2>2, <3>2 DEF HandlingUser, UserDeleted, OnMobile
      <4>2. q \in ss
        BY <2>1, <3>1, <4>1
      <4> QED
        BY <2>3, <3>2, <4>2 DEF HandlingUser
    <3>3. ASSUME NEW t, HandlingTenant(q, t) PROVE HandlingTenant(q, t)'
      <4>1. q \in job.todo /\ ~OnMobile
        BY <2>2, <3>3 DEF HandlingTenant, TenantDeleted, OnMobile
      <4>2. q \in ss
        BY <2>1, <3>1, <4>1
      <4> QED
        BY <2>3, <3>3, <4>2 DEF HandlingTenant
    <3> QED
      BY <3>1, <3>2, <3>3 DEF StillHandled
  <2> QED
    BY <1>1, <1>9, <2>3, <2>4, HandlerStep DEF DeleteNext, auth
<1> QED
  BY <1>3, <1>4, <1>5, <1>6, <1>7, <1>8, <1>9, TakeStep DEF Handle

-----------------------------------------------------------------------------
(***************************************************************************)
(* What is lost makes somebody adrift; sync_db only removes rows.          *)
(***************************************************************************)
LEMMA RestStep == ASSUME IInv, HandlerFails \/ Stop \/ Start \/ Sync PROVE IInv'
<1> USE DEF IInv
<1>1. TypeOK'
  BY RestTypeOK
<1>2. ASSUME HandlerFails PROVE IInv'
  <2>1. JobInv'
    BY <1>2 DEF HandlerFails, Idle, NoEvent, JobInv, Registers
  <2>2. InboxInv' /\ Keeps
    BY <1>2, CalmInbox DEF HandlerFails, auth
  <2>3. ASSUME NEW s \in Existing' PROVE s \in Existing /\ rows'[s] = rows[s] /\ StillHandled(s)
    <3>1. \A u : HandlingUser(s, u) => u \in adrift'
      BY <1>2 DEF HandlerFails, HandlingUser, UserDeleted
    <3>2. \A t : HandlingTenant(s, t) => t \in adrift'
      BY <1>2 DEF HandlerFails, HandlingTenant, TenantDeleted
    <3> QED
      BY <1>2, <2>3, <3>1, <3>2 DEF HandlerFails, Existing, StillHandled, GoneUser, GoneTenant
  <2> QED
    BY <1>1, <2>1, <2>2, <2>3, RowsKept
<1>3. ASSUME Stop PROVE IInv'
  <2>1. JobInv' /\ InboxInv'
    BY <1>3 DEF Stop, Idle, NoEvent, JobInv, InboxInv, Registers
  <2>2. Keeps
    BY <1>3, StopGone DEF Keeps
  <2>3. ASSUME NEW s \in Existing' PROVE s \in Existing /\ rows'[s] = rows[s] /\ StillHandled(s)
    <3>1. ASSUME NEW u \in Named(rows[s]), HandlingUser(s, u), s \in Existing
          PROVE  u \in adrift'
      <4>1. u # Nil /\ u = job.event.about
        BY <3>1 DEF Named, HandlingUser, UserDeleted
      <4> QED
        BY <1>3, <4>1 DEF Stop
    <3>2. ASSUME NEW t, HandlingTenant(s, t) PROVE t \in adrift'
      <4>1. t = job.event.about /\ job.event.name = "tenant_deleted"
        BY <3>2 DEF HandlingTenant, TenantDeleted
      <4>2. t # Nil
        BY <4>1 DEF TypeOK, EventType, Idle, NoEvent
      <4> QED
        BY <1>3, <4>1, <4>2 DEF Stop
    <3>3. s \in Existing /\ rows'[s] = rows[s]
      BY <1>3, <2>3 DEF Stop, Existing
    <3> QED
      BY <3>1, <3>2, <3>3 DEF StillHandled, GoneUser, GoneTenant
  <2> QED
    BY <1>1, <2>1, <2>2, <2>3, RowsKept
<1>4. ASSUME Start \/ SyncTenants \/ SyncUsers PROVE IInv'
  BY <1>1, <1>4, CalmStep DEF Start, SyncTenants, SyncUsers, auth
<1>5. ASSUME SyncRemove PROVE IInv'
  <2>1. InboxInv' /\ Keeps
    BY <1>5, CalmInbox DEF SyncRemove, auth
  <2>2. JobInv'
    BY <1>5, <2>1, SameJobInv DEF SyncRemove
  <2>3. \A s \in Existing' : s \in Existing /\ rows'[s] = rows[s]
    BY <1>5 DEF SyncRemove, Existing
  <2>4. UNCHANGED job
    BY <1>5 DEF SyncRemove
  <2> QED
    BY <1>1, <2>1, <2>2, <2>3, <2>4, SameJob, RowsKept
<1> QED
  BY <1>2, <1>3, <1>4, <1>5 DEF Sync

LEMMA NextIInv == ASSUME IInv, [Next]_vars PROVE IInv'
<1>1. CASE UNCHANGED vars
  <2>1. TypeOK'
    BY <1>1 DEF IInv, TypeOK, vars
  <2> QED
    BY <1>1, <2>1, CalmStep DEF vars
<1> QED
  BY <1>1, AuthStep, ClientsStep, HandleStep, RestStep DEF Next

-----------------------------------------------------------------------------
LEMMA Invariance == Spec => []IInv
BY InitIInv, NextIInv, PTL DEF Spec

\* Every variable keeps its type: a row always belongs to a tenant, and the
\* consumer's thread deletes only what it has listed.
THEOREM TypeCorrect == Spec => []TypeOK
<1>1. IInv => TypeOK
  BY DEF IInv
<1> QED
  BY <1>1, Invariance, PTL

\* Once webhookd has handled what wazo-auth has published, a row of a removed
\* user or tenant is a row somebody is adrift for (_remove_user, _remove_tenant
\* and the handlers of the mobile service).
THEOREM RemovedAreCleared == Spec => []RemovedLeaveNoRow
<1>1. ASSUME IInv, CaughtUp, NEW s \in Existing, Orphan(rows[s])
      PROVE  (({rows[s].tenant} \ tenants) \cup (Named(rows[s]) \ users)) \cap adrift # {}
  <2>1. \A e : ~Coming(e, 0)
    BY <1>1 DEF CaughtUp, Coming
  <2>2. \A u, t : ~HandlingUser(s, u) /\ ~HandlingTenant(s, t)
    BY <1>1 DEF CaughtUp, Idle, NoEvent, HandlingUser, HandlingTenant, UserDeleted, TenantDeleted
  <2>3. \A u \in Named(rows[s]) : u \notin users => u \in adrift
    BY <1>1, <2>1, <2>2 DEF IInv, UserRowsInv, GoneUser
  <2>4. rows[s].tenant \notin tenants => rows[s].tenant \in adrift
    BY <1>1, <2>1, <2>2 DEF IInv, TenantRowsInv, GoneTenant
  <2> QED
    BY <1>1, <2>3, <2>4 DEF Orphan
<1>2. IInv => RemovedLeaveNoRow
  BY <1>1 DEF RemovedLeaveNoRow
<1> QED
  BY <1>2, Invariance, PTL

-----------------------------------------------------------------------------
(***************************************************************************)
(* One mobile subscription for each registered phone.                      *)
(*                                                                         *)
(* Only the last event about a user counts: it tells whether the user has  *)
(* a phone.  Once it is handled, or while it is, the mobile rows of the    *)
(* user are known, because nobody else removes them: not the handlers of   *)
(* other users, nor sync_db, whose snapshots only hold too much.           *)
(***************************************************************************)
\* The events by age, the one being handled first.
Event(i) == IF i = 0 THEN job.event ELSE inbox[i]

PhoneEvent(e, u)   == e.about = u /\ e.name \in {"added", "updated", "deleted"}
AboutUser(e, u)    == PhoneEvent(e, u) \/ (e.about = u /\ e.name = "user_deleted")
AboutTenant(e, t)  == e.about = t /\ e.name = "tenant_deleted"
NoneAfter(u, i)    == \A j \in 0..Len(inbox) : i < j => ~AboutUser(Event(j), u)

\* The removal of a user follows all that happens to its phone.
PhoneInv == \A u \in Users : \A i \in 0..Len(inbox) :
  PhoneEvent(Event(i), u) => GoneUser(u, i)

\* The last event about a user tells whether it has a phone.
LastInv == \A u \in Users : \A i \in 0..Len(inbox) :
  u \notin adrift /\ AboutUser(Event(i), u) /\ NoneAfter(u, i) =>
    (Registers(Event(i)) <=> u \in mobile)

\* A tenant that is announced to be removed is removed.
TenantInv == \A t \in Tenants : \A i \in 0..Len(inbox) :
  AboutTenant(Event(i), t) => t \notin tenants

EventsInv == PhoneInv /\ LastInv /\ TenantInv

-----------------------------------------------------------------------------
\* What wazo-auth does: something is published about a user or a tenant.
AuthEffect(name, about) ==
  /\ Publish(name, about)
  /\ users' \subseteq users /\ tenants' \subseteq tenants
  /\ \/ /\ name = "tenant_deleted" /\ about \notin tenants'
        /\ UNCHANGED <<users, mobile>>
     \/ /\ name \in {"added", "updated", "deleted", "user_deleted"}
        /\ UNCHANGED tenants
        /\ \A v \in Users : v # about => (v \in mobile' <=> v \in mobile)
        /\ name \in {"added", "updated"} <=> about \in mobile'
        /\ name # "user_deleted" => about \in users'

LEMMA AuthPublishes == ASSUME TypeOK, WazoAuth PROVE \E name, about : AuthEffect(name, about)
<1>1. ASSUME NEW u \in Users, RegisterPhone(u) PROVE \E name : AuthEffect(name, u)
  BY <1>1 DEF RegisterPhone, AuthEffect, TypeOK
<1>2. ASSUME NEW u \in Users, UnregisterPhone(u) PROVE AuthEffect("deleted", u)
  BY <1>2 DEF UnregisterPhone, AuthEffect, TypeOK
<1>3. ASSUME NEW u \in Users, RemoveUser(u) PROVE AuthEffect("user_deleted", u)
  BY <1>3 DEF RemoveUser, AuthEffect, TypeOK
<1>4. ASSUME NEW t \in Tenants, RemoveTenant(t) PROVE AuthEffect("tenant_deleted", t)
  BY <1>4 DEF RemoveTenant, AuthEffect, TypeOK
<1> QED
  BY <1>1, <1>2, <1>3, <1>4 DEF WazoAuth

\* The event is the last one, or it is lost and what it is about is adrift.
LEMMA PublishEvents ==
  ASSUME TypeOK, NEW name, NEW about, Publish(name, about), NEW new,
         new = [name |-> name, about |-> about]
  PROVE  /\ Len(inbox) \in Nat /\ adrift \subseteq adrift' /\ UNCHANGED <<rows, job, sync>>
         /\ \A i \in 0..Len(inbox) : Event(i)' = Event(i)
         /\ \/ Len(inbox') = Len(inbox) /\ about \in adrift'
            \/ /\ Len(inbox') = Len(inbox) + 1
               /\ \A i \in 0..Len(inbox') : i > Len(inbox) => Event(i)' = new
<1>1. Len(inbox) \in Nat
  BY DEF TypeOK
<1>2. CASE up
  <2>1. inbox' = Append(inbox, new) /\ adrift' = adrift /\ UNCHANGED <<rows, job, sync>>
    BY <1>2 DEF Publish
  <2>2. /\ Len(inbox') = Len(inbox) + 1
        /\ \A j \in 1..Len(inbox) : inbox'[j] = inbox[j]
        /\ inbox'[Len(inbox) + 1] = new
    BY <2>1 DEF TypeOK
  <2>3. ASSUME NEW i \in 0..Len(inbox) PROVE Event(i)' = Event(i)
    <3>1. i = 0 \/ i \in 1..Len(inbox)
      BY <1>1
    <3> QED
      BY <2>1, <2>2, <3>1 DEF Event
  <2>4. \A i \in 0..Len(inbox') : i > Len(inbox) => Event(i)' = new
    BY <1>1, <2>2 DEF Event
  <2> QED
    BY <1>1, <2>1, <2>2, <2>3, <2>4
<1>3. CASE ~up
  BY <1>1, <1>3 DEF Publish, Event
<1> QED
  BY <1>2, <1>3

LEMMA TakeEvents ==
  ASSUME TypeOK, Take
  PROVE  /\ Len(inbox) \in Nat /\ Len(inbox) > 0 /\ Len(inbox') = Len(inbox) - 1
         /\ \A i \in 0..Len(inbox') : Event(i)' = Event(i + 1)
         /\ job'.step = "list" /\ job'.todo = {} /\ job = Idle
         /\ UNCHANGED <<users, tenants, mobile, rows, sync, adrift>>
<1>1. /\ Len(inbox) \in Nat /\ Len(inbox) > 0
      /\ Len(inbox') = Len(inbox) - 1
      /\ \A j \in 1..Len(inbox') : inbox'[j] = inbox[j + 1]
      /\ job'.event = inbox[1] /\ job'.step = "list" /\ job'.todo = {}
  BY DEF TypeOK, Take
<1>2. \A i \in 0..Len(inbox') : Event(i)' = Event(i + 1)
  BY <1>1 DEF Event
<1> QED
  BY <1>1, <1>2 DEF Take, auth

LEMMA TakeNoneAfter ==
  ASSUME TypeOK, Take, NEW u, NEW i \in 0..Len(inbox'), NoneAfter(u, i)'
  PROVE  NoneAfter(u, i + 1)
<1>1. ASSUME NEW j \in 0..Len(inbox), i + 1 < j PROVE ~AboutUser(Event(j), u)
  <2>1. PICK k \in 0..Len(inbox') : j = k + 1 /\ i < k
    BY <1>1, TakeEvents
  <2>2. ~AboutUser(Event(k), u)'
    BY <2>1 DEF NoneAfter
  <2> QED
    BY <2>1, <2>2, TakeEvents DEF AboutUser, PhoneEvent
<1> QED
  BY <1>1 DEF NoneAfter

LEMMA TakeGone ==
  ASSUME TypeOK, Take, NEW u, NEW i \in Nat, GoneUser(u, i + 1) PROVE GoneUser(u, i)'
<1>1. ASSUME NEW e, Coming(e, i + 1) PROVE Coming(e, i)'
  <2>1. PICK j \in 1..Len(inbox) : i + 1 < j /\ inbox[j] = e
    BY <1>1 DEF Coming
  <2>2. j - 1 \in 1..Len(inbox') /\ i < j - 1 /\ inbox'[j - 1] = e
    BY <2>1 DEF TypeOK, Take
  <2> QED
    BY <2>2 DEF Coming
<1> QED
  BY <1>1 DEF GoneUser, Take, auth

\* Whatever else happens, the events stay, but for one whose handler ends.
Calm == /\ UNCHANGED <<users, tenants, mobile, inbox>> /\ adrift \subseteq adrift'
        /\ job'.event \in {job.event, NoEvent}

LEMMA OverEvents ==
  ASSUME TypeOK, NEW ss, Over(ss) PROVE job'.event \in {job.event, NoEvent}
BY DEF Over, TypeOK, Idle

LEMMA CalmSteps ==
  ASSUME TypeOK, [Next]_vars PROVE WazoAuth \/ Take \/ Stop \/ Calm
<1>1. job.step # "idle" => job \in Jobs
  BY DEF TypeOK, Jobs, Idle
<1>2. ASSUME Handle, ~Take PROVE Calm
  <2>1. UNCHANGED <<users, tenants, mobile, inbox, adrift>>
    BY <1>2 DEF Handle, Ensure, ListMobile, ListTenant, ListOwner, ListWatching,
                CreateMobile, DeleteNext, auth
  <2>2. ASSUME Ensure PROVE job'.event \in {job.event, NoEvent}
    <3>1. CASE job' = [job EXCEPT !.step = "create"]
      BY <1>1, <2>2, <3>1 DEF Ensure, Jobs
    <3>2. CASE \E ss : Over(ss)
      BY <3>2, OverEvents
    <3> QED
      BY <2>2, <3>1, <3>2 DEF Ensure
  <2>3. ASSUME ListMobile \/ ListTenant \/ ListWatching PROVE job'.event \in {job.event, NoEvent}
    BY <2>3, OverEvents DEF ListMobile, ListTenant, ListWatching
  <2>4. ASSUME ListOwner PROVE job'.event \in {job.event, NoEvent}
    BY <1>1, <2>4 DEF ListOwner, Jobs
  <2>5. ASSUME NEW s \in Subs, CreateMobile(s) PROVE job'.event \in {job.event, NoEvent}
    BY <2>5 DEF CreateMobile, Idle
  <2>6. ASSUME NEW s \in Subs, DeleteNext(s) PROVE job'.event \in {job.event, NoEvent}
    BY <2>6, OverEvents DEF DeleteNext
  <2>7. job'.event \in {job.event, NoEvent}
    BY <1>2, <2>2, <2>3, <2>4, <2>5, <2>6 DEF Handle
  <2> QED
    BY <2>1, <2>7 DEF Calm
<1>3. ASSUME Clients PROVE Calm
  BY <1>3 DEF Clients, UserPost, UserPut, AdminPost, AdminPut, Delete, Commit, Rollback,
              Flush, Write, auth, Calm
<1>4. ASSUME HandlerFails \/ Start \/ Sync PROVE Calm
  BY <1>4 DEF HandlerFails, Start, Sync, SyncTenants, SyncUsers, SyncRemove, auth, Calm, Idle
<1>5. CASE UNCHANGED vars
  BY <1>5 DEF vars, Calm
<1> QED
  BY <1>2, <1>3, <1>4, <1>5 DEF Next

LEMMA CalmEvents ==
  ASSUME Calm, NEW i \in 0..Len(inbox)
  PROVE  Event(i)' \in {Event(i), NoEvent} /\ (i # 0 => Event(i)' = Event(i))
BY DEF Calm, Event

LEMMA CalmNoneAfter ==
  ASSUME Calm, NEW u PROVE \A i \in 0..Len(inbox) : NoneAfter(u, i)' <=> NoneAfter(u, i)
<1>1. \A i, j \in 0..Len(inbox) : i < j => j # 0
  OBVIOUS
<1>2. \A j \in 0..Len(inbox) : j # 0 => Event(j)' = Event(j)
  BY CalmEvents
<1> QED
  BY <1>1, <1>2 DEF NoneAfter, Calm, AboutUser, PhoneEvent

LEMMA StopEvents ==
  ASSUME Stop
  PROVE  Len(inbox') = 0 /\ \A i \in 0..Len(inbox') : Event(i)' = NoEvent
BY DEF Stop, Event, Idle

LEMMA NoEventAbout ==
  ASSUME NEW u PROVE ~AboutUser(NoEvent, u) /\ ~PhoneEvent(NoEvent, u) /\ ~AboutTenant(NoEvent, u)
BY DEF NoEvent, AboutUser, PhoneEvent, AboutTenant

-----------------------------------------------------------------------------
LEMMA InitEvents == Init => EventsInv
BY NoEventAbout DEF Init, Idle, EventsInv, PhoneInv, LastInv, TenantInv, Event

LEMMA PhoneStep == ASSUME TypeOK, PhoneInv, [Next]_vars PROVE PhoneInv'
<1> SUFFICES ASSUME NEW u \in Users, NEW i \in 0..Len(inbox'), PhoneEvent(Event(i), u)'
             PROVE  GoneUser(u, i)'
  BY DEF PhoneInv
<1> USE DEF PhoneEvent
<1>1. ASSUME NEW name, NEW about, AuthEffect(name, about), WazoAuth PROVE GoneUser(u, i)'
  <2>0. PICK new : new = [name |-> name, about |-> about]
    OBVIOUS
  <2>1. CASE i \in 0..Len(inbox)
    <3>1. Event(i)' = Event(i)
      BY <1>1, <2>1, PublishEvents DEF AuthEffect
    <3>2. GoneUser(u, i)
      BY <2>1, <3>1 DEF PhoneInv
    <3> QED
      BY <1>1, <2>1, <3>2, AuthGone
  <2>2. CASE i \notin 0..Len(inbox)
    <3>1. Event(i)' = new
      BY <1>1, <2>0, <2>2, PublishEvents DEF AuthEffect
    <3>2. u \in users'
      BY <1>1, <2>0, <3>1 DEF AuthEffect
    <3> QED
      BY <3>2 DEF GoneUser
  <2> QED
    BY <2>1, <2>2
<1>2. ASSUME Take PROVE GoneUser(u, i)'
  <2>1. i \in Nat /\ i + 1 \in 0..Len(inbox) /\ Event(i)' = Event(i + 1)
    BY <1>2, TakeEvents
  <2>2. GoneUser(u, i + 1)
    BY <2>1 DEF PhoneInv
  <2> QED
    BY <1>2, <2>1, <2>2, TakeGone
<1>3. ASSUME Stop PROVE FALSE
  BY <1>3, StopEvents, NoEventAbout
<1>4. ASSUME Calm PROVE GoneUser(u, i)'
  <2>1. i \in 0..Len(inbox) /\ Event(i)' = Event(i)
    BY <1>4, CalmEvents, NoEventAbout DEF Calm
  <2>2. GoneUser(u, i)
    BY <2>1 DEF PhoneInv
  <2> QED
    BY <1>4, <2>2, CalmGone DEF Calm
<1> QED
  BY <1>1, <1>2, <1>3, <1>4, CalmSteps, AuthPublishes

LEMMA LastStep == ASSUME TypeOK, LastInv, [Next]_vars PROVE LastInv'
<1> SUFFICES ASSUME NEW u \in Users, NEW i \in 0..Len(inbox'), u \notin adrift',
                    AboutUser(Event(i), u)', NoneAfter(u, i)'
             PROVE  Registers(Event(i))' <=> u \in mobile'
  BY DEF LastInv
<1> USE DEF AboutUser, PhoneEvent, Registers
<1>1. ASSUME NEW k \in 0..Len(inbox), Event(i)' = Event(k), NoneAfter(u, k),
             adrift \subseteq adrift', u \in mobile' <=> u \in mobile
      PROVE  Registers(Event(i))' <=> u \in mobile'
  BY <1>1 DEF LastInv
<1>2. ASSUME NEW name, NEW about, AuthEffect(name, about)
      PROVE  Registers(Event(i))' <=> u \in mobile'
  <2>1. PICK new : new = [name |-> name, about |-> about]
    OBVIOUS
  <2>2. /\ Len(inbox) \in Nat /\ adrift \subseteq adrift'
        /\ \A j \in 0..Len(inbox) : Event(j)' = Event(j)
        /\ \/ Len(inbox') = Len(inbox) /\ about \in adrift'
           \/ /\ Len(inbox') = Len(inbox) + 1
              /\ \A j \in 0..Len(inbox') : j > Len(inbox) => Event(j)' = new
    BY <1>2, <2>1, PublishEvents DEF AuthEffect
  <2>3. CASE i \in 0..Len(inbox)
    <3>1. NoneAfter(u, i)
      BY <2>2, <2>3 DEF NoneAfter
    <3>2. ASSUME u = about, name # "tenant_deleted" PROVE FALSE
      <4>1. Len(inbox') = Len(inbox) + 1 /\ Len(inbox') \in 0..Len(inbox') /\ i < Len(inbox')
        BY <2>2, <2>3, <3>2
      <4>2. \A j \in 0..Len(inbox') : j > Len(inbox) => Event(j)' = new
        BY <2>2, <3>2
      <4>3. \A j \in 0..Len(inbox') : i < j => ~AboutUser(Event(j), u)'
        BY DEF NoneAfter
      <4>4. PICK k \in 0..Len(inbox') : k = Len(inbox')
        BY <4>1
      <4>5. Event(k)' = new /\ ~AboutUser(Event(k), u)'
        BY <2>2, <4>1, <4>2, <4>3, <4>4
      <4>6. name \in {"added", "updated", "deleted", "user_deleted"}
        BY <1>2, <3>2 DEF AuthEffect
      <4>7. new.about = u /\ new.name = name
        BY <2>1, <3>2
      <4> QED
        BY <4>5, <4>6, <4>7
    <3>3. u \in mobile' <=> u \in mobile
      BY <1>2, <3>2 DEF AuthEffect
    <3> QED
      BY <1>1, <2>2, <2>3, <3>1, <3>3
  <2>4. CASE i \notin 0..Len(inbox)
    <3>1. Event(i)' = new
      BY <2>2, <2>4
    <3> QED
      BY <1>2, <2>1, <3>1 DEF AuthEffect
  <2> QED
    BY <2>3, <2>4
<1>3. ASSUME Take PROVE Registers(Event(i))' <=> u \in mobile'
  <2>1. i + 1 \in 0..Len(inbox) /\ Event(i)' = Event(i + 1)
        /\ UNCHANGED <<adrift, mobile>>
    BY <1>3, TakeEvents
  <2> QED
    BY <1>1, <1>3, <2>1, TakeNoneAfter
<1>4. ASSUME Stop PROVE FALSE
  BY <1>4, StopEvents, NoEventAbout
<1>5. ASSUME Calm PROVE Registers(Event(i))' <=> u \in mobile'
  <2>1. i \in 0..Len(inbox) /\ Event(i)' = Event(i)
    BY <1>5, CalmEvents, NoEventAbout DEF Calm
  <2>2. NoneAfter(u, i)
    BY <1>5, <2>1, CalmNoneAfter
  <2> QED
    BY <1>1, <1>5, <2>1, <2>2 DEF Calm
<1> QED
  BY <1>2, <1>3, <1>4, <1>5, CalmSteps, AuthPublishes

LEMMA TenantStep == ASSUME TypeOK, TenantInv, [Next]_vars PROVE TenantInv'
<1> SUFFICES ASSUME NEW t \in Tenants, NEW i \in 0..Len(inbox'), AboutTenant(Event(i), t)'
             PROVE  t \notin tenants'
  BY DEF TenantInv
<1> USE DEF AboutTenant
<1>1. ASSUME NEW name, NEW about, AuthEffect(name, about) PROVE t \notin tenants'
  <2>1. CASE i \in 0..Len(inbox)
    <3>1. Event(i)' = Event(i) /\ tenants' \subseteq tenants
      BY <1>1, <2>1, PublishEvents DEF AuthEffect
    <3> QED
      BY <2>1, <3>1 DEF TenantInv
  <2>2. CASE i \notin 0..Len(inbox)
    <3>1. PICK new : new = [name |-> name, about |-> about]
      OBVIOUS
    <3>2. Event(i)' = new
      BY <1>1, <2>2, <3>1, PublishEvents DEF AuthEffect
    <3> QED
      BY <1>1, <3>1, <3>2 DEF AuthEffect
  <2> QED
    BY <2>1, <2>2
<1>2. ASSUME Take PROVE t \notin tenants'
  <2>1. i + 1 \in 0..Len(inbox) /\ Event(i)' = Event(i + 1) /\ tenants' = tenants
    BY <1>2, TakeEvents
  <2> QED
    BY <2>1 DEF TenantInv
<1>3. ASSUME Stop PROVE FALSE
  BY <1>3, StopEvents, NoEventAbout
<1>4. ASSUME Calm PROVE t \notin tenants'
  <2>1. i \in 0..Len(inbox) /\ Event(i)' = Event(i) /\ tenants' = tenants
    BY <1>4, CalmEvents, NoEventAbout DEF Calm
  <2> QED
    BY <2>1 DEF TenantInv
<1> QED
  BY <1>1, <1>2, <1>3, <1>4, CalmSteps, AuthPublishes

LEMMA EventsStep == ASSUME TypeOK, EventsInv, [Next]_vars PROVE EventsInv'
BY PhoneStep, LastStep, TenantStep DEF EventsInv

-----------------------------------------------------------------------------
\* sync_db removes nothing of those wazo-auth still knows.
SyncInv == /\ sync.step \in {"users", "remove"} => tenants \subseteq sync.tenants
           /\ sync.step = "remove" => users \subseteq sync.users

\* A mobile row of user u that is as the service has made it, and that no
\* handler but those of the user's and the tenant's events is going to delete.
MobileRow(s, u) == rows[s] # Nil /\ rows[s].mobile /\ rows[s].owner = u
Spared(s, u) ==
  s \in job.todo /\ rows[s].tenant = TenantOf[u] =>
    AboutUser(job.event, u) \/ AboutTenant(job.event, TenantOf[u])

OwnRows == \A u \in Users : \A s \in Subs :
  u \notin adrift /\ MobileRow(s, u) => rows[s].events = u /\ Spared(s, u)

LEMMA SyncInvStep == ASSUME TypeOK, SyncInv, [Next]_vars PROVE SyncInv'
<1>1. ASSUME UNCHANGED sync, users' \subseteq users, tenants' \subseteq tenants PROVE SyncInv'
  BY <1>1 DEF SyncInv
<1>2. CASE WazoAuth
  BY <1>1, <1>2, AuthPublishes DEF AuthEffect, Publish
<1>3. CASE SyncTenants
  <2>1. sync'.step = "users" /\ sync'.tenants = tenants /\ tenants' = tenants
    BY <1>3 DEF SyncTenants, TypeOK, auth
  <2> QED
    BY <2>1 DEF SyncInv
<1>4. CASE SyncUsers
  <2>1. /\ sync.step = "users" /\ sync'.step = "remove"
        /\ sync'.tenants = sync.tenants /\ sync'.users = users
        /\ UNCHANGED <<users, tenants>>
    BY <1>4 DEF SyncUsers, TypeOK, auth
  <2> QED
    BY <2>1 DEF SyncInv
<1>5. CASE SyncRemove
  BY <1>5 DEF SyncRemove, NoSync, SyncInv
<1>6. CASE Clients
  BY <1>1, <1>6 DEF Clients, UserPost, UserPut, AdminPost, AdminPut, Delete, Commit, Rollback,
                    Flush, auth
<1>7. CASE Handle
  BY <1>1, <1>7 DEF Handle, Take, Ensure, ListMobile, ListTenant, ListOwner, ListWatching,
                    CreateMobile, DeleteNext, auth
<1>8. CASE HandlerFails \/ Stop \/ Start \/ UNCHANGED vars
  BY <1>1, <1>8 DEF HandlerFails, Stop, Start, auth, vars
<1> QED
  BY <1>2, <1>3, <1>4, <1>5, <1>6, <1>7, <1>8 DEF Next, Sync

-----------------------------------------------------------------------------
\* What a client does: a mobile row is only touched when its user is adrift.
LEMMA ClientsEffect ==
  ASSUME TypeOK, Clients
  PROVE  /\ UNCHANGED <<job, sync>> /\ adrift \subseteq adrift'
         /\ \A u \in Users : \A s \in Subs : u \notin adrift' =>
              \/ rows'[s] = rows[s]
              \/ ~MobileRow(s, u) /\ ~MobileRow(s, u)'
<1>1. ASSUME NEW q \in Subs, NEW new, Writable(new), Write(q, new), NEW u \in Users,
             NEW s \in Subs, u \notin adrift'
      PROVE  rows'[s] = rows[s] \/ (~MobileRow(s, u) /\ ~MobileRow(s, u)')
  <2>1. CASE s # q
    BY <1>1, <2>1 DEF Write, TypeOK
  <2>2. CASE s = q
    <3>1. \A r \in {rows[q], new} \ {Nil} : r.mobile => Named(r) \subseteq adrift'
      BY <1>1 DEF Write
    <3>2. u # Nil /\ rows'[s] = new
      BY <1>1, <2>2 DEF Write, TypeOK
    <3> QED
      BY <1>1, <2>2, <3>1, <3>2 DEF MobileRow, Named
  <2> QED
    BY <2>1, <2>2
<1>2. ASSUME NEW q \in Subs, NEW new, Writable(new), Write(q, new), UNCHANGED <<job, sync>>
      PROVE  /\ UNCHANGED <<job, sync>> /\ adrift \subseteq adrift'
             /\ \A u \in Users : \A s \in Subs : u \notin adrift' =>
                  \/ rows'[s] = rows[s]
                  \/ ~MobileRow(s, u) /\ ~MobileRow(s, u)'
  BY <1>1, <1>2 DEF Write
<1>3. CASE UNCHANGED <<rows, job, sync, adrift>>
  BY <1>3
<1>4. ASSUME NEW u \in Users, NEW s \in Subs, NEW m \in BOOLEAN, UserPut(u, s, m)
      PROVE  \E new : Writable(new) /\ Write(s, new) /\ UNCHANGED <<job, sync>>
  <2>1. rows[s] \in RowType
    BY <1>4 DEF TypeOK, UserPut, SeenByUser, Existing
  <2>2. Writable([rows[s] EXCEPT !.mobile = m])
    BY <2>1 DEF RowType, Writable
  <2> QED
    BY <1>4, <2>2 DEF UserPut
<1>5. ASSUME NEW t \in Tenants, NEW s \in Subs, NEW b \in Bodies, AdminPut(t, s, b)
      PROVE  \E new : Writable(new) /\ Write(s, new) /\ UNCHANGED <<job, sync>>
  <2>1. Writable(AdminRow(t, b))
    BY DEF AdminRow, RowType, Writable
  <2> QED
    BY <1>5, <2>1 DEF AdminPut
<1>6. ASSUME NEW s \in Subs, Delete(s)
      PROVE  \E new : Writable(new) /\ Write(s, new) /\ UNCHANGED <<job, sync>>
  BY <1>6 DEF Delete, Writable
<1>7. ASSUME Commit
      PROVE  \E s \in Subs : \E new : Writable(new) /\ Write(s, new) /\ UNCHANGED <<job, sync>>
  BY <1>7 DEF Commit, TypeOK, Writable
<1>8. ASSUME NEW u \in Users, NEW s \in Subs, NEW m \in BOOLEAN, UserPost(u, s, m)
      PROVE  UNCHANGED <<rows, job, sync, adrift>>
  BY <1>8 DEF UserPost, Flush
<1>9. ASSUME NEW t \in Tenants, NEW s \in Subs, NEW b \in Bodies, AdminPost(t, s, b)
      PROVE  UNCHANGED <<rows, job, sync, adrift>>
  BY <1>9 DEF AdminPost, Flush
<1>10. ASSUME Rollback PROVE UNCHANGED <<rows, job, sync, adrift>>
  BY <1>10 DEF Rollback
<1>11. \/ UNCHANGED <<rows, job, sync, adrift>>
       \/ \E s \in Subs : \E new : Writable(new) /\ Write(s, new) /\ UNCHANGED <<job, sync>>
  BY <1>4, <1>5, <1>6, <1>7, <1>8, <1>9, <1>10 DEF Clients
<1> QED
  BY <1>2, <1>3, <1>11

-----------------------------------------------------------------------------
\* A step that lists rows to delete finds those it should.
LEMMA OverTodo ==
  ASSUME TypeOK, job # Idle, NEW ss, Over(ss)
  PROVE  \/ ss = {} /\ job' = Idle
         \/ ss # {} /\ job'.event = job.event /\ job'.step = "delete" /\ job'.todo = ss
BY DEF Over, TypeOK

LEMMA NoTodo == TypeOK /\ job.step \in {"idle", "list", "create"} => job.todo = {}
BY DEF TypeOK, Idle

LEMMA SparedStep ==
  ASSUME IInv, OwnRows, [Next]_vars, NEW u \in Users, u \notin adrift', NEW s \in Subs,
         MobileRow(s, u), rows'[s] = rows[s]
  PROVE  Spared(s, u)'
<1>1. u \notin adrift
  BY CalmSteps, AuthPublishes, PublishEvents, TakeEvents DEF IInv, Calm, AuthEffect, Stop
<1>2. rows[s].events = u /\ Spared(s, u)
  BY <1>1 DEF OwnRows
<1> DEFINE About == AboutUser(job.event, u) \/ AboutTenant(job.event, TenantOf[u])
<1>3. ASSUME NEW ss, Over(ss), job # Idle,
             s \in ss /\ rows[s].tenant = TenantOf[u] => About
      PROVE  Spared(s, u)'
  <2>1. CASE ss = {} /\ job' = Idle
    BY <2>1 DEF Spared, Idle
  <2>2. CASE job'.event = job.event /\ job'.todo = ss
    BY <1>3, <2>2 DEF Spared, AboutUser, AboutTenant, PhoneEvent
  <2> QED
    BY <1>3, <2>1, <2>2, OverTodo DEF IInv
<1>4. ASSUME job' = job PROVE Spared(s, u)'
  BY <1>2, <1>4 DEF Spared, AboutUser, AboutTenant, PhoneEvent
<1>5. ASSUME job'.todo = {} PROVE Spared(s, u)'
  BY <1>5 DEF Spared
<1>6. job.step # "idle" => job # Idle
  BY DEF Idle
<1>7. CASE WazoAuth \/ Clients \/ Start \/ Sync \/ UNCHANGED vars
  <2>1. job' = job
    BY <1>7, AuthPublishes, ClientsEffect
       DEF IInv, AuthEffect, Publish, Start, Sync, SyncTenants, SyncUsers, SyncRemove, vars
  <2> QED
    BY <1>4, <2>1
<1>8. CASE Take \/ HandlerFails \/ Stop \/ \E q \in Subs : CreateMobile(q)
  <2>1. Take => job'.todo = {}
    BY DEF Take
  <2>2. HandlerFails \/ Stop => job'.todo = {}
    BY DEF HandlerFails, Stop, Idle
  <2>3. (\E q \in Subs : CreateMobile(q)) => job'.todo = {}
    BY DEF CreateMobile, Idle
  <2> QED
    BY <1>5, <1>8, <2>1, <2>2, <2>3
<1>9. CASE Ensure
  <2>1. CASE job' = [job EXCEPT !.step = "create"]
    BY <1>5, <1>6, <1>9, <2>1, NoTodo DEF Ensure, IInv, TypeOK
  <2>2. CASE MobileRows(job.event.about) # {}
    <3>1. PICK first : Over(MobileRows(job.event.about) \ {first})
      BY <1>9, <2>2 DEF Ensure
    <3>2. s \in MobileRows(job.event.about) \ {first} => About
      BY <1>9 DEF Ensure, MobileRows, Owned, MobileRow, AboutUser, PhoneEvent
    <3> QED
      BY <1>3, <1>6, <1>9, <3>1, <3>2 DEF Ensure
  <2> QED
    BY <1>9, <2>1, <2>2 DEF Ensure
<1>10. CASE ListMobile
  <2>1. s \in MobileRows(job.event.about) => About
    BY <1>10 DEF ListMobile, MobileRows, Owned, MobileRow, AboutUser, PhoneEvent
  <2> QED
    BY <1>3, <1>6, <1>10, <2>1 DEF ListMobile
<1>11. CASE ListTenant
  <2>1. s \in InTenant(job.event.about) /\ rows[s].tenant = TenantOf[u] => About
    BY <1>11 DEF ListTenant, InTenant, AboutTenant
  <2> QED
    BY <1>3, <1>6, <1>11, <2>1 DEF ListTenant
<1>12. CASE ListOwner
  <2>1. job'.todo = Owned(job.event.about) /\ job'.event = job.event
    BY <1>6, <1>12 DEF ListOwner, IInv, TypeOK
  <2> QED
    BY <1>12, <2>1 DEF ListOwner, Owned, MobileRow, Spared, AboutUser
<1>13. CASE ListWatching
  <2>1. job.event.name = "user_deleted"
    BY <1>13 DEF ListWatching, IInv, JobInv
  <2>2. s \in Watching(job.event.about) => About
    BY <1>2, <2>1 DEF Watching, AboutUser
  <2>3. s \in job.todo /\ rows[s].tenant = TenantOf[u] => About
    BY <1>2 DEF Spared
  <2> QED
    BY <1>3, <1>6, <1>13, <2>2, <2>3 DEF ListWatching
<1>14. CASE \E q \in Subs : DeleteNext(q)
  <2>1. PICK q \in Subs : DeleteNext(q)
    BY <1>14
  <2>2. PICK ss : Over(ss) /\ ss \subseteq job.todo
    BY <2>1 DEF DeleteNext
  <2>3. s \in ss /\ rows[s].tenant = TenantOf[u] => About
    BY <1>2, <2>2 DEF Spared
  <2> QED
    BY <1>3, <1>6, <2>1, <2>2, <2>3 DEF DeleteNext
<1> QED
  BY <1>7, <1>8, <1>9, <1>10, <1>11, <1>12, <1>13, <1>14 DEF Next, Handle

\* The rows a step leaves, changes and makes.
LEMMA RowsEffect ==
  ASSUME IInv, [Next]_vars, NEW u \in Users, u \notin adrift', NEW s \in Subs, MobileRow(s, u)'
  PROVE  rows'[s] = rows[s] \/ (rows'[s].events = u /\ job' = Idle)
<1>1. CASE WazoAuth
  BY <1>1, AuthPublishes DEF AuthEffect, Publish, IInv
<1>2. CASE Clients
  BY <1>2, ClientsEffect DEF IInv
<1>3. CASE \E q \in Subs : CreateMobile(q)
  BY <1>3 DEF CreateMobile, UserRow, MobileRow, IInv, TypeOK
<1>4. CASE \E q \in Subs : DeleteNext(q)
  BY <1>4 DEF DeleteNext, MobileRow, IInv, TypeOK
<1>5. CASE SyncRemove
  BY <1>5 DEF SyncRemove, MobileRow
<1>6. CASE Take \/ Ensure \/ ListMobile \/ ListTenant \/ ListOwner \/ ListWatching
  BY <1>6 DEF Take, Ensure, ListMobile, ListTenant, ListOwner, ListWatching
<1>7. CASE HandlerFails \/ Stop \/ Start \/ SyncTenants \/ SyncUsers \/ UNCHANGED vars
  BY <1>7 DEF HandlerFails, Stop, Start, SyncTenants, SyncUsers, vars
<1> QED
  BY <1>1, <1>2, <1>3, <1>4, <1>5, <1>6, <1>7 DEF Next, Handle, Sync

LEMMA OwnRowsStep == ASSUME IInv, OwnRows, [Next]_vars PROVE OwnRows'
<1> SUFFICES ASSUME NEW u \in Users, NEW s \in Subs, u \notin adrift', MobileRow(s, u)'
             PROVE  rows'[s].events = u /\ Spared(s, u)'
  BY DEF OwnRows
<1>1. CASE rows'[s] = rows[s]
  <2>1. MobileRow(s, u)
    BY <1>1 DEF MobileRow
  <2>2. u \notin adrift
    BY CalmSteps, AuthPublishes, PublishEvents, TakeEvents DEF IInv, Calm, AuthEffect, Stop
  <2> QED
    BY <1>1, <2>1, <2>2, SparedStep DEF OwnRows
<1>2. CASE rows'[s].events = u /\ job' = Idle
  BY <1>2 DEF Spared, Idle
<1> QED
  BY <1>1, <1>2, RowsEffect

-----------------------------------------------------------------------------
(***************************************************************************)
(* How many mobile rows a user has, before, while and after the last event *)
(* about it is handled.                                                    *)
(***************************************************************************)
Right(u) == IF u \in mobile THEN \E s \in Subs : MobileRows(u) = {s}
                            ELSE MobileRows(u) = {}

Handled(u) ==
  /\ job.step = "create" => MobileRows(u) = {}
  /\ job.event.name = "user_deleted" /\ job.step \in {"watching", "delete"} =>
       MobileRows(u) \subseteq job.todo
  /\ job.event.name = "deleted" /\ job.step = "delete" => MobileRows(u) = job.todo
  /\ Registers(job.event) /\ job.step = "delete" =>
       \E s \in Subs : s \notin job.todo /\ MobileRows(u) = job.todo \cup {s}

UserCount(u) == IF AboutUser(job.event, u) THEN Handled(u) ELSE Right(u)

CountInv == \A u \in Users :
  u \notin adrift /\ TenantOf[u] \in tenants /\ NoneAfter(u, 0) => UserCount(u)

OneInv == IInv /\ EventsInv /\ SyncInv /\ OwnRows /\ CountInv

LEMMA Counted ==
  ASSUME NEW u
  PROVE  MobileRows(u) = {s \in Subs : MobileRow(s, u) /\ rows[s].tenant = TenantOf[u]}
BY DEF MobileRows, MobileRow, Owned, InTenant, Existing

LEMMA CountedNext ==
  ASSUME NEW u
  PROVE  MobileRows(u)' = {s \in Subs : MobileRow(s, u)' /\ rows'[s].tenant = TenantOf[u]}
BY DEF MobileRows, MobileRow, Owned, InTenant, Existing

\* Nothing happens to the rows of u, nor to the handler.
LEMMA SameCount ==
  ASSUME NEW u, UserCount(u), MobileRows(u)' = MobileRows(u), u \in mobile' <=> u \in mobile,
         job' = job
  PROVE  UserCount(u)'
BY DEF UserCount, Handled, Right, AboutUser, PhoneEvent, Registers

\* A step of the handler of somebody else.
LEMMA OtherCount ==
  ASSUME NEW u, UserCount(u), ~AboutUser(job.event, u),
         MobileRows(u)' = MobileRows(u), UNCHANGED mobile, job'.event \in {job.event, NoEvent}
  PROVE  UserCount(u)'
<1>1. ~AboutUser(job.event, u)'
  BY NoEventAbout DEF AboutUser, PhoneEvent
<1> QED
  BY <1>1 DEF UserCount, Right

\* User u is not adrift, its tenant is there, and what is handled is the last
\* that was published about it.
Current(u) == /\ u \in Users /\ u \notin adrift /\ TenantOf[u] \in tenants
              /\ NoneAfter(u, 0) /\ UserCount(u)

LEMMA CurrentPhone ==
  ASSUME IInv, EventsInv, NEW u, Current(u), AboutUser(job.event, u)
  PROVE  /\ Registers(job.event) <=> u \in mobile
         /\ job.event.name # "user_deleted" => u \in users
<1>1. 0 \in 0..Len(inbox) /\ Event(0) = job.event /\ Len(inbox) \in Nat
  BY DEF IInv, TypeOK, Event
<1>2. Registers(job.event) <=> u \in mobile
  BY <1>1 DEF EventsInv, LastInv, Current
<1>3. ASSUME PhoneEvent(job.event, u) PROVE u \in users
  <2>1. GoneUser(u, 0)
    BY <1>1, <1>3 DEF EventsInv, PhoneInv, Current
  <2>2. ASSUME Coming(UserDeleted(u), 0) PROVE FALSE
    <3>1. PICK j \in 1..Len(inbox) : inbox[j] = UserDeleted(u)
      BY <2>2 DEF Coming
    <3>2. j \in 0..Len(inbox) /\ 0 < j /\ AboutUser(Event(j), u)
      BY <1>1, <3>1 DEF Event, AboutUser, UserDeleted
    <3> QED
      BY <3>2 DEF Current, NoneAfter
  <2> QED
    BY <2>1, <2>2 DEF GoneUser, Current
<1> QED
  BY <1>2, <1>3 DEF AboutUser, PhoneEvent

\* The handler of the event ends, or goes on to delete the rows ss.
LEMMA OverCount ==
  ASSUME IInv, EventsInv, NEW u, Current(u), AboutUser(job.event, u), UNCHANGED mobile,
         NEW ss, Over(ss), job # Idle,
         NEW found, found = MobileRows(u)', found \subseteq Subs,
         job.event.name = "user_deleted" => found \subseteq ss,
         job.event.name = "deleted" => found = ss,
         Registers(job.event) => \E s \in Subs : s \notin ss /\ found = ss \cup {s}
  PROVE  UserCount(u)'
<1>1. CASE ss = {} /\ job' = Idle
  <2>1. u \in mobile => \E s \in Subs : found = {s}
    BY <1>1, CurrentPhone
  <2>2. u \notin mobile => found = {}
    BY <1>1, CurrentPhone DEF AboutUser, PhoneEvent, Registers
  <2> QED
    BY <1>1, <2>1, <2>2, NoEventAbout DEF UserCount, Right, Idle
<1>2. CASE job'.event = job.event /\ job'.step = "delete" /\ job'.todo = ss
  <2>1. Handled(u)'
    BY <1>2 DEF Handled, Registers
  <2> QED
    BY <1>2, <2>1 DEF UserCount, AboutUser, PhoneEvent
<1> QED
  BY <1>1, <1>2, OverTodo DEF IInv

LEMMA HandleCount ==
  ASSUME IInv, EventsInv, OwnRows, Handle, ~Take, Calm, NEW u, Current(u)
  PROVE  UserCount(u)'
<1> USE DEF IInv
<1>1. job.step # "idle" => job # Idle
  BY DEF Idle
<1>2. UserCount(u) /\ UNCHANGED mobile /\ job'.event \in {job.event, NoEvent}
  BY DEF Current, Calm
<1>3. UNCHANGED rows => MobileRows(u)' = MobileRows(u)
  BY Counted, CountedNext DEF MobileRow
<1>4. MobileRows(u) \subseteq Subs
  BY Counted
<1>5. CASE Ensure
  <2>1. CASE ~AboutUser(job.event, u)
    BY <1>2, <1>3, <1>5, <2>1, OtherCount DEF Ensure
  <2>2. CASE AboutUser(job.event, u)
    <3>1. job.event.about = u /\ Registers(job.event) /\ UNCHANGED rows
      BY <1>5, <2>2 DEF Ensure, AboutUser, PhoneEvent, Registers
    <3>2. CASE MobileRows(u) = {}
      <4>1. job'.event = job.event /\ job'.step = "create"
        BY <1>1, <1>5, <3>1, <3>2 DEF Ensure, TypeOK
      <4>2. Handled(u)'
        BY <1>3, <3>1, <3>2, <4>1 DEF Handled
      <4> QED
        BY <2>2, <4>1, <4>2 DEF UserCount, AboutUser, PhoneEvent
    <3>3. CASE MobileRows(u) # {}
      <4>1. PICK first \in MobileRows(u) : Over(MobileRows(u) \ {first})
        BY <1>5, <3>1, <3>3 DEF Ensure
      <4> DEFINE ss == MobileRows(u) \ {first}
      <4>2. first \in Subs /\ first \notin ss /\ MobileRows(u) = ss \cup {first}
        BY <1>4
      <4>3. job.event.name \notin {"deleted", "user_deleted"}
        BY <3>1 DEF Registers
      <4>4. MobileRows(u)' = MobileRows(u) /\ job # Idle
        BY <1>1, <1>3, <1>5, <3>1 DEF Ensure
      <4> HIDE DEF ss
      <4>5. Over(ss)
        BY <4>1 DEF ss
      <4> QED
        BY <1>2, <1>4, <2>2, <4>2, <4>3, <4>4, <4>5, OverCount
    <3> QED
      BY <3>2, <3>3
  <2> QED
    BY <2>1, <2>2
<1>6. CASE ListMobile
  <2>1. CASE ~AboutUser(job.event, u)
    BY <1>2, <1>3, <1>6, <2>1, OtherCount DEF ListMobile
  <2>2. CASE AboutUser(job.event, u)
    <3>1. /\ job.event.about = u /\ job.event.name = "deleted" /\ ~Registers(job.event)
          /\ job # Idle /\ MobileRows(u)' = MobileRows(u) /\ Over(MobileRows(u))
      BY <1>1, <1>3, <1>6, <2>2 DEF ListMobile, AboutUser, PhoneEvent, Registers
    <3> QED
      BY <1>2, <1>4, <2>2, <3>1, OverCount
  <2> QED
    BY <2>1, <2>2
<1>7. CASE ListTenant
  <2>1. ~AboutUser(job.event, u)
    BY <1>7 DEF ListTenant, AboutUser, PhoneEvent
  <2> QED
    BY <1>2, <1>3, <1>7, <2>1, OtherCount DEF ListTenant
<1>8. CASE ListOwner
  <2>1. CASE ~AboutUser(job.event, u)
    BY <1>2, <1>3, <1>8, <2>1, OtherCount DEF ListOwner
  <2>2. CASE AboutUser(job.event, u)
    <3>1. /\ job.event.about = u /\ job.event.name = "user_deleted" /\ ~Registers(job.event)
          /\ job'.event = job.event /\ job'.step = "watching" /\ job'.todo = Owned(u)
          /\ MobileRows(u)' = MobileRows(u)
      BY <1>1, <1>3, <1>8, <2>2 DEF ListOwner, AboutUser, PhoneEvent, Registers, TypeOK
    <3>2. MobileRows(u) \subseteq Owned(u)
      BY DEF MobileRows
    <3>3. Handled(u)'
      BY <3>1, <3>2 DEF Handled, Registers
    <3> QED
      BY <2>2, <3>1, <3>3 DEF UserCount, AboutUser, PhoneEvent
  <2> QED
    BY <2>1, <2>2
<1>9. CASE ListWatching
  <2>1. CASE ~AboutUser(job.event, u)
    BY <1>2, <1>3, <1>9, <2>1, OtherCount DEF ListWatching
  <2>2. CASE AboutUser(job.event, u)
    <3>1. PICK ss : ss = job.todo \cup Watching(u)
      OBVIOUS
    <3>2. /\ job.event.about = u /\ job.event.name = "user_deleted" /\ ~Registers(job.event)
          /\ job # Idle /\ MobileRows(u)' = MobileRows(u) /\ Over(ss)
      BY <1>1, <1>3, <1>9, <2>2, <3>1
         DEF ListWatching, AboutUser, PhoneEvent, Registers, JobInv
    <3>3. MobileRows(u) \subseteq ss
      BY <1>2, <1>9, <2>2, <3>1, <3>2 DEF UserCount, Handled, ListWatching
    <3> QED
      BY <1>2, <1>4, <2>2, <3>2, <3>3, OverCount
  <2> QED
    BY <2>1, <2>2
<1>10. ASSUME NEW s \in Subs, CreateMobile(s) PROVE UserCount(u)'
  <2>1. Registers(job.event) /\ job.event.about \in Users /\ rows[s] = Nil
    BY <1>1, <1>10 DEF CreateMobile, Fresh, JobInv, TypeOK, EventType, Registers
  <2>2. /\ \A q \in Subs : q # s => rows'[q] = rows[q]
        /\ rows'[s] = UserRow(job.event.about, TRUE)
    BY <1>10 DEF CreateMobile, TypeOK
  <2>3. rows'[s] # Nil
    BY <2>1, <2>2, UserRowTyped
  <2>4. CASE ~AboutUser(job.event, u)
    <3>1. job.event.about # u
      BY <2>1, <2>4 DEF AboutUser, PhoneEvent, Registers
    <3>2. ~MobileRow(s, u) /\ ~MobileRow(s, u)'
      BY <2>1, <2>2, <3>1 DEF MobileRow, UserRow
    <3>3. MobileRows(u)' = MobileRows(u)
      BY <2>2, <3>2, Counted, CountedNext DEF MobileRow
    <3> QED
      BY <1>2, <2>4, <3>3, OtherCount
  <2>5. CASE AboutUser(job.event, u)
    <3>1. MobileRows(u) = {} /\ job.event.about = u
      BY <1>2, <1>10, <2>5 DEF UserCount, Handled, CreateMobile, AboutUser, PhoneEvent
    <3>2. \A q \in Subs : ~(MobileRow(q, u) /\ rows[q].tenant = TenantOf[u])
      BY <3>1, Counted
    <3>3. MobileRow(s, u)' /\ rows'[s].tenant = TenantOf[u]
      BY <2>2, <2>3, <3>1 DEF MobileRow, UserRow
    <3>4. \A q \in Subs : q # s => ~(MobileRow(q, u)' /\ rows'[q].tenant = TenantOf[u])
      BY <2>2, <3>2 DEF MobileRow
    <3>5. MobileRows(u)' = {s}
      BY <3>3, <3>4, Counted, CountedNext
    <3>6. u \in mobile /\ job' = Idle
      BY <1>10, <2>1, <2>5, CurrentPhone DEF CreateMobile
    <3> QED
      BY <1>2, <3>5, <3>6, NoEventAbout DEF UserCount, Right, Idle
  <2> QED
    BY <2>4, <2>5
<1>11. ASSUME NEW s \in Subs, DeleteNext(s) PROVE UserCount(u)'
  <2>1. /\ s \in job.todo /\ job.step = "delete" /\ job # Idle /\ rows'[s] = Nil
        /\ \A q \in Subs : q # s => rows'[q] = rows[q]
    BY <1>1, <1>11 DEF DeleteNext, TypeOK
  <2>2. MobileRows(u)' = MobileRows(u) \ {s}
    BY <2>1, Counted, CountedNext DEF MobileRow
  <2>3. CASE ~AboutUser(job.event, u)
    <3>1. s \notin MobileRows(u)
      <4>1. SUFFICES ASSUME s \in MobileRows(u) PROVE FALSE
        OBVIOUS
      <4>2. MobileRow(s, u) /\ rows[s].tenant = TenantOf[u]
        BY <4>1, Counted
      <4>3. AboutTenant(job.event, TenantOf[u])
        BY <2>1, <2>3, <4>2 DEF OwnRows, Spared, Current
      <4>4. 0 \in 0..Len(inbox) /\ Event(0) = job.event /\ TenantOf[u] \in Tenants
        BY DEF Current, Event, TypeOK
      <4> QED
        BY <4>3, <4>4 DEF EventsInv, TenantInv, Current
    <3> QED
      BY <1>2, <2>2, <2>3, <3>1, OtherCount
  <2>4. CASE AboutUser(job.event, u)
    <3>1. Handled(u)
      BY <1>2, <2>4 DEF UserCount
    <3>2. job.event.name # "user_deleted" => s \in MobileRows(u) /\ rows[s] # Nil
      <4>1. job.event.name # "user_deleted" => s \in MobileRows(u)
        BY <2>1, <2>4, <3>1 DEF Handled, Registers, AboutUser, PhoneEvent
      <4> QED
        BY <4>1, Counted DEF MobileRow
    <3>3. job.event.name = "user_deleted" => ~OnMobile
      BY DEF OnMobile
    <3>4. PICK ss : Over(ss) /\ ss = job.todo \ {s}
      BY <1>11, <3>2, <3>3 DEF DeleteNext
    <3>5. PICK found : found = MobileRows(u) \ {s}
      OBVIOUS
    <3>6. found = MobileRows(u)' /\ found \subseteq Subs
      BY <1>4, <2>2, <3>5
    <3>7. job.event.name = "user_deleted" => found \subseteq ss
      BY <2>1, <3>1, <3>4, <3>5 DEF Handled
    <3>8. job.event.name = "deleted" => found = ss
      BY <2>1, <3>1, <3>4, <3>5 DEF Handled
    <3>9. Registers(job.event) => \E q \in Subs : q \notin ss /\ found = ss \cup {q}
      <4>1. ASSUME Registers(job.event)
            PROVE  \E q \in Subs : q \notin ss /\ found = ss \cup {q}
        <5>1. PICK q \in Subs : q \notin job.todo /\ MobileRows(u) = job.todo \cup {q}
          BY <2>1, <3>1, <4>1 DEF Handled
        <5>2. q # s
          BY <2>1, <5>1
        <5> QED
          BY <3>4, <3>5, <5>1, <5>2
      <4> QED
        BY <4>1
    <3> QED
      BY <1>2, <2>1, <2>4, <3>4, <3>6, <3>7, <3>8, <3>9, OverCount
  <2> QED
    BY <2>3, <2>4
<1> QED
  BY <1>5, <1>6, <1>7, <1>8, <1>9, <1>10, <1>11 DEF Handle

\* Before a step that only adds to who is adrift and leaves the events, user u
\* was as it should be.
LEMMA CalmCurrent ==
  ASSUME IInv, CountInv, Calm, NEW u \in Users, u \notin adrift', TenantOf[u] \in tenants',
         NoneAfter(u, 0)'
  PROVE  Current(u)
<1>1. 0 \in 0..Len(inbox)
  BY DEF IInv, TypeOK
<1>2. NoneAfter(u, 0)
  BY <1>1, CalmNoneAfter
<1> QED
  BY <1>2 DEF Calm, Current, CountInv

\* A job that ends without its handler: only somebody else's.
LEMMA LostCount ==
  ASSUME NEW u, UserCount(u), UNCHANGED <<rows, mobile>>, job' = Idle, ~AboutUser(job.event, u)
  PROVE  UserCount(u)'
<1>1. MobileRows(u)' = MobileRows(u)
  BY Counted, CountedNext DEF MobileRow
<1> QED
  BY <1>1, OtherCount DEF Idle

LEMMA SyncCount ==
  ASSUME IInv, EventsInv, SyncInv, OwnRows, SyncRemove, NEW u, Current(u)
  PROVE  UserCount(u)'
<1>1. /\ UNCHANGED <<job, mobile>> /\ sync.step = "remove"
      /\ \A s \in Subs : rows'[s] = IF rows[s] # Nil /\ Unknown(rows[s]) THEN Nil ELSE rows[s]
  BY DEF SyncRemove, auth
<1>2. UserCount(u) /\ u \in Users /\ u \notin adrift /\ TenantOf[u] \in tenants
  BY DEF Current
<1>3. MobileRows(u)' \subseteq MobileRows(u)
  BY <1>1, Counted, CountedNext DEF MobileRow
<1>4. ASSUME u \in users PROVE MobileRows(u)' = MobileRows(u)
  <2>1. ASSUME NEW s \in MobileRows(u) PROVE s \in MobileRows(u)'
    <3>1. s \in Subs /\ MobileRow(s, u) /\ rows[s].tenant = TenantOf[u]
      BY <2>1, Counted
    <3>2. rows[s].events = u
      BY <1>2, <3>1 DEF OwnRows
    <3>3. ~Unknown(rows[s])
      BY <1>1, <1>2, <1>4, <3>1, <3>2 DEF SyncInv, Unknown, Named, MobileRow
    <3> QED
      BY <1>1, <3>1, <3>3, CountedNext DEF MobileRow
  <2> QED
    BY <1>3, <2>1
<1>5. CASE u \in users
  BY <1>1, <1>2, <1>4, <1>5, SameCount
<1>6. CASE u \notin users
  <2>1. u \notin mobile
    BY <1>6 DEF IInv, TypeOK
  <2>2. CASE ~AboutUser(job.event, u)
    <3>1. MobileRows(u) = {}
      BY <1>2, <2>1, <2>2 DEF UserCount, Right
    <3>2. MobileRows(u)' = MobileRows(u)
      BY <1>3, <3>1
    <3> QED
      BY <1>1, <1>2, <3>2, SameCount
  <2>3. CASE AboutUser(job.event, u)
    <3>1. job.event.name = "user_deleted"
      BY <1>6, <2>3, CurrentPhone
    <3>2. job.step # "create" /\ ~Registers(job.event)
      BY <3>1 DEF IInv, JobInv, Registers
    <3>3. Handled(u)
      BY <1>2, <2>3 DEF UserCount
    <3>4. Handled(u)'
      BY <1>1, <1>3, <3>1, <3>2, <3>3 DEF Handled, Registers
    <3> QED
      BY <1>1, <2>3, <3>4 DEF UserCount, AboutUser, PhoneEvent
  <2> QED
    BY <2>2, <2>3
<1> QED
  BY <1>5, <1>6

LEMMA CountStep ==
  ASSUME IInv, EventsInv, SyncInv, OwnRows, CountInv, [Next]_vars PROVE CountInv'
<1> SUFFICES ASSUME NEW u \in Users, u \notin adrift', TenantOf[u] \in tenants',
                    NoneAfter(u, 0)'
             PROVE  UserCount(u)'
  BY DEF CountInv
<1> USE DEF IInv
<1>1. ASSUME Calm PROVE Current(u)
  BY <1>1, CalmCurrent
<1>2. ASSUME Calm, UNCHANGED job, MobileRows(u)' = MobileRows(u) PROVE UserCount(u)'
  BY <1>1, <1>2, SameCount DEF Calm, Current
<1>3. UNCHANGED rows => MobileRows(u)' = MobileRows(u)
  BY Counted, CountedNext DEF MobileRow
<1>4. CASE WazoAuth
  <2>1. PICK name, about : AuthEffect(name, about)
    BY <1>4, AuthPublishes
  <2>2. PICK new : new = [name |-> name, about |-> about]
    OBVIOUS
  <2>3. /\ Len(inbox) \in Nat /\ adrift \subseteq adrift' /\ UNCHANGED <<rows, job>>
        /\ \A j \in 0..Len(inbox) : Event(j)' = Event(j)
        /\ \/ Len(inbox') = Len(inbox) /\ about \in adrift'
           \/ /\ Len(inbox') = Len(inbox) + 1
              /\ \A j \in 0..Len(inbox') : j > Len(inbox) => Event(j)' = new
    BY <2>1, <2>2, PublishEvents DEF AuthEffect
  <2>4. NoneAfter(u, 0)
    BY <2>3 DEF NoneAfter, AboutUser, PhoneEvent
  <2>5. ASSUME u = about, name # "tenant_deleted" PROVE FALSE
    <3>1. PICK k \in 0..Len(inbox') : k = Len(inbox') /\ k > Len(inbox) /\ 0 < k
      BY <2>3, <2>5
    <3>2. Event(k)' = new
      BY <2>3, <2>5, <3>1
    <3>3. ~AboutUser(Event(k), u)'
      BY <3>1 DEF NoneAfter
    <3>4. name \in {"added", "updated", "deleted", "user_deleted"}
      BY <2>1, <2>5 DEF AuthEffect
    <3>5. new.about = u /\ new.name = name
      BY <2>2, <2>5
    <3> QED
      BY <3>2, <3>3, <3>4, <3>5 DEF AboutUser, PhoneEvent
  <2>6. u \in mobile' <=> u \in mobile
    BY <2>1, <2>5 DEF AuthEffect
  <2>7. UserCount(u)
    BY <2>1, <2>3, <2>4 DEF CountInv, AuthEffect
  <2> QED
    BY <1>3, <2>3, <2>6, <2>7, SameCount
<1>5. CASE Take
  <2>1. /\ Len(inbox) \in Nat /\ Len(inbox) > 0 /\ Len(inbox') = Len(inbox) - 1
        /\ \A i \in 0..Len(inbox') : Event(i)' = Event(i + 1)
        /\ job'.step = "list" /\ job = Idle
        /\ UNCHANGED <<users, tenants, mobile, rows, sync, adrift>>
    BY <1>5, TakeEvents
  <2>2. CASE AboutUser(job.event, u)'
    BY <2>1, <2>2 DEF UserCount, Handled
  <2>3. CASE ~AboutUser(job.event, u)'
    <3>1. \A j \in 0..Len(inbox) : 1 < j => ~AboutUser(Event(j), u)
      BY <1>5, <2>1, TakeNoneAfter DEF NoneAfter
    <3>2. ~AboutUser(Event(1), u)
      <4>1. Event(0)' = Event(1)
        BY <2>1
      <4> QED
        BY <2>3, <4>1 DEF Event, AboutUser, PhoneEvent
    <3>3. NoneAfter(u, 0)
      <4>1. \A j \in 0..Len(inbox) : 0 < j => j = 1 \/ 1 < j
        BY <2>1
      <4> QED
        BY <3>1, <3>2, <4>1 DEF NoneAfter
    <3>4. UserCount(u) /\ ~AboutUser(job.event, u)
      BY <2>1, <3>3, NoEventAbout DEF CountInv, Idle
    <3> QED
      BY <1>3, <2>1, <2>3, <3>4 DEF UserCount, Right
  <2> QED
    BY <2>2, <2>3
<1>6. CASE Stop
  <2>1. \A j \in 0..Len(inbox) : 0 < j => ~AboutUser(Event(j), u)
    <3>1. ASSUME NEW j \in 0..Len(inbox), 0 < j PROVE ~AboutUser(Event(j), u)
      <4>1. j \in DOMAIN inbox /\ Event(j) = inbox[j]
        BY <3>1 DEF TypeOK, Event
      <4>2. inbox[j].about \in adrift'
        BY <1>6, <4>1 DEF Stop
      <4> QED
        BY <4>1, <4>2 DEF AboutUser, PhoneEvent
    <3> QED
      BY <3>1
  <2>2. UserCount(u) /\ UNCHANGED <<rows, mobile>> /\ job' = Idle
    BY <1>6, <2>1 DEF CountInv, NoneAfter, Stop, auth
  <2>3. ~AboutUser(job.event, u)
    BY <1>6 DEF Stop, AboutUser, PhoneEvent
  <2> QED
    BY <2>2, <2>3, LostCount
<1>7. CASE Calm /\ Clients
  <2>1. UNCHANGED job
    BY <1>7, ClientsEffect
  <2>2. \A s \in Subs : rows'[s] = rows[s] \/ (~MobileRow(s, u) /\ ~MobileRow(s, u)')
    BY <1>7, ClientsEffect
  <2>3. MobileRows(u)' = MobileRows(u)
    BY <2>2, Counted, CountedNext DEF MobileRow
  <2> QED
    BY <1>2, <1>7, <2>1, <2>3
<1>8. CASE Calm /\ Handle /\ ~Take
  BY <1>1, <1>8, HandleCount
<1>9. CASE Calm /\ HandlerFails
  <2>1. UNCHANGED <<rows, mobile>> /\ job' = Idle /\ job.event.about \in adrift'
    BY <1>9 DEF HandlerFails, auth
  <2>2. ~AboutUser(job.event, u)
    BY <2>1 DEF AboutUser, PhoneEvent
  <2> QED
    BY <1>1, <1>9, <2>1, <2>2, LostCount DEF Current
<1>10. CASE Calm /\ (Start \/ SyncTenants \/ SyncUsers \/ UNCHANGED vars)
  BY <1>2, <1>3, <1>10 DEF Start, SyncTenants, SyncUsers, vars
<1>11. CASE Calm /\ SyncRemove
  BY <1>1, <1>11, SyncCount
<1> QED
  BY <1>4, <1>5, <1>6, <1>7, <1>8, <1>9, <1>10, <1>11, CalmSteps DEF Next, Sync

LEMMA InitOne == Init => OneInv
<1> SUFFICES ASSUME Init PROVE OneInv
  OBVIOUS
<1>1. IInv /\ EventsInv
  BY InitIInv, InitEvents
<1>2. SyncInv
  BY DEF Init, SyncInv, NoSync
<1>3. \A s \in Subs : \A u : ~MobileRow(s, u)
  BY DEF Init, MobileRow
<1>4. OwnRows
  BY <1>3 DEF OwnRows
<1>5. CountInv
  <2>1. \A u : MobileRows(u) = {}
    BY <1>3, Counted
  <2> QED
    BY <2>1, NoEventAbout DEF Init, Idle, CountInv, UserCount, Right
<1> QED
  BY <1>1, <1>2, <1>4, <1>5 DEF OneInv

LEMMA NextOne == ASSUME OneInv, [Next]_vars PROVE OneInv'
<1> USE DEF OneInv
<1>1. IInv'
  BY NextIInv
<1>2. EventsInv' /\ SyncInv'
  BY EventsStep, SyncInvStep DEF IInv
<1> QED
  BY <1>1, <1>2, OwnRowsStep, CountStep

\* When the events are handled, every user with a registered phone has one mobile
\* subscription and every other user has none, but for those an event was lost
\* of or a client has written to a mobile row of (_ensure_mobile_subscription,
\* on_external_auth_deleted, _remove_user, remove_users).
THEOREM OneMobileKept == Spec => []OneMobileEach
<1>1. ASSUME OneInv, CaughtUp, NEW u \in Users, u \notin adrift, TenantOf[u] \in tenants
      PROVE  Cardinality(MobileRows(u)) = IF u \in mobile THEN 1 ELSE 0
  <2>1. NoneAfter(u, 0)
    BY <1>1 DEF CaughtUp, NoneAfter
  <2>2. ~AboutUser(job.event, u)
    BY <1>1, NoEventAbout DEF CaughtUp, Idle
  <2>3. Right(u)
    BY <1>1, <2>1, <2>2 DEF OneInv, CountInv, UserCount
  <2> QED
    BY <2>3, FS_EmptySet, FS_Singleton DEF Right
<1>2. OneInv => OneMobileEach
  BY <1>1 DEF OneMobileEach
<1> QED
  BY <1>2, InitOne, NextOne, PTL DEF Spec

=============================================================================
