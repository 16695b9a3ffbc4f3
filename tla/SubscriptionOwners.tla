--------------------------- MODULE SubscriptionOwners ---------------------------
(***************************************************************************)
(* Whose subscriptions the database holds.  Clients create, change and     *)
(* delete subscriptions for users and tenants of wazo-auth; the consumer's *)
(* thread handles the events of wazo-auth one by one, with a transaction   *)
(* for every row it deletes or creates: it keeps one mobile subscription   *)
(* for each user with a registered phone and removes the rows of removed   *)
(* users and tenants; and wazo-webhookd-sync-db, a process of its own,     *)
(* removes the rows the events have missed.                                *)
(***************************************************************************)
EXTENDS Naturals, Sequences, FiniteSets

CONSTANTS Subs,            \* subscription uuids
          Users, Tenants,
          TenantOf,        \* the tenant of a user
          VisibleTenants,  \* the tenants a tenant's tokens may see
          Bodies,          \* what an administrator may send
          MaxEvents,       \* bound on the events wazo-auth publishes
          Nil

\* The columns the removals look at; mobile stands for the metadatum
\* "mobile: true".
RowType == [tenant : Tenants, owner : Users \cup {Nil}, events : Users \cup {Nil},
            mobile : BOOLEAN]

ASSUME TenantsAssumption == /\ TenantOf \in [Users -> Tenants]
                            /\ VisibleTenants \in [Tenants -> SUBSET Tenants]
ASSUME BodiesAssumption  ==
  Bodies \subseteq [owner : Users \cup {Nil}, events : Users \cup {Nil}, mobile : BOOLEAN]
ASSUME BoundAssumption   == MaxEvents \in Nat
ASSUME NilAssumption     == Nil \notin Users \cup Tenants \cup RowType

VARIABLES
  users, tenants, \* those wazo-auth knows
  mobile,         \* the users with an external auth "mobile"
  published,      \* how many events wazo-auth has published
  inbox,          \* the consumer's queue
  up,             \* is webhookd running?
  rows,           \* the committed row of each subscription
  pending,        \* the row a request has flushed and not committed yet
  job,            \* what the consumer's thread does
  sync,           \* what sync_db does
  adrift          \* history: users and tenants whose rows cannot be expected
                  \* to be right, because an event about them was lost, or a
                  \* client wrote to their mobile rows or after their removal

vars == <<users, tenants, mobile, published, inbox, up, rows, pending, job, sync, adrift>>
auth == <<users, tenants, mobile, published>>

NoEvent   == [name |-> "none", about |-> Nil]
Idle      == [event |-> NoEvent, step |-> "idle", todo |-> {}]
NoPending == [sub |-> Nil, row |-> Nil]
NoSync    == [step |-> "idle", tenants |-> {}, users |-> {}]

Init ==
  /\ users = Users /\ tenants = Tenants /\ mobile = {} /\ published = 0
  /\ inbox = <<>>
  /\ up = TRUE
  /\ rows = [s \in Subs |-> Nil]
  /\ pending = NoPending
  /\ job = Idle
  /\ sync = NoSync
  /\ adrift = {}

-----------------------------------------------------------------------------
(***************************************************************************)
(* wazo-auth, with the other services that publish what happens to users.  *)
(***************************************************************************)
\* The consumer's queue disappears with the consumer: events are lost then.
Publish(name, about) ==
  /\ published < MaxEvents
  /\ published' = published + 1
  /\ IF up THEN /\ inbox' = Append(inbox, [name |-> name, about |-> about])
                /\ UNCHANGED adrift
           ELSE /\ adrift' = adrift \cup {about}
                /\ UNCHANGED inbox
  /\ UNCHANGED <<up, rows, pending, job, sync>>

RegisterPhone(u) ==
  /\ u \in users /\ TenantOf[u] \in tenants
  /\ mobile' = mobile \cup {u}
  /\ Publish(IF u \in mobile THEN "updated" ELSE "added", u)
  /\ UNCHANGED <<users, tenants>>

UnregisterPhone(u) ==
  /\ u \in mobile
  /\ mobile' = mobile \ {u}
  /\ Publish("deleted", u)
  /\ UNCHANGED <<users, tenants>>

RemoveUser(u) ==
  /\ u \in users
  /\ users' = users \ {u} /\ mobile' = mobile \ {u}
  /\ Publish("user_deleted", u)
  /\ UNCHANGED tenants

RemoveTenant(t) ==
  /\ t \in tenants
  /\ tenants' = tenants \ {t}
  /\ Publish("tenant_deleted", t)
  /\ UNCHANGED <<users, mobile>>

-----------------------------------------------------------------------------
(***************************************************************************)
(* The rows and the requests.  An update or a delete is one step: the row  *)
(* lock it takes makes it one for everybody else.                          *)
(***************************************************************************)
Named(row)  == {row.owner, row.events} \ {Nil}
Orphan(row) == row.tenant \notin tenants \/ ~(Named(row) \subseteq users)

Existing == {s \in Subs : rows[s] # Nil}

\* A client's write: what it does to mobile rows, and for users and tenants
\* that are gone, nobody is told.
Write(s, new) ==
  /\ rows' = [rows EXCEPT ![s] = new]
  /\ adrift' = adrift
       \cup (IF new # Nil /\ Orphan(new) THEN {new.tenant} \cup Named(new) ELSE {})
       \cup UNION {Named(r) : r \in {q \in {rows[s], new} \ {Nil} : q.mobile}}

UserRow(u, isMobile) ==
  [tenant |-> TenantOf[u], owner |-> u, events |-> u, mobile |-> isMobile]
AdminRow(t, b) ==
  [tenant |-> t, owner |-> b.owner, events |-> b.events, mobile |-> b.mobile]

\* A uuid that is new to everybody.
Fresh(s) == rows[s] = Nil /\ pending.sub # s /\ s \notin job.todo

\* Tokens are checked when the request arrives.
UserToken(u)  == up /\ u \in users /\ TenantOf[u] \in tenants
AdminToken(t) == up /\ t \in tenants

Flush(s, row) ==
  /\ pending = NoPending /\ Fresh(s)
  /\ pending' = [sub |-> s, row |-> row]
  /\ UNCHANGED <<auth, inbox, up, rows, job, sync, adrift>>

UserPost(u, s, isMobile) == UserToken(u) /\ Flush(s, UserRow(u, isMobile))
AdminPost(t, s, b)       == AdminToken(t) /\ Flush(s, AdminRow(t, b))

Commit ==
  /\ pending # NoPending
  /\ Write(pending.sub, pending.row)
  /\ pending' = NoPending
  /\ UNCHANGED <<auth, inbox, up, job, sync>>

Rollback ==
  /\ pending # NoPending
  /\ pending' = NoPending
  /\ UNCHANGED <<auth, inbox, up, rows, job, sync, adrift>>

\* _get: a user sees the rows it owns, an administrator those of the tenants
\* its tenant may see.
SeenByUser(u)  == {s \in Existing : rows[s].owner = u /\ rows[s].tenant = TenantOf[u]}
SeenByAdmin(t) == {s \in Existing : rows[s].tenant \in VisibleTenants[t]}

\* Mutant: the schema of a user's subscription has no events_user_uuid, and
\* from_schema takes what it is not given for None.
UserPutClears(u, s, isMobile) ==
  /\ UserToken(u) /\ s \in SeenByUser(u)
  /\ Write(s, [rows[s] EXCEPT !.tenant = Nil, !.mobile = isMobile])
  /\ UNCHANGED <<auth, inbox, up, pending, job, sync>>

\* A user's PUT leaves the tenant, the owner and the events' user alone.
UserPut(u, s, isMobile) ==
  /\ UserToken(u) /\ s \in SeenByUser(u)
  /\ Write(s, [rows[s] EXCEPT !.mobile = isMobile])
  /\ UNCHANGED <<auth, inbox, up, pending, job, sync>>

\* An administrator's PUT moves the row to the tenant of the token.
AdminPut(t, s, b) ==
  /\ AdminToken(t) /\ s \in SeenByAdmin(t)
  /\ Write(s, AdminRow(t, b))
  /\ UNCHANGED <<auth, inbox, up, pending, job, sync>>

Delete(s) ==
  /\ \/ \E u \in Users : UserToken(u) /\ s \in SeenByUser(u)
     \/ \E t \in Tenants : AdminToken(t) /\ s \in SeenByAdmin(t)
  /\ Write(s, Nil)
  /\ UNCHANGED <<auth, inbox, up, pending, job, sync>>

-----------------------------------------------------------------------------
(***************************************************************************)
(* The handlers, in the consumer's thread.                                 *)
(***************************************************************************)
\* What list returns for the filters the handlers use.
Owned(u)      == {s \in Existing : rows[s].owner = u}
Watching(u)   == {s \in Existing : rows[s].events = u}
InTenant(t)   == {s \in Existing : rows[s].tenant = t}
MobileRows(u) == {s \in Owned(u) \cap InTenant(TenantOf[u]) : rows[s].mobile}

OnMobile == job.event.name \in {"added", "updated", "deleted"}
Over(ss) == job' = IF ss = {} THEN Idle ELSE [job EXCEPT !.step = "delete", !.todo = ss]

Take ==
  /\ up /\ job = Idle /\ inbox # <<>>
  /\ job' = [event |-> Head(inbox), step |-> "list", todo |-> {}]
  /\ inbox' = Tail(inbox)
  /\ UNCHANGED <<auth, up, rows, pending, sync, adrift>>

\* Mutant: the mobile row found is replaced by a new one.
EnsureAnother ==
  /\ job.step = "list" /\ job.event.name \in {"added", "updated"}
  /\ job' = [job EXCEPT !.step = "create"]
  /\ UNCHANGED <<auth, inbox, up, rows, pending, sync, adrift>>

\* _ensure_mobile_subscription: none is created, one is kept, of many the
\* first one, in the order the database happens to list them.
Ensure ==
  LET found == MobileRows(job.event.about) IN
  /\ job.step = "list" /\ job.event.name \in {"added", "updated"}
  /\ IF found = {} THEN job' = [job EXCEPT !.step = "create"]
                   ELSE \E first \in found : Over(found \ {first})
  /\ UNCHANGED <<auth, inbox, up, rows, pending, sync, adrift>>

\* on_external_auth_deleted.
ListMobile ==
  /\ job.step = "list" /\ job.event.name = "deleted"
  /\ Over(MobileRows(job.event.about))
  /\ UNCHANGED <<auth, inbox, up, rows, pending, sync, adrift>>

\* _remove_tenant.
ListTenant ==
  /\ job.step = "list" /\ job.event.name = "tenant_deleted"
  /\ Over(InTenant(job.event.about))
  /\ UNCHANGED <<auth, inbox, up, rows, pending, sync, adrift>>

\* Mutant: only the rows the user owns.
ListOwned ==
  /\ job.step = "list" /\ job.event.name = "user_deleted"
  /\ Over(Owned(job.event.about))
  /\ UNCHANGED <<auth, inbox, up, rows, pending, sync, adrift>>

\* _remove_user reads twice.
ListOwner ==
  /\ job.step = "list" /\ job.event.name = "user_deleted"
  /\ job' = [job EXCEPT !.step = "watching", !.todo = Owned(job.event.about)]
  /\ UNCHANGED <<auth, inbox, up, rows, pending, sync, adrift>>

ListWatching ==
  /\ job.step = "watching"
  /\ Over(job.todo \cup Watching(job.event.about))
  /\ UNCHANGED <<auth, inbox, up, rows, pending, sync, adrift>>

CreateMobile(s) ==
  /\ job.step = "create" /\ Fresh(s)
  /\ rows' = [rows EXCEPT ![s] = UserRow(job.event.about, TRUE)]
  /\ job' = Idle
  /\ UNCHANGED <<auth, inbox, up, pending, sync, adrift>>

\* A row that is gone in the meantime: the removals go on, the handlers of the
\* mobile events let NoSuchSubscription end them.
DeleteNext(s) ==
  /\ job.step = "delete" /\ s \in job.todo
  /\ rows' = [rows EXCEPT ![s] = Nil]
  /\ Over(IF rows[s] = Nil /\ OnMobile THEN {} ELSE job.todo \ {s})
  /\ UNCHANGED <<auth, inbox, up, pending, sync, adrift>>

\* Any other exception ends the handler; the message is acknowledged.
HandlerFails ==
  /\ job # Idle
  /\ job' = Idle
  /\ adrift' = adrift \cup {job.event.about}
  /\ UNCHANGED <<auth, inbox, up, rows, pending, sync>>

\* webhookd stops, and with it its queue, its requests and its handler.
Stop ==
  /\ up
  /\ up' = FALSE
  /\ inbox' = <<>> /\ pending' = NoPending /\ job' = Idle
  /\ adrift' = adrift \cup {inbox[i].about : i \in DOMAIN inbox}
                      \cup ({job.event.about} \ {Nil})
  /\ UNCHANGED <<auth, rows, sync>>

Start == ~up /\ up' = TRUE
         /\ UNCHANGED <<auth, inbox, rows, pending, job, sync, adrift>>

-----------------------------------------------------------------------------
(***************************************************************************)
(* wazo-webhookd-sync-db.                                                  *)
(***************************************************************************)
SyncTenants ==
  /\ sync.step = "idle"
  /\ sync' = [sync EXCEPT !.step = "users", !.tenants = tenants]
  /\ UNCHANGED <<auth, inbox, up, rows, pending, job, adrift>>

SyncUsers ==
  /\ sync.step = "users"
  /\ sync' = [sync EXCEPT !.step = "remove", !.users = users]
  /\ UNCHANGED <<auth, inbox, up, rows, pending, job, adrift>>

\* Mutant: only the tenants and the owners are looked at.
UnknownOwner(row) == row.tenant \notin sync.tenants \/ row.owner \notin sync.users \cup {Nil}

Unknown(row) == row.tenant \notin sync.tenants \/ ~(Named(row) \subseteq sync.users)

\* remove_tenants and remove_users, one transaction.
SyncRemove ==
  /\ sync.step = "remove"
  /\ rows' = [s \in Subs |-> IF rows[s] # Nil /\ Unknown(rows[s]) THEN Nil ELSE rows[s]]
  /\ sync' = NoSync
  /\ UNCHANGED <<auth, inbox, up, pending, job, adrift>>

-----------------------------------------------------------------------------
WazoAuth == \/ \E u \in Users : RegisterPhone(u) \/ UnregisterPhone(u) \/ RemoveUser(u)
            \/ \E t \in Tenants : RemoveTenant(t)

Clients == \/ \E u \in Users, s \in Subs, m \in BOOLEAN : UserPost(u, s, m) \/ UserPut(u, s, m)
           \/ \E t \in Tenants, s \in Subs, b \in Bodies : AdminPost(t, s, b) \/ AdminPut(t, s, b)
           \/ \E s \in Subs : Delete(s)
           \/ Commit \/ Rollback

Handle == \/ Take \/ Ensure \/ ListMobile \/ ListTenant \/ ListOwner \/ ListWatching
          \/ \E s \in Subs : CreateMobile(s) \/ DeleteNext(s)

Sync == SyncTenants \/ SyncUsers \/ SyncRemove

Next == WazoAuth \/ Clients \/ Handle \/ HandlerFails \/ Stop \/ Start \/ Sync

Spec == Init /\ [][Next]_vars

\* Somebody runs wazo-webhookd-sync-db from time to time.
FairSpec == Spec /\ WF_vars(Sync)

-----------------------------------------------------------------------------
EventType == [name : {"added", "updated", "deleted", "user_deleted"}, about : Users]
        \cup [name : {"tenant_deleted"}, about : Tenants]

\* Types; a row always belongs to a tenant, and a handler has rows to delete only
\* while it deletes or lists them.
TypeOK ==
  /\ users \subseteq Users /\ tenants \subseteq Tenants /\ mobile \subseteq users
  /\ published \in 0..MaxEvents
  /\ inbox \in Seq(EventType)
  /\ up \in BOOLEAN
  /\ rows \in [Subs -> RowType \cup {Nil}]
  /\ pending \in [sub : Subs, row : RowType] \cup {NoPending}
  /\ job \in [event : EventType, step : {"list", "create"}, todo : {{}}]
        \cup [event : EventType, step : {"watching", "delete"}, todo : SUBSET Subs]
        \cup {Idle}
  /\ sync \in [step : {"idle", "users", "remove"}, tenants : SUBSET Tenants,
               users : SUBSET Users]
  /\ adrift \subseteq Users \cup Tenants

\* webhookd has handled all that wazo-auth has published.
CaughtUp == up /\ inbox = <<>> /\ job = Idle

\* A user has one mobile subscription while it has a registered phone, and none
\* otherwise ("Create or update mobile subscription for a user, ensuring only
\* one exists"), once the events are handled and unless one was lost or a client
\* has written to such a row.
OneMobileEach ==
  CaughtUp => \A u \in Users \ adrift :
    TenantOf[u] \in tenants \ adrift =>
      Cardinality(MobileRows(u)) = IF u \in mobile THEN 1 ELSE 0

\* No row refers to a removed user or tenant once the events are handled, unless
\* one was lost or a client has written the row after the removal.
RemovedLeaveNoRow ==
  CaughtUp => \A s \in Existing : Orphan(rows[s]) =>
    (({rows[s].tenant} \ tenants) \cup (Named(rows[s]) \ users)) \cap adrift # {}

\* Whatever was lost, sync_db gets rid of the rows of removed users and tenants.
OrphansSwept == []<>(\A s \in Existing : ~Orphan(rows[s]))

=============================================================================
