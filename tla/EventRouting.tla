---------------------------- MODULE EventRouting ----------------------------
(***************************************************************************)
(* Which bus messages a subscription listens to: the AMQP headers a        *)
(* subscription binds with, and the test the consumer repeats on every     *)
(* message before it calls a handler                                       *)
(* (plugins/subscription/bus.py, bus.py).                                  *)
(*                                                                         *)
(* A subscription row is                                                   *)
(*   [events |-> set of event names, tenant |-> its owner tenant,          *)
(*    user |-> events_user_uuid or Nil, wazo |-> events_wazo_uuid or Nil]  *)
(* Binding headers are                                                     *)
(*   [sub |-> the x-subscription header, tenant |-> tenant_uuid or Nil,    *)
(*    users |-> the "user_uuid:..." keys, wazo |-> origin_uuid or Nil]     *)
(* A message is                                                            *)
(*   [event |-> its name, tenant |-> its tenant_uuid,                      *)
(*    users |-> its "user_uuid:..." keys, wazo |-> its origin_uuid]        *)
(***************************************************************************)
CONSTANTS MasterTenant,   \* the tenant that receives every tenant's events
          GlobalEvents,   \* {"global_voicemail_message_created"} in the code
          Everyone,       \* the "*" of the header "user_uuid:*"
          Nil             \* an absent value

\* Mutant: "user_uuid:None" for a subscription without events_user_uuid.
BuildHeadersOfNone(sub, row) ==
  [sub |-> sub, tenant |-> IF row.tenant = MasterTenant THEN Nil ELSE row.tenant,
   users |-> {row.user}, wazo |-> row.wazo]

\* Mutant: the headers do not name the subscription.
BuildHeadersUnnamed(sub, row) ==
  [sub |-> Nil, tenant |-> IF row.tenant = MasterTenant THEN Nil ELSE row.tenant,
   users |-> {row.user} \ {Nil}, wazo |-> row.wazo]

BuildHeaders(sub, row) ==
  [sub    |-> sub,
   tenant |-> IF row.tenant = MasterTenant THEN Nil ELSE row.tenant,
   users  |-> {row.user} \ {Nil},
   wazo   |-> row.wazo]

HandleTenantEvents(event, headers) ==
  IF event \in GlobalEvents THEN [headers EXCEPT !.users = {Everyone}]
                            ELSE headers

\* x-match = all over the headers the binding names; x- headers do not count.
CheckHeadersMatch(msg, headers) ==
  /\ headers.tenant \in {Nil, msg.tenant}
  /\ headers.users \subseteq msg.users
  /\ headers.wazo \in {Nil, msg.wazo}

=============================================================================
