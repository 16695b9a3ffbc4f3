------------------------- MODULE SubscriptionRegistry -------------------------
(***************************************************************************)
(* The subscriptions of wazo-webhookd in their three copies: the rows of   *)
(* the database (SubscriptionService), the dictionary of callbacks         *)
(* (SubscriptionBusEventHandler) and the handlers and queue bindings of    *)
(* the bus consumer.  A request changes all three inside one database      *)
(* transaction, but not atomically: any other thread may run between two   *)
(* of its steps, and a step may fail.                                      *)
(*                                                                         *)
(* Every request is an element of Ops and runs in a thread of its own; at  *)
(* start-up one more thread, Boot, registers the rows found in the         *)
(* database once wazo-auth has given a token.                              *)
(***************************************************************************)
EXTENDS EventRouting, Sequences

CONSTANTS Ops,            \* the requests
          Boot,           \* the thread of the token renewer
          Subs,           \* subscription uuids
          Events,         \* event names
          Tenants, Users, Wazos,
          Bodies,         \* what the body of a request may ask for
          Messages,       \* the messages the bus may deliver
          Kinds,          \* the requests clients make
          Faults,         \* what the environment may do, see below
          MasterInConfig  \* is auth.master_tenant_uuid configured?

(***************************************************************************)
(* "overlap"  two updates, or two deletes, of one subscription overlap     *)
(* "cross"    an update and a delete of one subscription overlap           *)
(* "notifier" the notification or the commit of a request raises           *)
(* "bus"      the consumer's connection to the exchange cannot be opened   *)
(* "early"    requests are served before Boot has ended                    *)
(***************************************************************************)
ASSUME FaultsAssumption == Faults \subseteq {"overlap", "cross", "notifier", "bus", "early"}
ASSUME KindsAssumption  == Kinds \subseteq {"create", "update", "delete"}

\* The rows of the table, of which only what tells messages apart is modelled.
Rows == [events : SUBSET Events, tenant : Tenants,
         user : Users \cup {Nil}, wazo : Wazos \cup {Nil}]
Writers == [Events -> Ops \cup {Boot}]

ASSUME BodiesAssumption == Bodies \subseteq Rows
ASSUME BootAssumption   == Boot \notin Ops

Threads == Ops \cup {Boot}

ASSUME NilAssumption    == /\ Nil \notin Subs \cup Ops \cup Tenants
                           /\ Nil \notin [by : Threads, sub : Subs, row : Rows]
                           /\ Nil \notin [row : Rows, by : Writers]

VARIABLES
  db,         \* the committed row of each subscription, and who inserted its events
  rowLock,    \* the update whose flushed transaction holds the row
  callbacks,  \* _subscription_callbacks
  handlers,   \* the consumer's subscriptions: event, callback, headers
  bindings,   \* the bindings of the consumer's queue in RabbitMQ
  pc,         \* where each thread is
  req,        \* the request of each thread
  seen,       \* the row an update read
  prev,       \* the entry a thread popped from callbacks
  headers,    \* the local variable of _update
  todo,       \* the events a thread has still to go through
  calls,      \* the calls to the consumer still due for the current event
  backlog     \* the rows Boot has still to register

vars == <<db, rowLock, callbacks, handlers, bindings, pc, req, seen, prev,
          headers, todo, calls, backlog>>

registry == <<callbacks, handlers, bindings>>
loop     == <<prev, headers, todo, calls>>

-----------------------------------------------------------------------------
Request(kind, sub, row) == [kind |-> kind, sub |-> sub, row |-> row]

\* partial(self._callback, data): two partials are equal only when they are
\* the same object, so the thread that made it is part of a callback.
Callback(t, q) == [by |-> t, sub |-> q.sub, row |-> q.row]

EmptyEntry == [fn |-> Nil, headers |-> Nil]
EventsOf(entry) == IF entry.fn = Nil THEN {} ELSE entry.fn.row.events

\* _build_headers raises until the uuid of the master tenant is known.
MasterKnown == MasterInConfig \/ pc[Boot] # "waiting"

\* Requests are served before the token only under "early", and two requests
\* share a subscription only under "overlap" and "cross".
Served == "early" \in Faults \/ pc[Boot] = "done"
Alone(s, kind) ==
  \A o \in Ops : req[o].sub = s /\ pc[o] # "done" =>
    (IF req[o].kind = kind THEN "overlap" ELSE "cross") \in Faults

Init ==
  /\ db \in [Subs -> {[row |-> r, by |-> [e \in Events |-> Boot]] : r \in Bodies} \cup {Nil}]
  /\ rowLock = [s \in Subs |-> Nil]
  /\ callbacks = [s \in Subs |-> EmptyEntry]
  /\ handlers = {}
  /\ bindings = {}
  /\ pc = [t \in Threads |-> IF t = Boot THEN "waiting" ELSE "ready"]
  /\ req = [t \in Threads |-> Request(Nil, Nil, Nil)]
  /\ seen = [o \in Ops |-> Nil]
  /\ prev = [t \in Threads |-> EmptyEntry]
  /\ headers = [t \in Threads |-> Nil]
  /\ todo = [t \in Threads |-> {}]
  /\ calls = [t \in Threads |-> <<>>]
  /\ backlog = {}

-----------------------------------------------------------------------------
(***************************************************************************)
(* SubscriptionService: the transaction around each request.               *)
(***************************************************************************)
Goto(t, label) == pc' = [pc EXCEPT ![t] = label]

\* create: the row is flushed, so it has its uuid, but nobody else sees it.
CreateFlush(o, s, r) ==
  /\ "create" \in Kinds /\ Served
  /\ pc[o] = "ready"
  /\ db[s] = Nil /\ \A p \in Ops : req[p].sub # s
  /\ req' = [req EXCEPT ![o] = Request("create", s, r)]
  /\ Goto(o, "publish")
  /\ UNCHANGED <<db, rowLock, registry, seen, loop, backlog>>

\* update: _get.  (Without a row it raises NoSuchSubscription: no effect.)
UpdateGet(o, s, r) ==
  /\ "update" \in Kinds /\ Served
  /\ pc[o] = "ready"
  /\ db[s] # Nil /\ Alone(s, "update")
  /\ req' = [req EXCEPT ![o] = Request("update", s, r)]
  /\ seen' = [seen EXCEPT ![o] = db[s]]
  /\ Goto(o, "flush")
  /\ UNCHANGED <<db, rowLock, registry, loop, backlog>>

\* The events of the row that other updates have inserted since _get: the first
\* flush of o does not delete them, as it knows those it has read only.
Survivors(o) ==
  LET is == db[req[o].sub]  was == seen[o] IN
  IF is = Nil \/ was = Nil THEN {}
  ELSE {e \in is.row.events : e \notin was.row.events \/ is.by[e] # was.by[e]}

\* The row after the flushes of o, which it reads back before it publishes.  A
\* column that the body leaves as o has read it is not written.
Flushed(o) ==
  LET is == db[req[o].sub].row  was == seen[o].row  body == req[o].row
      Column(c) == IF body[c] = was[c] THEN is[c] ELSE body[c]
  IN  [events |-> body.events \cup Survivors(o), tenant |-> Column("tenant"),
       user |-> Column("user"), wazo |-> Column("wazo")]

Flush(o) == /\ rowLock' = [rowLock EXCEPT ![req[o].sub] = o]
            /\ req' = [req EXCEPT ![o] = Request("update", req[o].sub, Flushed(o))]
            /\ Goto(o, "publish")

\* Mutant: the flush does not wait for the update that holds the row.
UpdateFlushUnlocked(o) ==
  LET s == req[o].sub IN
  /\ pc[o] = "flush"
  /\ \/ /\ db[s] # Nil /\ Survivors(o) \cap req[o].row.events = {}
        /\ Flush(o)
     \/ /\ db[s] # seen[o]
        /\ Goto(o, "done") /\ UNCHANGED <<rowLock, req>>
  /\ UNCHANGED <<db, registry, seen, loop, backlog>>

\* update: both flushes.  They wait for the update that holds the row.  When
\* the row changed since _get, an event of the body collides with one that the
\* other update inserted, or an option does (which the model does not show; those
\* the http service must have do always), or the row is gone: the flush raises.
UpdateFlush(o) ==
  LET s == req[o].sub IN
  /\ pc[o] = "flush"
  /\ rowLock[s] = Nil
  /\ \/ /\ db[s] # Nil /\ Survivors(o) \cap req[o].row.events = {}
        /\ Flush(o)
     \/ /\ db[s] # seen[o]
        /\ Goto(o, "done") /\ UNCHANGED <<rowLock, req>>
  /\ UNCHANGED <<db, registry, seen, loop, backlog>>

\* delete: _get and session.delete, which waits for the commit to be flushed.
DeleteGet(o, s) ==
  /\ "delete" \in Kinds /\ Served
  /\ pc[o] = "ready"
  /\ db[s] # Nil /\ Alone(s, "delete")
  /\ req' = [req EXCEPT ![o] = Request("delete", s, db[s].row)]
  /\ Goto(o, "publish")
  /\ UNCHANGED <<db, rowLock, registry, seen, loop, backlog>>

\* Who inserted the events of the row that o commits.
Inserted(o) ==
  [e \in Events |-> IF e \in Survivors(o) THEN db[req[o].sub].by[e] ELSE o]

Unlocked(o) == [s \in Subs |-> IF rowLock[s] = o THEN Nil ELSE rowLock[s]]

\* The notifier has published and the transaction commits; the DELETE of a
\* removed subscription waits for the update that holds its row.
Commit(o) ==
  LET s == req[o].sub IN
  /\ pc[o] = "notify"
  /\ req[o].kind = "delete" => rowLock[s] = Nil
  /\ db' = [db EXCEPT ![s] =
              IF req[o].kind = "delete" THEN Nil
                                        ELSE [row |-> req[o].row, by |-> Inserted(o)]]
  /\ rowLock' = Unlocked(o)
  /\ Goto(o, "done")
  /\ UNCHANGED <<registry, req, seen, loop, backlog>>

\* Mutant: the session is left without a rollback.
RollbackForgotten(o) ==
  /\ "notifier" \in Faults
  /\ pc[o] = "notify"
  /\ Goto(o, "done")
  /\ UNCHANGED <<db, rowLock, registry, req, seen, loop, backlog>>

\* The notifier or the commit raises: rw_session rolls back.
Rollback(o) ==
  /\ "notifier" \in Faults
  /\ pc[o] = "notify"
  /\ rowLock' = Unlocked(o)
  /\ Goto(o, "done")
  /\ UNCHANGED <<db, registry, req, seen, loop, backlog>>

-----------------------------------------------------------------------------
(***************************************************************************)
(* SubscriptionBusEventHandler, called in the middle of the transaction.   *)
(* The publisher swallows what a callback raises, so whatever happens here *)
(* the request goes on to the notifier.                                    *)
(***************************************************************************)
\* _register under the lock: an entry already there is overwritten.
Register(t, q) ==
  LET h == BuildHeaders(q.sub, q.row) IN
  /\ callbacks' = [callbacks EXCEPT ![q.sub] = [fn |-> Callback(t, q), headers |-> h]]
  /\ headers' = [headers EXCEPT ![t] = h]
  /\ todo' = [todo EXCEPT ![t] = q.row.events]
  /\ Goto(t, "loop")

Created(o) ==
  /\ pc[o] = "publish" /\ req[o].kind = "create"
  /\ IF MasterKnown
       THEN Register(o, req[o])
       ELSE Goto(o, "notify") /\ UNCHANGED <<callbacks, headers, todo>>
  /\ UNCHANGED <<db, rowLock, handlers, bindings, req, seen, prev, calls, backlog>>

\* Mutant: _unregister reads the entry without popping it.
DeletedNotPopped(o) ==
  /\ pc[o] = "publish" /\ req[o].kind = "delete"
  /\ prev' = [prev EXCEPT ![o] = callbacks[req[o].sub]]
  /\ todo' = [todo EXCEPT ![o] = EventsOf(callbacks[req[o].sub])]
  /\ Goto(o, "loop")
  /\ UNCHANGED <<db, rowLock, registry, req, seen, headers, calls, backlog>>

\* _unregister under the lock: pop with EMPTY_SUBSCRIPTION_CALLBACK.
Deleted(o) ==
  LET s == req[o].sub IN
  /\ pc[o] = "publish" /\ req[o].kind = "delete"
  /\ prev' = [prev EXCEPT ![o] = callbacks[s]]
  /\ callbacks' = [callbacks EXCEPT ![s] = EmptyEntry]
  /\ todo' = [todo EXCEPT ![o] = EventsOf(callbacks[s])]
  /\ Goto(o, "loop")
  /\ UNCHANGED <<db, rowLock, handlers, bindings, req, seen, headers, calls,
                 backlog>>

\* Mutants: _update keeps the headers of the entry it popped; it goes through
\* the new events only.
UpdatedStaleHeaders(o) ==
  LET s == req[o].sub IN
  /\ pc[o] = "publish" /\ req[o].kind = "update"
  /\ IF MasterKnown /\ callbacks[s] # EmptyEntry
       THEN /\ prev' = [prev EXCEPT ![o] = callbacks[s]]
            /\ callbacks' = [callbacks EXCEPT ![s] = EmptyEntry]
            /\ headers' = [headers EXCEPT ![o] = callbacks[s].headers]
            /\ todo' = [todo EXCEPT ![o] = EventsOf(callbacks[s]) \cup req[o].row.events]
            /\ Goto(o, "loop")
       ELSE Goto(o, "notify") /\ UNCHANGED <<prev, callbacks, headers, todo>>
  /\ UNCHANGED <<db, rowLock, handlers, bindings, req, seen, calls, backlog>>

UpdatedNewEventsOnly(o) ==
  LET s == req[o].sub IN
  /\ pc[o] = "publish" /\ req[o].kind = "update"
  /\ IF MasterKnown /\ callbacks[s] # EmptyEntry
       THEN /\ prev' = [prev EXCEPT ![o] = callbacks[s]]
            /\ callbacks' = [callbacks EXCEPT ![s] = EmptyEntry]
            /\ headers' = [headers EXCEPT ![o] = BuildHeaders(s, req[o].row)]
            /\ todo' = [todo EXCEPT ![o] = req[o].row.events]
            /\ Goto(o, "loop")
       ELSE Goto(o, "notify") /\ UNCHANGED <<prev, callbacks, headers, todo>>
  /\ UNCHANGED <<db, rowLock, handlers, bindings, req, seen, calls, backlog>>

\* _update up to the loop: the pop has no default and raises KeyError.
Updated(o) ==
  LET s == req[o].sub IN
  /\ pc[o] = "publish" /\ req[o].kind = "update"
  /\ IF MasterKnown /\ callbacks[s] # EmptyEntry
       THEN /\ prev' = [prev EXCEPT ![o] = callbacks[s]]
            /\ callbacks' = [callbacks EXCEPT ![s] = EmptyEntry]
            /\ headers' = [headers EXCEPT ![o] = BuildHeaders(s, req[o].row)]
            /\ todo' = [todo EXCEPT ![o] = EventsOf(callbacks[s]) \cup req[o].row.events]
            /\ Goto(o, "loop")
       ELSE /\ Goto(o, "notify")
            /\ UNCHANGED <<prev, callbacks, headers, todo>>
  /\ UNCHANGED <<db, rowLock, handlers, bindings, req, seen, calls, backlog>>

Sub(e, h) == [do |-> "subscribe", event |-> e, headers |-> h]
Unsub(e)  == [do |-> "unsubscribe", event |-> e, headers |-> Nil]

\* Mutant: the callback is replaced by subscribing first, whatever changed.
UpdateCallsSubscribeFirst(t, e, h) ==
  IF e \notin req[t].row.events      THEN <<Unsub(e)>>
  ELSE IF e \notin EventsOf(prev[t]) THEN <<Sub(e, h)>>
  ELSE                                    <<Sub(e, h), Unsub(e)>>

\* The calls a turn of _update makes for event e, with h its headers: removed
\* events, newly added event, headers changed, only update callback.
UpdateCalls(t, e, h) ==
  IF e \notin req[t].row.events         THEN <<Unsub(e)>>
  ELSE IF e \notin EventsOf(prev[t])    THEN <<Sub(e, h)>>
  ELSE IF h # prev[t].headers           THEN <<Sub(e, h), Unsub(e)>>
  ELSE                                       <<Unsub(e), Sub(e, h)>>

\* The calls a turn of any of the three loops makes.
CallsFor(t, e, h) ==
  CASE req[t].kind = "delete" -> <<Unsub(e)>>
    [] req[t].kind = "update" -> UpdateCalls(t, e, h)
    [] OTHER                  -> <<Sub(e, h)>>

\* A turn of a loop.  _update assigns the headers of the event to the local
\* variable it reads them from; _register does not.
Turn(t, e) ==
  LET h == HandleTenantEvents(e, headers[t]) IN
  /\ pc[t] = "loop" /\ calls[t] = <<>>
  /\ e \in todo[t]
  /\ todo' = [todo EXCEPT ![t] = @ \ {e}]
  /\ calls' = [calls EXCEPT ![t] =
                 CallsFor(t, e, IF req[t].kind = "delete" THEN Nil ELSE h)]
  /\ headers' = IF req[t].kind = "update" THEN [headers EXCEPT ![t] = h]
                                          ELSE headers
  /\ UNCHANGED <<db, rowLock, registry, pc, req, seen, prev, backlog>>

\* ConsumerMixin.subscribe: RabbitMQ keeps one binding for equal arguments.
Subscribe(t) ==
  LET c == Head(calls[t]) IN
  /\ calls[t] # <<>> /\ c.do = "subscribe"
  /\ handlers' = handlers \cup
       {[event |-> c.event, fn |-> Callback(t, req[t]), headers |-> c.headers]}
  /\ bindings' = bindings \cup {[event |-> c.event, headers |-> c.headers]}
  /\ calls' = [calls EXCEPT ![t] = Tail(@)]
  /\ UNCHANGED <<db, rowLock, callbacks, pc, req, seen, prev, headers, todo,
                 backlog>>

\* The connection to the exchange raises: the rest of the loop is skipped.
SubscribeRaises(t) ==
  /\ "bus" \in Faults
  /\ calls[t] # <<>> /\ Head(calls[t]).do = "subscribe"
  /\ calls' = [calls EXCEPT ![t] = <<>>]
  /\ todo' = [todo EXCEPT ![t] = {}]
  /\ IF t = Boot THEN Goto(t, "done") /\ backlog' = {}
                 ELSE Goto(t, "notify") /\ UNCHANGED backlog
  /\ UNCHANGED <<db, rowLock, registry, req, seen, prev, headers>>

\* ConsumerMixin.unsubscribe: the handler goes and its binding is unbound.
Unsubscribe(t) ==
  LET gone == {h \in handlers : /\ h.event = Head(calls[t]).event
                                /\ h.fn = prev[t].fn} IN
  /\ calls[t] # <<>> /\ Head(calls[t]).do = "unsubscribe"
  /\ handlers' = handlers \ gone
  /\ bindings' = bindings \ {[event |-> h.event, headers |-> h.headers] : h \in gone}
  /\ calls' = [calls EXCEPT ![t] = Tail(@)]
  /\ UNCHANGED <<db, rowLock, callbacks, pc, req, seen, prev, headers, todo,
                 backlog>>

\* The loop has ended; _update stores its entry under the lock.
LoopEnds(t) ==
  /\ pc[t] = "loop" /\ todo[t] = {} /\ calls[t] = <<>>
  /\ callbacks' = IF req[t].kind = "update"
                    THEN [callbacks EXCEPT ![req[t].sub] =
                            [fn |-> Callback(t, req[t]), headers |-> headers[t]]]
                    ELSE callbacks
  /\ Goto(t, IF t = Boot THEN "next" ELSE "notify")
  /\ UNCHANGED <<db, rowLock, handlers, bindings, req, seen, loop, backlog>>

-----------------------------------------------------------------------------
(***************************************************************************)
(* Boot: the token renewer's thread, once it has a token.                  *)
(***************************************************************************)
\* init_master_tenant runs first: from here on the master tenant is known.
TokenReceived ==
  /\ pc[Boot] = "waiting"
  /\ Goto(Boot, "list")
  /\ UNCHANGED <<db, rowLock, registry, req, seen, loop, backlog>>

\* subscribe: service.list().
BootList ==
  /\ pc[Boot] = "list"
  /\ backlog' = {[sub |-> s, row |-> db[s].row] : s \in {x \in Subs : db[x] # Nil}}
  /\ Goto(Boot, "next")
  /\ UNCHANGED <<db, rowLock, registry, req, seen, loop>>

BootRegister(b) ==
  /\ pc[Boot] = "next" /\ b \in backlog
  /\ req' = [req EXCEPT ![Boot] = Request("boot", b.sub, b.row)]
  /\ Register(Boot, Request("boot", b.sub, b.row))
  /\ backlog' = backlog \ {b}
  /\ UNCHANGED <<db, rowLock, handlers, bindings, seen, prev, calls>>

BootEnds ==
  /\ pc[Boot] = "next" /\ backlog = {}
  /\ Goto(Boot, "done")
  /\ UNCHANGED <<db, rowLock, registry, req, seen, loop, backlog>>

-----------------------------------------------------------------------------
BusCall(t) == Subscribe(t) \/ Unsubscribe(t)

Step(o) ==
  \/ UpdateFlush(o) \/ Created(o) \/ Updated(o) \/ Deleted(o)
  \/ \E e \in Events : Turn(o, e)
  \/ BusCall(o) \/ LoopEnds(o) \/ Commit(o)

BootStep ==
  \/ TokenReceived \/ BootList \/ BootEnds
  \/ \E b \in backlog : BootRegister(b)
  \/ \E e \in Events : Turn(Boot, e)
  \/ BusCall(Boot) \/ LoopEnds(Boot)

Requested(o) ==
  \E s \in Subs :
    \/ \E r \in Bodies : CreateFlush(o, s, r) \/ UpdateGet(o, s, r)
    \/ DeleteGet(o, s)

\* All requests so far are answered: the daemon waits.
Idle == /\ \A t \in Threads : pc[t] \in {"ready", "done"}
        /\ UNCHANGED vars

Next ==
  \/ Idle
  \/ BootStep \/ SubscribeRaises(Boot)
  \/ \E o \in Ops : Requested(o) \/ Step(o) \/ Rollback(o) \/ SubscribeRaises(o)

Spec == Init /\ [][Next]_vars

\* Threads are scheduled and the calls they make return; nothing makes a
\* client send a request.
Fairness == /\ WF_vars(BootStep)
            /\ \A o \in Ops : WF_vars(Step(o))

FairSpec == Spec /\ Fairness

-----------------------------------------------------------------------------
(***************************************************************************)
(* Types.                                                                  *)
(***************************************************************************)
HeaderType == [sub : Subs, tenant : Tenants \cup {Nil},
               users : SUBSET (Users \cup {Everyone}), wazo : Wazos \cup {Nil}]
CallbackType == [by : Threads, sub : Subs, row : Rows]
EntryType == [fn : CallbackType, headers : HeaderType] \cup {EmptyEntry}
CallType == [do : {"subscribe"}, event : Events, headers : HeaderType]
              \cup {Unsub(e) : e \in Events}
RequestType == [kind : {"create", "update", "delete", "boot"},
                sub : Subs, row : Rows] \cup {Request(Nil, Nil, Nil)}

\* Every variable keeps its type; in particular a thread that runs a request
\* always has the subscription and the row the code's locals would have.
TypeOK ==
  /\ db \in [Subs -> [row : Rows, by : Writers] \cup {Nil}]
  /\ rowLock \in [Subs -> Ops \cup {Nil}]
  /\ callbacks \in [Subs -> EntryType]
  /\ handlers \subseteq [event : Events, fn : CallbackType, headers : HeaderType]
  /\ bindings \subseteq [event : Events, headers : HeaderType]
  /\ pc \in [Threads -> {"waiting", "list", "next", "ready", "flush", "publish",
                         "loop", "notify", "done"}]
  /\ req \in [Threads -> RequestType]
  /\ seen \in [Ops -> [row : Rows, by : Writers] \cup {Nil}]
  /\ prev \in [Threads -> EntryType]
  /\ headers \in [Threads -> HeaderType \cup {Nil}]
  /\ todo \in [Threads -> SUBSET Events]
  /\ calls \in [Threads -> Seq(CallType)]
  /\ backlog \subseteq [sub : Subs, row : Rows]

-----------------------------------------------------------------------------
(***************************************************************************)
(* Safety.                                                                 *)
(***************************************************************************)
Matching(m, S) == {x \in S : x.event = m.event /\ CheckHeadersMatch(m, x.headers)}

\* The callbacks a message triggers: RabbitMQ routes it to the queue if some
\* binding matches, then the consumer dispatches it to the handlers.
Triggered(m) == IF Matching(m, bindings) = {} THEN {} ELSE Matching(m, handlers)

\* A callback is triggered only by what the row it carries asks for: one of its
\* events, of its tenant unless that is the master tenant, and of the wazo it
\* names; also during an update that changes them all, and after any failure or
\* race.  (The filter on the user is not among them, see UserFilter.)
OnlyAskedFor ==
  \A m \in Messages : \A h \in Triggered(m) :
    /\ m.event \in h.fn.row.events
    /\ h.fn.row.tenant \in {MasterTenant, m.tenant}
    /\ h.fn.row.wazo \in {Nil, m.wazo}

\* Request o, in its loop, still has the callback of h at hand: it is the one
\* it will store, or the one it popped and has still to unsubscribe.
Held(o, h) ==
  /\ pc[o] = "loop"
  /\ \/ req[o].kind = "update" /\ h.fn = Callback(o, req[o])
     \/ /\ h.fn = prev[o].fn
        /\ \/ h.event \in todo[o]
           \/ \E i \in DOMAIN calls[o] : calls[o][i] = Unsub(h.event)

\* A request about the subscription finds its row, now or once it is created.
BeingCreated(s) == \E o \in Ops : /\ req[o].sub = s /\ req[o].kind = "create"
                                  /\ pc[o] \in {"loop", "notify"}
Reachable(s) == db[s] # Nil \/ BeingCreated(s)

\* A handler the consumer calls can always be removed: a request has it at hand,
\* or its callback is the one the dictionary holds for its subscription, and
\* that still has a row, without which _get lets no request come to it.
Removable(h) == \/ callbacks[h.fn.sub].fn = h.fn /\ Reachable(h.fn.sub)
                \/ \E o \in Ops : Held(o, h)
NoOrphanHandler == \A h \in handlers : Removable(h)

\* Nothing runs on the subscription.
Settled(s) == /\ pc[Boot] = "done"
              /\ \A o \in Ops : req[o].sub = s => pc[o] = "done"

\* What the database says a message triggers: the filters of the row, an event
\* of all users being for every subscription that asks for it.
Wanted(m, s) ==
  /\ db[s] # Nil
  /\ m.event \in db[s].row.events
  /\ CheckHeadersMatch(m, HandleTenantEvents(m.event, BuildHeaders(s, db[s].row)))

TriggeredOf(s, m) == {h \in Triggered(m) : h.fn.sub = s}

\* Once the requests on a subscription have ended, a message its row asks for
\* triggers one callback, not zero and not two, with the data of the row.
OneCallback ==
  \A s \in Subs, m \in Messages : Settled(s) /\ Wanted(m, s) =>
    \E h \in Triggered(m) : TriggeredOf(s, m) = {h} /\ h.fn.row = db[s].row

\* Once the requests on a subscription have ended, a message its row does not
\* ask for, or any message when it is deleted, triggers none of its callbacks.
NoOtherCallback ==
  \A s \in Subs, m \in Messages : Settled(s) /\ ~Wanted(m, s) =>
    TriggeredOf(s, m) = {}

\* A subscription with events_user_uuid is triggered by the events related to
\* that user only, save those events that are global by design.
UserFilter ==
  \A m \in Messages : m.event \notin GlobalEvents =>
    \A h \in Triggered(m) : h.fn.row.user \in m.users \cup {Nil}

\* Requests and failures about some subscriptions never change what triggers
\* another one, that no request has been about and that Boot is not registering:
\* not even when both have the same row, as the x-subscription header keeps
\* their bindings apart, which a match does not look at.
Undisturbed ==
  [][\A s \in Subs, m \in Messages :
       /\ \A o \in Ops : req'[o].sub # s
       /\ pc[Boot] = "loop" => req[Boot].sub # s
       => TriggeredOf(s, m)' = TriggeredOf(s, m)]_vars

\* The entry of a subscription that an update has popped is still its entry
\* until the update stores the new one.
Updating(s) == {o \in Ops : /\ req[o].sub = s /\ req[o].kind = "update"
                           /\ pc[o] = "loop"}
Armed(s) == IF callbacks[s] # EmptyEntry THEN callbacks[s].fn.row
            ELSE IF Updating(s) # {} THEN prev[CHOOSE o \in Updating(s) : TRUE].fn.row
            ELSE Nil

Directory == INSTANCE MirroredDirectory WITH
  rows    <- [s \in Subs |-> IF db[s] = Nil THEN Nil ELSE db[s].row],
  armed   <- [s \in Subs |-> Armed(s)],
  started <- pc[Boot] = "done"

\* Requests that do not fail, no delete overlapping an update, keep the dictionary of
\* callbacks a mirror of the database, never more than one change ahead.
Mirrored == Directory!Spec

-----------------------------------------------------------------------------
(***************************************************************************)
(* Liveness.                                                               *)
(***************************************************************************)
\* Every request ends: the locks of the registry, of the consumer and of the
\* database rows never leave a thread waiting for ever.
RequestsEnd == \A o \in Ops : pc[o] # "ready" ~> pc[o] = "done"

=============================================================================
