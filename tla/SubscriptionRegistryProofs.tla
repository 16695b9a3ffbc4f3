----------------------- MODULE SubscriptionRegistryProofs -----------------------
(***************************************************************************)
(* For any set of requests, subscriptions, rows and messages, and whatever *)
(* the environment does: the types, that a callback is triggered only by   *)
(* what its row asks for, and that requests about one subscription leave   *)
(* what triggers another as it is.                                         *)
(***************************************************************************)
EXTENDS SubscriptionRegistry, SequenceTheorems, TLAPS

\* The tenant_uuid header of every subscription with this row.
TenantKey(row) == IF row.tenant = MasterTenant THEN Nil ELSE row.tenant

\* What holds of the locals of a thread.  The third conjunct is what keeps
\* _update safe although it assigns to headers inside its loop: the tenant is
\* the part of the headers a turn never changes.
Local(t) ==
  /\ pc[t] # "loop" => calls[t] = <<>>
  /\ pc[t] \in {"flush", "publish", "loop", "notify"} =>
       req[t].sub \in Subs /\ req[t].row \in Rows
  /\ pc[t] = "loop" /\ req[t].kind # "delete" =>
       headers[t] \in HeaderType /\ headers[t].tenant = TenantKey(req[t].row)
  /\ \A i \in DOMAIN calls[t] : calls[t][i].do = "subscribe" =>
       calls[t][i].headers.tenant = TenantKey(req[t].row)

\* A handler is bound to the tenant of the row its callback carries.
HandlersBound == \A h \in handlers : h.headers.tenant = TenantKey(h.fn.row)

IInv == /\ TypeOK
        /\ \A t \in Threads : Local(t)
        /\ HandlersBound

-----------------------------------------------------------------------------
LEMMA BuildHeadersType ==
  ASSUME NEW s \in Subs, NEW r \in Rows
  PROVE  /\ BuildHeaders(s, r) \in HeaderType
         /\ BuildHeaders(s, r).tenant = TenantKey(r)
BY DEF Rows, BuildHeaders, HeaderType, TenantKey

LEMMA HandleTenantEventsType ==
  ASSUME NEW e \in Events, NEW h \in HeaderType
  PROVE  /\ HandleTenantEvents(e, h) \in HeaderType
         /\ HandleTenantEvents(e, h).tenant = h.tenant
BY DEF HandleTenantEvents, HeaderType

LEMMA EventsOfType ==
  ASSUME NEW x \in EntryType
  PROVE  EventsOf(x) \in SUBSET Events
<1>1. CASE x.fn = Nil
  BY <1>1 DEF EventsOf
<1>2. CASE x.fn # Nil
  <2>1. x \in [fn : CallbackType, headers : HeaderType]
    BY <1>2 DEF EntryType, EmptyEntry
  <2>2. x.fn.row \in Rows
    BY <2>1 DEF CallbackType
  <2> QED BY <1>2, <2>2 DEF EventsOf, Rows
<1> QED BY <1>1, <1>2

LEMMA CallsForType ==
  ASSUME NEW t \in Threads, NEW e \in Events, NEW h, 
         req[t].kind # "delete" => h \in HeaderType
  PROVE  /\ CallsFor(t, e, h) \in Seq(CallType)
         /\ \A i \in DOMAIN CallsFor(t, e, h) :
              CallsFor(t, e, h)[i].do = "subscribe" =>
                /\ CallsFor(t, e, h)[i].headers = h
                /\ req[t].kind # "delete"
<1>1. Unsub(e) \in CallType /\ Unsub(e).do # "subscribe"
  BY DEF CallType, Unsub
<1>2. CASE req[t].kind = "delete"
  <2>1. CallsFor(t, e, h) = <<Unsub(e)>>
    BY <1>2 DEF CallsFor
  <2> QED BY <1>1, <2>1
<1>3. CASE req[t].kind # "delete"
  <2>1. Sub(e, h) \in CallType /\ Sub(e, h).headers = h
    BY <1>3 DEF CallType, Sub
  <2>2. CallsFor(t, e, h) \in {<<Sub(e, h)>>, <<Unsub(e)>>,
                  <<Sub(e, h), Unsub(e)>>, <<Unsub(e), Sub(e, h)>>}
    <3> DEFINE u == Unsub(e)  s == Sub(e, h)
    <3>1. UpdateCalls(t, e, h) \in {<<s>>, <<u>>, <<s, u>>, <<u, s>>}
      <4> HIDE DEF u, s
      <4> QED BY Zenon DEF UpdateCalls, u, s
    <3>2. CASE req[t].kind = "update"
      <4>1. CallsFor(t, e, h) = UpdateCalls(t, e, h)
        BY <3>2, Zenon DEF CallsFor
      <4> QED BY <3>1, <4>1
    <3>3. CASE req[t].kind # "update"
      <4>1. CallsFor(t, e, h) = <<s>>
        BY <1>3, <3>3 DEF CallsFor
      <4> QED BY <4>1
    <3> QED BY <3>2, <3>3
  <2> DEFINE u == Unsub(e)  s == Sub(e, h)  C == CallsFor(t, e, h)
  <2> HIDE DEF u, s, C
  <2>3. u \in CallType /\ s \in CallType /\ u.do # "subscribe" /\ s.headers = h
    BY <1>1, <2>1 DEF u, s
  <2>4. C \in {<<s>>, <<u>>, <<s, u>>, <<u, s>>}
    BY <2>2, Zenon DEF u, s, C
  <2>5. C \in Seq(CallType)
    <3> HIDE DEF CallType
    <3>1. <<s>> \in Seq(CallType) /\ <<u>> \in Seq(CallType)
      BY <2>3
    <3>2. <<s, u>> \in Seq(CallType) /\ <<u, s>> \in Seq(CallType)
      BY <2>3
    <3> QED BY <2>4, <3>1, <3>2
  <2>6. \A i \in DOMAIN C : C[i] \in {u, s}
    BY <2>4
  <2> QED BY <1>3, <2>3, <2>5, <2>6 DEF C
<1> QED BY <1>2, <1>3

-----------------------------------------------------------------------------
LEMMA CreateFlushStep ==
  ASSUME IInv, NEW o \in Ops, NEW s \in Subs, NEW r \in Bodies, CreateFlush(o, s, r)
  PROVE  IInv'
<1> USE DEF registry, loop, Goto
<1>1. TypeOK'
  BY BodiesAssumption DEF IInv, TypeOK, CreateFlush, Request, RequestType, Threads
<1>2. ASSUME NEW t \in Threads PROVE Local(t)'
  BY BodiesAssumption DEF IInv, Local, CreateFlush, Request, TypeOK, Threads
<1>3. HandlersBound'
  BY DEF IInv, HandlersBound, CreateFlush
<1> QED BY <1>1, <1>2, <1>3 DEF IInv

LEMMA TurnStep ==
  ASSUME IInv, NEW t \in Threads, NEW e \in Events, Turn(t, e)
  PROVE  IInv'
<1> DEFINE h == HandleTenantEvents(e, headers[t])
           g == IF req[t].kind = "delete" THEN Nil ELSE h
           C == CallsFor(t, e, g)
<1> USE DEF registry
<1>1. req[t].kind # "delete" =>
        h \in HeaderType /\ h.tenant = TenantKey(req[t].row)
  BY HandleTenantEventsType DEF IInv, Local, Turn
<1>2. /\ C \in Seq(CallType)
      /\ \A i \in DOMAIN C : C[i].do = "subscribe" =>
           C[i].headers = g /\ req[t].kind # "delete"
  <2> HIDE DEF h
  <2> QED BY <1>1, CallsForType
<1>3. /\ pc[t] = "loop"
      /\ todo' = [todo EXCEPT ![t] = @ \ {e}]
      /\ calls' = [calls EXCEPT ![t] = C]
      /\ headers' = IF req[t].kind = "update" THEN [headers EXCEPT ![t] = h]
                                              ELSE headers
      /\ UNCHANGED <<db, rowLock, registry, pc, req, seen, prev, backlog>>
  BY DEF Turn
<1> HIDE DEF h, C
<1>4. TypeOK'
  BY <1>1, <1>2, <1>3 DEF IInv, TypeOK
<1>5. ASSUME NEW u \in Threads PROVE Local(u)'
  <2>1. CASE u = t
    BY <2>1, <1>1, <1>2, <1>3 DEF IInv, Local, TypeOK
  <2>2. CASE u # t
    BY <2>2, <1>3 DEF IInv, Local, TypeOK
  <2> QED BY <2>1, <2>2
<1>6. HandlersBound'
  BY <1>3 DEF IInv, HandlersBound
<1> QED BY <1>4, <1>5, <1>6 DEF IInv

LEMMA UpdateGetStep ==
  ASSUME IInv, NEW o \in Ops, NEW s \in Subs, NEW r \in Bodies, UpdateGet(o, s, r)
  PROVE  IInv'
<1> USE DEF registry, loop, Goto
<1>1. TypeOK'
  BY BodiesAssumption DEF IInv, TypeOK, UpdateGet, Request, RequestType, Threads
<1>2. ASSUME NEW t \in Threads PROVE Local(t)'
  BY BodiesAssumption DEF IInv, Local, TypeOK, UpdateGet, Request, RequestType, Threads
<1>3. HandlersBound'
  BY DEF IInv, HandlersBound, UpdateGet
<1> QED BY <1>1, <1>2, <1>3 DEF IInv

\* The row that an update flushes is a row, whatever other updates inserted.
LEMMA FlushedType ==
  ASSUME TypeOK, NEW o \in Ops, req[o].sub \in Subs, req[o].row \in Rows,
         db[req[o].sub] # Nil
  PROVE  Flushed(o) \in Rows
<1> DEFINE is == db[req[o].sub]
<1>1. is.row \in Rows
  BY DEF TypeOK
<1>2. Survivors(o) \subseteq is.row.events
  BY DEF Survivors
<1> HIDE DEF is
<1>3. Survivors(o) \subseteq Events
  BY <1>1, <1>2 DEF Rows
<1> QED BY <1>1, <1>3 DEF Flushed, Rows, is

LEMMA UpdateFlushFacts ==
  ASSUME IInv, NEW o \in Ops, UpdateFlush(o)
  PROVE  LET s == req[o].sub IN
         /\ o \in Threads /\ pc[o] = "flush" /\ s \in Subs /\ rowLock[s] = Nil
         /\ UNCHANGED <<db, registry, seen, loop, backlog>>
         /\ \A t \in Threads \ {o} : req'[t] = req[t] /\ pc'[t] = pc[t]
         /\ \/ /\ rowLock' = [rowLock EXCEPT ![s] = o]
               /\ pc' = [pc EXCEPT ![o] = "publish"]
               /\ req' = [req EXCEPT ![o] = Request("update", s, Flushed(o))]
               /\ Flushed(o) \in Rows /\ db[s] # Nil
            \/ pc' = [pc EXCEPT ![o] = "done"] /\ UNCHANGED <<rowLock, req>>
<1>1. /\ TypeOK /\ o \in Threads /\ pc[o] = "flush"
      /\ req[o].sub \in Subs /\ req[o].row \in Rows
  BY DEF IInv, Local, UpdateFlush, Threads
<1>2. db[req[o].sub] # Nil => Flushed(o) \in Rows
  BY <1>1, FlushedType
<1> QED BY <1>1, <1>2 DEF UpdateFlush, Flush, Goto, TypeOK

LEMMA UpdateFlushStep ==
  ASSUME IInv, NEW o \in Ops, UpdateFlush(o)
  PROVE  IInv'
<1> USE DEF registry, loop
<1>1. TypeOK'
  <2>1. /\ req' \in [Threads -> RequestType] /\ rowLock' \in [Subs -> Ops \cup {Nil}]
        /\ pc' \in [Threads -> {"waiting", "list", "next", "ready", "flush", "publish",
                                 "loop", "notify", "done"}]
    <3>1. \A r \in Rows : Request("update", req[o].sub, r) \in RequestType
      BY UpdateFlushFacts DEF Request, RequestType
    <3>2. /\ req \in [Threads -> RequestType] /\ rowLock \in [Subs -> Ops \cup {Nil}]
          /\ pc \in [Threads -> {"waiting", "list", "next", "ready", "flush", "publish",
                                  "loop", "notify", "done"}]
      BY DEF IInv, TypeOK
    <3>3. CASE UNCHANGED <<rowLock, req>> /\ pc' = [pc EXCEPT ![o] = "done"]
      BY <3>2, <3>3
    <3>4. CASE ~(UNCHANGED <<rowLock, req>> /\ pc' = [pc EXCEPT ![o] = "done"])
      BY <3>1, <3>2, <3>4, UpdateFlushFacts
    <3> QED BY <3>3, <3>4
  <2> QED BY <2>1, UpdateFlushFacts DEF IInv, TypeOK
<1>2. ASSUME NEW t \in Threads PROVE Local(t)'
  <2>1. CASE t = o
    BY <2>1, UpdateFlushFacts DEF IInv, Local, TypeOK, Request, Threads
  <2>2. CASE t # o
    BY <2>2, UpdateFlushFacts DEF IInv, Local, Threads
  <2> QED BY <2>1, <2>2
<1>3. HandlersBound'
  BY UpdateFlushFacts DEF IInv, HandlersBound
<1> QED BY <1>1, <1>2, <1>3 DEF IInv

LEMMA DeleteGetStep ==
  ASSUME IInv, NEW o \in Ops, NEW s \in Subs, DeleteGet(o, s)
  PROVE  IInv'
<1> USE DEF registry, loop, Goto
<1>1. TypeOK'
  BY DEF IInv, TypeOK, DeleteGet, Request, RequestType, Threads
<1>2. ASSUME NEW t \in Threads PROVE Local(t)'
  BY DEF IInv, Local, TypeOK, DeleteGet, Request, RequestType, Threads
<1>3. HandlersBound'
  BY DEF IInv, HandlersBound, DeleteGet
<1> QED BY <1>1, <1>2, <1>3 DEF IInv

LEMMA InsertedType ==
  ASSUME TypeOK, NEW o \in Ops, req[o].sub \in Subs
  PROVE  Inserted(o) \in Writers
<1>1. ASSUME NEW e \in Survivors(o) PROVE db[req[o].sub].by \in Writers
  BY <1>1 DEF Survivors, TypeOK
<1> QED BY <1>1 DEF Inserted, Writers

LEMMA CommitStep ==
  ASSUME IInv, NEW o \in Ops, Commit(o)
  PROVE  IInv'
<1> USE DEF registry, loop, Goto
<1>1. TypeOK'
  <2>1. pc[o] = "notify" /\ o \in Threads /\ req[o].sub \in Subs /\ req[o].row \in Rows
    BY DEF IInv, Local, Commit, Threads
  <2>2. Inserted(o) \in Writers
    BY <2>1, InsertedType DEF IInv
  <2> HIDE DEF registry, loop
  <2> QED BY <2>1, <2>2 DEF IInv, TypeOK, Commit, Unlocked, Threads, registry, loop
<1>2. ASSUME NEW t \in Threads PROVE Local(t)'
  BY DEF IInv, Local, TypeOK, Commit, Unlocked, Local, Threads
<1>3. HandlersBound'
  BY DEF IInv, HandlersBound, Commit
<1> QED BY <1>1, <1>2, <1>3 DEF IInv

LEMMA RollbackStep ==
  ASSUME IInv, NEW o \in Ops, Rollback(o)
  PROVE  IInv'
<1> USE DEF registry, loop, Goto
<1>1. TypeOK'
  BY DEF IInv, TypeOK, Rollback, Unlocked, Threads
<1>2. ASSUME NEW t \in Threads PROVE Local(t)'
  BY DEF IInv, Local, TypeOK, Rollback, Unlocked, Threads
<1>3. HandlersBound'
  BY DEF IInv, HandlersBound, Rollback
<1> QED BY <1>1, <1>2, <1>3 DEF IInv

LEMMA TokenReceivedStep ==
  ASSUME IInv, TokenReceived
  PROVE  IInv'
<1> USE DEF registry, loop, Goto
<1>1. TypeOK'
  BY DEF IInv, TypeOK, TokenReceived, Threads
<1>2. ASSUME NEW t \in Threads PROVE Local(t)'
  BY DEF IInv, Local, TypeOK, TokenReceived, Threads
<1>3. HandlersBound'
  BY DEF IInv, HandlersBound, TokenReceived
<1> QED BY <1>1, <1>2, <1>3 DEF IInv

LEMMA BootListStep ==
  ASSUME IInv, BootList
  PROVE  IInv'
<1> USE DEF registry, loop, Goto
<1>1. TypeOK'
  BY DEF IInv, TypeOK, BootList, Threads
<1>2. ASSUME NEW t \in Threads PROVE Local(t)'
  BY DEF IInv, Local, TypeOK, BootList, Threads
<1>3. HandlersBound'
  BY DEF IInv, HandlersBound, BootList
<1> QED BY <1>1, <1>2, <1>3 DEF IInv

LEMMA BootEndsStep ==
  ASSUME IInv, BootEnds
  PROVE  IInv'
<1> USE DEF registry, loop, Goto
<1>1. TypeOK'
  BY DEF IInv, TypeOK, BootEnds, Threads
<1>2. ASSUME NEW t \in Threads PROVE Local(t)'
  BY DEF IInv, Local, TypeOK, BootEnds, Threads
<1>3. HandlersBound'
  BY DEF IInv, HandlersBound, BootEnds
<1> QED BY <1>1, <1>2, <1>3 DEF IInv

LEMMA CallbackInType ==
  ASSUME NEW t \in Threads, NEW q, q.sub \in Subs, q.row \in Rows
  PROVE  Callback(t, q) \in CallbackType
BY DEF Callback, CallbackType

LEMMA LoopEndsStep ==
  ASSUME IInv, NEW t \in Threads, LoopEnds(t)
  PROVE  IInv'
<1> USE DEF registry, loop, Goto
<1> DEFINE entry == [fn |-> Callback(t, req[t]), headers |-> headers[t]]
<1>1. req[t].kind = "update" => req[t].sub \in Subs /\ entry \in EntryType
  BY CallbackInType DEF IInv, Local, LoopEnds, EntryType
<1>2. callbacks' = IF req[t].kind = "update" THEN [callbacks EXCEPT ![req[t].sub] = entry]
                                             ELSE callbacks
  BY DEF LoopEnds
<1> HIDE DEF entry
<1>3. TypeOK'
  <2>1. callbacks' \in [Subs -> EntryType]
    BY <1>1, <1>2 DEF IInv, TypeOK
  <2> QED BY <2>1 DEF IInv, TypeOK, LoopEnds, Threads
<1>4. ASSUME NEW u \in Threads PROVE Local(u)'
  BY DEF IInv, Local, TypeOK, LoopEnds, Threads
<1>5. HandlersBound'
  BY DEF IInv, HandlersBound, LoopEnds
<1> QED BY <1>3, <1>4, <1>5 DEF IInv

\* What _register leaves of the registry and of its own locals.
LEMMA RegisterFacts ==
  ASSUME TypeOK, NEW t \in Threads, NEW q, q.sub \in Subs, q.row \in Rows, Register(t, q)
  PROVE  /\ callbacks' \in [Subs -> EntryType]
         /\ headers' \in [Threads -> HeaderType \cup {Nil}]
         /\ todo' \in [Threads -> SUBSET Events]
         /\ headers'[t] \in HeaderType /\ headers'[t].tenant = TenantKey(q.row)
         /\ \A u \in Threads \ {t} : headers'[u] = headers[u]
<1> DEFINE h == BuildHeaders(q.sub, q.row)
           entry == [fn |-> Callback(t, q), headers |-> h]
<1>1. h \in HeaderType /\ h.tenant = TenantKey(q.row)
  BY BuildHeadersType
<1>2. entry \in EntryType
  BY <1>1, CallbackInType DEF EntryType
<1>3. q.row.events \in SUBSET Events
  BY DEF Rows
<1>4. /\ callbacks' = [callbacks EXCEPT ![q.sub] = entry]
      /\ headers' = [headers EXCEPT ![t] = h]
      /\ todo' = [todo EXCEPT ![t] = q.row.events]
  BY DEF Register
<1> HIDE DEF h, entry
<1> QED BY <1>1, <1>2, <1>3, <1>4 DEF TypeOK

LEMMA CreatedStep ==
  ASSUME IInv, NEW o \in Ops, Created(o)
  PROVE  IInv'
<1>1. o \in Threads /\ req[o].sub \in Subs /\ req[o].row \in Rows /\ calls[o] = <<>>
  BY DEF IInv, Local, Created, Threads
<1>2. CASE MasterKnown
  <2>1. Register(o, req[o])
    BY <1>2 DEF Created
  <2>2. /\ callbacks' \in [Subs -> EntryType]
        /\ headers' \in [Threads -> HeaderType \cup {Nil}]
        /\ todo' \in [Threads -> SUBSET Events]
        /\ headers'[o] \in HeaderType /\ headers'[o].tenant = TenantKey(req[o].row)
        /\ \A u \in Threads \ {o} : headers'[u] = headers[u]
    BY <1>1, <2>1, RegisterFacts DEF IInv
  <2>3. TypeOK'
    BY <2>1, <2>2 DEF IInv, TypeOK, Created, Register, Goto
  <2>4. ASSUME NEW t \in Threads PROVE Local(t)'
    BY <1>1, <2>1, <2>2 DEF IInv, TypeOK, Local, Created, Register, Goto
  <2>5. HandlersBound'
    BY DEF IInv, HandlersBound, Created
  <2> QED BY <2>3, <2>4, <2>5 DEF IInv
<1>3. CASE ~MasterKnown
  <2>1. TypeOK'
    BY <1>3 DEF IInv, TypeOK, Created, Goto
  <2>2. ASSUME NEW t \in Threads PROVE Local(t)'
    BY <1>1, <1>3 DEF IInv, TypeOK, Local, Created, Goto
  <2>3. HandlersBound'
    BY DEF IInv, HandlersBound, Created
  <2> QED BY <2>1, <2>2, <2>3 DEF IInv
<1> QED BY <1>2, <1>3

LEMMA BootRegisterStep ==
  ASSUME IInv, NEW b \in backlog, BootRegister(b)
  PROVE  IInv'
<1> DEFINE q == Request("boot", b.sub, b.row)
<1>1. /\ Boot \in Threads /\ calls[Boot] = <<>>
      /\ q \in RequestType /\ q.sub \in Subs /\ q.row \in Rows
  BY DEF IInv, TypeOK, Local, BootRegister, Request, RequestType, Threads
<1>2. Register(Boot, q) /\ req' = [req EXCEPT ![Boot] = q]
  BY DEF BootRegister
<1> HIDE DEF q
<1>3. /\ callbacks' \in [Subs -> EntryType]
      /\ headers' \in [Threads -> HeaderType \cup {Nil}]
      /\ todo' \in [Threads -> SUBSET Events]
      /\ headers'[Boot] \in HeaderType /\ headers'[Boot].tenant = TenantKey(q.row)
      /\ \A u \in Threads \ {Boot} : headers'[u] = headers[u]
  BY <1>1, <1>2, RegisterFacts DEF IInv
<1>4. TypeOK'
  BY <1>1, <1>2, <1>3 DEF IInv, TypeOK, BootRegister, Register, Goto
<1>5. ASSUME NEW t \in Threads PROVE Local(t)'
  BY <1>1, <1>2, <1>3 DEF IInv, TypeOK, Local, BootRegister, Register, Goto
<1>6. HandlersBound'
  BY DEF IInv, HandlersBound, BootRegister
<1> QED BY <1>4, <1>5, <1>6 DEF IInv

LEMMA EmptyEntryInType == EmptyEntry \in EntryType
BY DEF EntryType

LEMMA DeletedStep ==
  ASSUME IInv, NEW o \in Ops, Deleted(o)
  PROVE  IInv'
<1>1. o \in Threads /\ req[o].sub \in Subs /\ callbacks[req[o].sub] \in EntryType
  BY DEF IInv, TypeOK, Local, Deleted, Threads
<1>2. EventsOf(callbacks[req[o].sub]) \in SUBSET Events
  BY <1>1, EventsOfType
<1>3. TypeOK'
  BY <1>1, <1>2, EmptyEntryInType DEF IInv, TypeOK, Deleted, Goto
<1>4. ASSUME NEW t \in Threads PROVE Local(t)'
  BY <1>1 DEF IInv, TypeOK, Local, Deleted, Goto
<1>5. HandlersBound'
  BY DEF IInv, HandlersBound, Deleted
<1> QED BY <1>3, <1>4, <1>5 DEF IInv

LEMMA UpdatedStep ==
  ASSUME IInv, NEW o \in Ops, Updated(o)
  PROVE  IInv'
<1>1. /\ o \in Threads /\ req[o].sub \in Subs /\ req[o].row \in Rows
      /\ callbacks[req[o].sub] \in EntryType
  BY DEF IInv, TypeOK, Local, Updated, Threads
<1>2. EventsOf(callbacks[req[o].sub]) \cup req[o].row.events \in SUBSET Events
  BY <1>1, EventsOfType DEF Rows
<1> DEFINE h == BuildHeaders(req[o].sub, req[o].row)
<1>3. h \in HeaderType /\ h.tenant = TenantKey(req[o].row)
  BY <1>1, BuildHeadersType
<1>4. CASE MasterKnown /\ callbacks[req[o].sub] # EmptyEntry
  <2>1. headers' = [headers EXCEPT ![o] = h]
    BY <1>4 DEF Updated
  <2> HIDE DEF h
  <2>2. TypeOK'
    BY <1>1, <1>2, <1>3, <1>4, <2>1, EmptyEntryInType DEF IInv, TypeOK, Updated, Goto
  <2>3. ASSUME NEW t \in Threads PROVE Local(t)'
    BY <1>1, <1>3, <1>4, <2>1 DEF IInv, TypeOK, Local, Updated, Goto
  <2>4. HandlersBound'
    BY DEF IInv, HandlersBound, Updated
  <2> QED BY <2>2, <2>3, <2>4 DEF IInv
<1>5. CASE ~(MasterKnown /\ callbacks[req[o].sub] # EmptyEntry)
  <2>1. TypeOK'
    BY <1>1, <1>5 DEF IInv, TypeOK, Updated, Goto
  <2>2. ASSUME NEW t \in Threads PROVE Local(t)'
    BY <1>1, <1>5 DEF IInv, TypeOK, Local, Updated, Goto
  <2>3. HandlersBound'
    BY DEF IInv, HandlersBound, Updated
  <2> QED BY <2>1, <2>2, <2>3 DEF IInv
<1> QED BY <1>4, <1>5

\* A call is made inside the loop, and what is left of them keeps its shape.
LEMMA CallFacts ==
  ASSUME IInv, NEW t \in Threads, calls[t] # <<>>
  PROVE  /\ pc[t] = "loop" /\ req[t].sub \in Subs /\ req[t].row \in Rows
         /\ Head(calls[t]) \in CallType
         /\ Head(calls[t]).do = "subscribe" =>
              Head(calls[t]).headers.tenant = TenantKey(req[t].row)
         /\ Tail(calls[t]) \in Seq(CallType)
         /\ \A i \in DOMAIN Tail(calls[t]) :
              Tail(calls[t])[i].do = "subscribe" =>
                Tail(calls[t])[i].headers.tenant = TenantKey(req[t].row)
<1> DEFINE c == calls[t]
<1>1. c \in Seq(CallType) /\ c # <<>>
  BY DEF IInv, TypeOK
<1>2. pc[t] = "loop" /\ req[t].sub \in Subs /\ req[t].row \in Rows
  BY DEF IInv, Local
<1>3. \A i \in DOMAIN c : c[i].do = "subscribe" => c[i].headers.tenant = TenantKey(req[t].row)
  BY DEF IInv, Local
<1> HIDE DEF c
<1>4. /\ Head(c) \in CallType /\ Tail(c) \in Seq(CallType)
      /\ 1 \in DOMAIN c /\ Head(c) = c[1]
      /\ \A i \in DOMAIN Tail(c) : i+1 \in DOMAIN c /\ Tail(c)[i] = c[i+1]
  BY <1>1
<1> QED BY <1>2, <1>3, <1>4 DEF c

LEMMA SubscribeStep ==
  ASSUME IInv, NEW t \in Threads, Subscribe(t)
  PROVE  IInv'
<1> DEFINE c == Head(calls[t])  rest == Tail(calls[t])
           handler == [event |-> c.event, fn |-> Callback(t, req[t]), headers |-> c.headers]
           binding == [event |-> c.event, headers |-> c.headers]
<1>1. /\ calls[t] # <<>> /\ c.do = "subscribe"
      /\ handlers' = handlers \cup {handler} /\ bindings' = bindings \cup {binding}
      /\ calls' = [calls EXCEPT ![t] = rest]
      /\ UNCHANGED <<db, rowLock, callbacks, pc, req, seen, prev, headers, todo, backlog>>
  BY DEF Subscribe
<1>2. /\ pc[t] = "loop" /\ req[t].sub \in Subs /\ req[t].row \in Rows
      /\ c \in CallType /\ c.headers.tenant = TenantKey(req[t].row)
      /\ rest \in Seq(CallType)
      /\ \A i \in DOMAIN rest : rest[i].do = "subscribe" =>
                rest[i].headers.tenant = TenantKey(req[t].row)
  BY <1>1, CallFacts
<1>3. c.event \in Events /\ c.headers \in HeaderType
  BY <1>1, <1>2 DEF CallType, Unsub
<1>4. /\ handler \in [event : Events, fn : CallbackType, headers : HeaderType]
      /\ binding \in [event : Events, headers : HeaderType]
      /\ handler.headers.tenant = TenantKey(handler.fn.row)
  <2>1. Callback(t, req[t]) \in CallbackType /\ Callback(t, req[t]).row = req[t].row
    BY <1>2, CallbackInType DEF Callback
  <2> QED BY <1>2, <1>3, <2>1
<1> HIDE DEF c, rest, handler, binding
<1>5. TypeOK'
  BY <1>1, <1>2, <1>4 DEF IInv, TypeOK
<1>6. ASSUME NEW u \in Threads PROVE Local(u)'
  BY <1>1, <1>2 DEF IInv, TypeOK, Local
<1>7. HandlersBound'
  BY <1>1, <1>4 DEF IInv, HandlersBound
<1> QED BY <1>5, <1>6, <1>7 DEF IInv

LEMMA UnsubscribeStep ==
  ASSUME IInv, NEW t \in Threads, Unsubscribe(t)
  PROVE  IInv'
<1>1. handlers' \subseteq handlers /\ bindings' \subseteq bindings
  BY DEF Unsubscribe
<1>2. /\ calls[t] # <<>>
      /\ calls' = [calls EXCEPT ![t] = Tail(@)]
      /\ UNCHANGED <<db, rowLock, callbacks, pc, req, seen, prev, headers, todo, backlog>>
  BY DEF Unsubscribe
<1> DEFINE rest == Tail(calls[t])
<1>3. /\ pc[t] = "loop" /\ rest \in Seq(CallType)
      /\ \A i \in DOMAIN rest : rest[i].do = "subscribe" =>
                rest[i].headers.tenant = TenantKey(req[t].row)
  BY <1>2, CallFacts
<1>4. calls' = [calls EXCEPT ![t] = rest]
  BY <1>2
<1> HIDE DEF rest
<1>5. TypeOK'
  BY <1>1, <1>2, <1>3, <1>4 DEF IInv, TypeOK
<1>6. ASSUME NEW u \in Threads PROVE Local(u)'
  BY <1>2, <1>3, <1>4 DEF IInv, TypeOK, Local
<1>7. HandlersBound'
  BY <1>1 DEF IInv, HandlersBound
<1> QED BY <1>5, <1>6, <1>7 DEF IInv

LEMMA SubscribeRaisesStep ==
  ASSUME IInv, NEW t \in Threads, SubscribeRaises(t)
  PROVE  IInv'
<1> USE DEF registry, Goto
<1>1. pc[t] = "loop" /\ req[t].sub \in Subs /\ req[t].row \in Rows
  BY CallFacts DEF SubscribeRaises
<1>2. <<>> \in Seq(CallType)
  OBVIOUS
<1>3. TypeOK'
  BY <1>2 DEF IInv, TypeOK, SubscribeRaises
<1>4. ASSUME NEW u \in Threads PROVE Local(u)'
  BY <1>1 DEF IInv, TypeOK, Local, SubscribeRaises
<1>5. HandlersBound'
  BY DEF IInv, HandlersBound, SubscribeRaises
<1> QED BY <1>3, <1>4, <1>5 DEF IInv

-----------------------------------------------------------------------------
LEMMA InitEstablishes == Init => IInv
<1> SUFFICES ASSUME Init PROVE IInv
  OBVIOUS
<1>1. TypeOK
  BY EmptyEntryInType, BodiesAssumption DEF Init, TypeOK, Request, RequestType, Threads, Writers
<1>2. ASSUME NEW t \in Threads PROVE Local(t)
  BY DEF Init, Local, Threads
<1>3. HandlersBound
  BY DEF Init, HandlersBound
<1> QED BY <1>1, <1>2, <1>3 DEF IInv

LEMMA NextPreserves == IInv /\ [Next]_vars => IInv'
<1> SUFFICES ASSUME IInv, [Next]_vars PROVE IInv'
  OBVIOUS
<1>1. ASSUME UNCHANGED vars PROVE IInv'
  BY <1>1 DEF IInv, TypeOK, Local, HandlersBound, vars
<1>2. ASSUME NEW t \in Threads, BusCall(t) \/ LoopEnds(t) \/ SubscribeRaises(t)
                                  \/ \E e \in Events : Turn(t, e)
      PROVE  IInv'
  BY <1>2, SubscribeStep, UnsubscribeStep, LoopEndsStep, SubscribeRaisesStep, TurnStep
     DEF BusCall
<1>3. CASE BootStep \/ SubscribeRaises(Boot)
  <2>1. Boot \in Threads
    BY DEF Threads
  <2> QED BY <1>2, <1>3, <2>1, TokenReceivedStep, BootListStep, BootEndsStep, BootRegisterStep
          DEF BootStep
<1>4. ASSUME NEW o \in Ops, Requested(o) \/ Step(o) \/ Rollback(o) \/ SubscribeRaises(o)
      PROVE  IInv'
  <2>1. o \in Threads
    BY DEF Threads
  <2>2. CASE Requested(o)
    BY <2>2, CreateFlushStep, UpdateGetStep, DeleteGetStep DEF Requested
  <2>3. CASE Step(o)
    BY <1>2, <2>1, <2>3, UpdateFlushStep, CreatedStep, UpdatedStep, DeletedStep, CommitStep
       DEF Step
  <2>4. CASE Rollback(o) \/ SubscribeRaises(o)
    BY <1>2, <2>1, <2>4, RollbackStep
  <2> QED BY <1>4, <2>2, <2>3, <2>4
<1> QED BY <1>1, <1>3, <1>4 DEF Next, Idle

\* IInv is an invariant of every behaviour: no fault is excluded.
THEOREM Invariance == Spec => []IInv
BY InitEstablishes, NextPreserves, PTL DEF Spec

\* The type invariant, for every set of requests, subscriptions and rows.
THEOREM TypeCorrect == Spec => []TypeOK
<1>1. IInv => TypeOK
  BY DEF IInv
<1> QED BY Invariance, <1>1, PTL

-----------------------------------------------------------------------------
(***************************************************************************)
(* The keys of the bindings: a second invariant, with the events, the      *)
(* subscription and the wazo of a callback.                                *)
(***************************************************************************)
\* A thread binds its own subscription, to events of its own row, and unbinds
\* what its own subscription had.
Key(t) ==
  /\ pc[t] = "loop" /\ req[t].kind # "delete" =>
       headers[t].sub = req[t].sub /\ headers[t].wazo = req[t].row.wazo
  /\ pc[t] = "loop" /\ req[t].kind \notin {"update", "delete"} =>
       todo[t] \subseteq req[t].row.events
  /\ \A i \in DOMAIN calls[t] : calls[t][i].do = "subscribe" =>
       /\ calls[t][i].event \in req[t].row.events
       /\ calls[t][i].headers.sub = req[t].sub
       /\ calls[t][i].headers.wazo = req[t].row.wazo
  /\ prev[t].fn # Nil => prev[t].fn.sub = req[t].sub
  /\ pc[t] = "ready" \/ t = Boot => prev[t].fn = Nil
  /\ pc[t] = "ready" => req[t].sub = Nil

\* The entry of a subscription is its own.
EntriesKeyed == \A s \in Subs : callbacks[s].fn # Nil => callbacks[s].fn.sub = s

HandlersKeyed == \A h \in handlers : /\ h.event \in h.fn.row.events
                                     /\ h.headers.sub = h.fn.sub
                                     /\ h.headers.wazo = h.fn.row.wazo

\* No request about a subscription, then RabbitMQ has the bindings of all its
\* handlers: another subscription's are others, as the x-subscription differs.
BindingOf(h) == [event |-> h.event, headers |-> h.headers]
Left(s) == \A o \in Ops : req[o].sub # s
Routed == \A h \in handlers : Left(h.fn.sub) => BindingOf(h) \in bindings

Keyed == (\A t \in Threads : Key(t)) /\ EntriesKeyed /\ HandlersKeyed /\ Routed
KInv  == IInv /\ Keyed

LEMMA BuildHeadersKey ==
  ASSUME NEW s, NEW r
  PROVE  BuildHeaders(s, r).sub = s /\ BuildHeaders(s, r).wazo = r.wazo
BY DEF BuildHeaders

LEMMA HandleTenantEventsKey ==
  ASSUME NEW e, NEW h \in HeaderType
  PROVE  /\ HandleTenantEvents(e, h).sub = h.sub
         /\ HandleTenantEvents(e, h).wazo = h.wazo
BY DEF HandleTenantEvents, HeaderType

\* A handler is of some subscription.
LEMMA HandlerFacts ==
  ASSUME IInv, NEW h \in handlers
  PROVE  h.fn.sub \in Subs /\ h.fn.sub # Nil /\ h.fn # Nil
BY NilAssumption DEF IInv, TypeOK, CallbackType

\* A step that leaves the copies and the locals of the loops alone.
LEMMA QuietKey ==
  ASSUME KInv, NEW t \in Threads,
         UNCHANGED <<callbacks, handlers, bindings, prev, headers, todo, calls>>,
         \A u \in Threads \ {t} : pc'[u] = pc[u] /\ req'[u] = req[u],
         calls[t] = <<>>, pc'[t] \notin {"loop", "ready"},
         req'[t].sub = req[t].sub \/ pc[t] = "ready"
  PROVE  Keyed'
<1>1. IInv /\ Keyed
  BY DEF KInv
<1>2. ASSUME NEW u \in Threads PROVE Key(u)'
  <2>1. Key(u) /\ Key(t)
    BY <1>1 DEF Keyed
  <2>2. CASE u = t
    BY <2>1, <2>2 DEF Key
  <2>3. CASE u # t
    BY <2>1, <2>3 DEF Key
  <2> QED BY <2>2, <2>3
<1>3. EntriesKeyed' /\ HandlersKeyed'
  BY <1>1 DEF Keyed, EntriesKeyed, HandlersKeyed
<1>4. ASSUME NEW h \in handlers, Left(h.fn.sub)' PROVE BindingOf(h) \in bindings
  <2>1. h.fn.sub # Nil
    BY <1>1, HandlerFacts
  <2>2. req[t].sub = req'[t].sub \/ req[t].sub = Nil
    BY <1>1 DEF Keyed, Key
  <2>3. Left(h.fn.sub)
    BY <1>4, <2>1, <2>2 DEF Left, Threads
  <2> QED BY <1>1, <2>3 DEF Keyed, Routed
<1>5. Routed'
  BY <1>4 DEF Routed, BindingOf
<1> QED BY <1>2, <1>3, <1>5 DEF Keyed

\* A step of a thread that leaves the consumer and everybody's request alone:
\* what it does to its own locals and to the entry of its subscription.
LEMMA LocalKey ==
  ASSUME KInv, NEW t \in Threads, Key(t)',
         UNCHANGED <<handlers, bindings>>,
         \A u \in Threads \ {t} : /\ pc'[u] = pc[u] /\ req'[u] = req[u]
                                  /\ prev'[u] = prev[u] /\ headers'[u] = headers[u]
                                  /\ todo'[u] = todo[u] /\ calls'[u] = calls[u],
         t = Boot \/ req'[t] = req[t],
         \A s \in Subs : \/ callbacks'[s] = callbacks[s]
                        \/ callbacks'[s].fn = Nil
                        \/ callbacks'[s].fn.sub = s
  PROVE  Keyed'
<1>1. IInv /\ Keyed
  BY DEF KInv
<1>2. ASSUME NEW u \in Threads \ {t} PROVE Key(u)'
  <2>1. Key(u)
    BY <1>1 DEF Keyed
  <2> QED BY <2>1 DEF Key
<1>3. EntriesKeyed'
  BY <1>1 DEF Keyed, EntriesKeyed
<1>4. HandlersKeyed'
  BY <1>1 DEF Keyed, HandlersKeyed
<1>5. \A o \in Ops : req'[o] = req[o]
  BY BootAssumption DEF Threads
<1>6. Routed'
  BY <1>1, <1>5 DEF Keyed, Routed, Left, BindingOf
<1> QED BY <1>2, <1>3, <1>4, <1>6 DEF Keyed

\* _register: the callback and the headers are those of the request.
LEMMA RegisterKey ==
  ASSUME KInv, NEW t \in Threads, NEW q, q.sub \in Subs, q.row \in Rows, Register(t, q),
         calls[t] = <<>>, q.kind \notin {"update", "delete"}, req'[t] = q,
         t = Boot \/ q = req[t], UNCHANGED <<handlers, bindings, prev, calls>>,
         \A u \in Threads \ {t} : req'[u] = req[u]
  PROVE  Keyed'
<1> DEFINE h == BuildHeaders(q.sub, q.row)
           entry == [fn |-> Callback(t, q), headers |-> h]
<1>1. h.sub = q.sub /\ h.wazo = q.row.wazo
  BY BuildHeadersKey
<1>2. entry.fn.sub = q.sub
  BY DEF Callback
<1>3. /\ callbacks' = [callbacks EXCEPT ![q.sub] = entry]
      /\ headers' = [headers EXCEPT ![t] = h]
      /\ todo' = [todo EXCEPT ![t] = q.row.events]
      /\ pc' = [pc EXCEPT ![t] = "loop"]
  BY DEF Register, Goto
<1>4. TypeOK /\ Key(t)
  BY DEF KInv, IInv, Keyed
<1> HIDE DEF h, entry
<1>5. Key(t)'
  BY <1>1, <1>3, <1>4 DEF Key, TypeOK
<1>6. \A x \in Subs : callbacks'[x] = callbacks[x] \/ callbacks'[x].fn.sub = x
  BY <1>2, <1>3, <1>4 DEF TypeOK
<1>7. \A u \in Threads \ {t} : /\ pc'[u] = pc[u] /\ prev'[u] = prev[u]
                               /\ headers'[u] = headers[u] /\ todo'[u] = todo[u]
                               /\ calls'[u] = calls[u]
  BY <1>3, <1>4 DEF TypeOK
<1> QED BY <1>5, <1>6, <1>7, LocalKey

LEMMA CreatedKey ==
  ASSUME KInv, NEW o \in Ops, Created(o)
  PROVE  Keyed'
<1>1. /\ o \in Threads /\ req[o].sub \in Subs /\ req[o].row \in Rows /\ calls[o] = <<>>
      /\ TypeOK /\ Key(o)
  BY DEF KInv, Keyed, IInv, Local, Created, Threads
<1>2. CASE MasterKnown
  BY <1>1, <1>2, RegisterKey DEF Created
<1>3. CASE ~MasterKnown
  BY <1>1, <1>3, QuietKey DEF Created, Goto, TypeOK
<1> QED BY <1>2, <1>3

LEMMA BootRegisterKey ==
  ASSUME KInv, NEW b \in backlog, BootRegister(b)
  PROVE  Keyed'
<1> DEFINE q == Request("boot", b.sub, b.row)
<1>1. /\ Boot \in Threads /\ calls[Boot] = <<>> /\ TypeOK
      /\ q.sub \in Subs /\ q.row \in Rows /\ q.kind = "boot"
  BY DEF KInv, IInv, TypeOK, Local, BootRegister, Request, Threads
<1>2. /\ Register(Boot, q) /\ req' = [req EXCEPT ![Boot] = q]
      /\ UNCHANGED <<handlers, bindings, prev, calls>>
  BY DEF BootRegister
<1> HIDE DEF q
<1>3. req'[Boot] = q /\ \A u \in Threads \ {Boot} : req'[u] = req[u]
  BY <1>1, <1>2 DEF TypeOK
<1> QED BY <1>1, <1>2, <1>3, RegisterKey

\* A pop: what the thread goes on to unsubscribe is of its own subscription.
LEMMA DeletedKey ==
  ASSUME KInv, NEW o \in Ops, Deleted(o)
  PROVE  Keyed'
<1> DEFINE s == req[o].sub
<1>1. /\ o \in Threads /\ o # Boot /\ s \in Subs /\ calls[o] = <<>> /\ TypeOK
      /\ callbacks[s].fn # Nil => callbacks[s].fn.sub = s
  BY BootAssumption DEF KInv, Keyed, EntriesKeyed, IInv, Local, Deleted, Threads
<1>2. /\ req[o].kind = "delete" /\ pc' = [pc EXCEPT ![o] = "loop"]
      /\ prev' = [prev EXCEPT ![o] = callbacks[s]]
      /\ callbacks' = [callbacks EXCEPT ![s] = EmptyEntry]
      /\ \A u \in Threads \ {o} : todo'[u] = todo[u]
      /\ UNCHANGED <<handlers, bindings, req, headers, calls>>
  BY <1>1 DEF Deleted, Goto, TypeOK
<1>3. Key(o)'
  BY <1>1, <1>2 DEF Key, TypeOK
<1>4. \A x \in Subs : callbacks'[x] = callbacks[x] \/ callbacks'[x].fn = Nil
  BY <1>1, <1>2 DEF TypeOK, EmptyEntry
<1>5. \A u \in Threads \ {o} : pc'[u] = pc[u] /\ prev'[u] = prev[u]
  BY <1>2 DEF TypeOK
<1> QED BY <1>1, <1>2, <1>3, <1>4, <1>5, LocalKey

LEMMA UpdatedKey ==
  ASSUME KInv, NEW o \in Ops, Updated(o)
  PROVE  Keyed'
<1> DEFINE s == req[o].sub
           h == BuildHeaders(s, req[o].row)
<1>1. /\ o \in Threads /\ o # Boot /\ s \in Subs /\ calls[o] = <<>> /\ TypeOK
      /\ callbacks[s].fn # Nil => callbacks[s].fn.sub = s
  BY BootAssumption DEF KInv, Keyed, EntriesKeyed, IInv, Local, Updated, Threads
<1>2. CASE MasterKnown /\ callbacks[s] # EmptyEntry
  <2>1. /\ req[o].kind = "update" /\ pc' = [pc EXCEPT ![o] = "loop"]
        /\ prev' = [prev EXCEPT ![o] = callbacks[s]]
        /\ callbacks' = [callbacks EXCEPT ![s] = EmptyEntry]
        /\ headers' = [headers EXCEPT ![o] = h]
        /\ \A u \in Threads \ {o} : todo'[u] = todo[u]
        /\ UNCHANGED <<handlers, bindings, req, calls>>
    BY <1>1, <1>2 DEF Updated, Goto, TypeOK
  <2>2. h.sub = s /\ h.wazo = req[o].row.wazo
    BY BuildHeadersKey
  <2> HIDE DEF h
  <2>3. Key(o)'
    BY <1>1, <2>1, <2>2 DEF Key, TypeOK
  <2>4. \A x \in Subs : callbacks'[x] = callbacks[x] \/ callbacks'[x].fn = Nil
    BY <1>1, <2>1 DEF TypeOK, EmptyEntry
  <2>5. \A u \in Threads \ {o} : /\ pc'[u] = pc[u] /\ prev'[u] = prev[u]
                                 /\ headers'[u] = headers[u]
    BY <2>1 DEF TypeOK
  <2> QED BY <1>1, <2>1, <2>3, <2>4, <2>5, LocalKey
<1>3. CASE ~(MasterKnown /\ callbacks[s] # EmptyEntry)
  <2>1. pc' = [pc EXCEPT ![o] = "notify"]
        /\ UNCHANGED <<callbacks, handlers, bindings, prev, headers, todo, calls, req>>
    BY <1>3 DEF Updated, Goto
  <2> QED BY <1>1, <2>1, QuietKey DEF TypeOK
<1> QED BY <1>2, <1>3

\* The calls of a turn: _update subscribes to events of the new row only.
LEMMA CallsForKey ==
  ASSUME NEW t \in Threads, NEW e \in Events, NEW h
  PROVE  \A i \in DOMAIN CallsFor(t, e, h) : CallsFor(t, e, h)[i].do = "subscribe" =>
           /\ CallsFor(t, e, h)[i].event = e /\ CallsFor(t, e, h)[i].headers = h
           /\ req[t].kind # "delete"
           /\ req[t].kind = "update" => e \in req[t].row.events
<1> DEFINE u == Unsub(e)  s == Sub(e, h)  C == CallsFor(t, e, h)
<1>1. u.do # "subscribe" /\ s.event = e /\ s.headers = h
  BY DEF Unsub, Sub
<1>2. req[t].kind = "delete" => C = <<u>>
  <2> HIDE DEF u
  <2> QED BY DEF CallsFor, u
<1>3. /\ req[t].kind = "update" /\ e \notin req[t].row.events => C = <<u>>
      /\ req[t].kind = "update" => C \in {<<u>>, <<s>>, <<s, u>>, <<u, s>>}
  <2>1. req[t].kind = "update" => C = UpdateCalls(t, e, h)
    BY Zenon DEF CallsFor
  <2> HIDE DEF u, s, C
  <2> QED BY <2>1, Zenon DEF UpdateCalls, u, s
<1>4. req[t].kind \notin {"delete", "update"} => C = <<s>>
  <2> HIDE DEF s
  <2> QED BY DEF CallsFor, s
<1> HIDE DEF u, s, C
<1>5. \A i \in DOMAIN C : C[i].do = "subscribe" =>
        /\ C[i].event = e /\ C[i].headers = h /\ req[t].kind # "delete"
        /\ req[t].kind = "update" => e \in req[t].row.events
  BY <1>1, <1>2, <1>3, <1>4
<1> QED BY <1>5 DEF C

LEMMA TurnKey ==
  ASSUME KInv, NEW t \in Threads, NEW e \in Events, Turn(t, e)
  PROVE  Keyed'
<1> DEFINE h == HandleTenantEvents(e, headers[t])
           g == IF req[t].kind = "delete" THEN Nil ELSE h
           C == CallsFor(t, e, g)
<1>1. TypeOK /\ Key(t) /\ Local(t)
  BY DEF KInv, IInv, Keyed
<1>2. /\ pc[t] = "loop" /\ e \in todo[t]
      /\ todo' = [todo EXCEPT ![t] = @ \ {e}]
      /\ calls' = [calls EXCEPT ![t] = C]
      /\ headers' = IF req[t].kind = "update" THEN [headers EXCEPT ![t] = h]
                                              ELSE headers
      /\ UNCHANGED <<callbacks, handlers, bindings, pc, req, prev>>
  BY DEF Turn, registry
<1>3. req[t].kind # "delete" => h.sub = req[t].sub /\ h.wazo = req[t].row.wazo
  BY <1>1, <1>2, HandleTenantEventsKey DEF Local, Key
<1>4. \A i \in DOMAIN C : C[i].do = "subscribe" =>
        /\ C[i].event = e /\ C[i].headers = g /\ req[t].kind # "delete"
        /\ req[t].kind = "update" => e \in req[t].row.events
  <2> HIDE DEF g
  <2> QED BY CallsForKey
<1> HIDE DEF C, h
<1>5. \A i \in DOMAIN C : C[i].do = "subscribe" =>
        /\ C[i].event \in req[t].row.events
        /\ C[i].headers.sub = req[t].sub /\ C[i].headers.wazo = req[t].row.wazo
  BY <1>1, <1>2, <1>3, <1>4 DEF Key
<1>6. calls'[t] = C /\ todo'[t] \subseteq todo[t]
      /\ (req[t].kind # "update" => headers'[t] = headers[t])
      /\ (req[t].kind = "update" => headers'[t] = h)
  BY <1>1, <1>2 DEF TypeOK
<1>7. Key(t)'
  BY <1>1, <1>2, <1>3, <1>5, <1>6 DEF Key
<1>8. \A u \in Threads \ {t} : /\ headers'[u] = headers[u] /\ todo'[u] = todo[u]
                               /\ calls'[u] = calls[u]
  BY <1>1, <1>2 DEF TypeOK
<1> QED BY <1>2, <1>7, <1>8, LocalKey

LEMMA LoopEndsKey ==
  ASSUME KInv, NEW t \in Threads, LoopEnds(t)
  PROVE  Keyed'
<1>1. TypeOK /\ Key(t) /\ Local(t) /\ pc[t] = "loop"
      /\ UNCHANGED <<handlers, bindings, req, prev, headers, todo, calls>>
  BY DEF KInv, IInv, Keyed, LoopEnds, loop
<1>2. pc' = [pc EXCEPT ![t] = IF t = Boot THEN "next" ELSE "notify"]
  BY DEF LoopEnds, Goto
<1>3. \A s \in Subs : callbacks'[s] = callbacks[s] \/ callbacks'[s].fn.sub = s
  BY <1>1 DEF LoopEnds, TypeOK, Callback
<1>4. Key(t)'
  BY <1>1, <1>2 DEF Key, TypeOK
<1>5. \A u \in Threads \ {t} : pc'[u] = pc[u]
  BY <1>1, <1>2 DEF TypeOK
<1> QED BY <1>1, <1>3, <1>4, <1>5, LocalKey

LEMMA SubscribeRaisesKey ==
  ASSUME KInv, NEW t \in Threads, SubscribeRaises(t)
  PROVE  Keyed'
<1>1. /\ TypeOK /\ Key(t) /\ pc'[t] \in {"done", "notify"}
      /\ calls' = [calls EXCEPT ![t] = <<>>]
      /\ UNCHANGED <<callbacks, handlers, bindings, req, prev, headers>>
      /\ \A u \in Threads \ {t} : pc'[u] = pc[u] /\ todo'[u] = todo[u]
  BY DEF KInv, IInv, Keyed, SubscribeRaises, registry, Goto, TypeOK
<1>2. calls'[t] = <<>> /\ \A u \in Threads \ {t} : calls'[u] = calls[u]
  BY <1>1 DEF TypeOK
<1>3. Key(t)'
  BY <1>1, <1>2 DEF Key
<1> QED BY <1>1, <1>2, <1>3, LocalKey

\* What is left of the calls after one of them.
LEMMA CallKey ==
  ASSUME KInv, NEW t \in Threads, calls[t] # <<>>,
         calls' = [calls EXCEPT ![t] = Tail(@)],
         UNCHANGED <<callbacks, pc, req, prev, headers, todo>>
  PROVE  /\ Head(calls[t]).do = "subscribe" =>
              /\ Head(calls[t]).event \in req[t].row.events
              /\ Head(calls[t]).headers.sub = req[t].sub
              /\ Head(calls[t]).headers.wazo = req[t].row.wazo
         /\ \A u \in Threads : Key(u)'
         /\ EntriesKeyed'
<1> DEFINE c == calls[t]
<1>1. TypeOK /\ Key(t) /\ \A u \in Threads : Key(u)
  BY DEF KInv, IInv, Keyed
<1>2. c \in Seq(CallType) /\ c # <<>>
  BY <1>1 DEF TypeOK
<1>3. \A i \in DOMAIN c : c[i].do = "subscribe" =>
        /\ c[i].event \in req[t].row.events
        /\ c[i].headers.sub = req[t].sub /\ c[i].headers.wazo = req[t].row.wazo
  BY <1>1 DEF Key
<1>4. calls'[t] = Tail(c) /\ \A u \in Threads \ {t} : calls'[u] = calls[u]
  BY <1>1 DEF TypeOK
<1> HIDE DEF c
<1>5. /\ 1 \in DOMAIN c /\ Head(c) = c[1]
      /\ \A i \in DOMAIN Tail(c) : i+1 \in DOMAIN c /\ Tail(c)[i] = c[i+1]
  BY <1>2
<1>6. Key(t)'
  BY <1>1, <1>3, <1>4, <1>5 DEF Key
<1>7. ASSUME NEW u \in Threads \ {t} PROVE Key(u)'
  BY <1>1, <1>4 DEF Key
<1>8. EntriesKeyed'
  BY DEF KInv, Keyed, EntriesKeyed
<1> QED BY <1>3, <1>5, <1>6, <1>7, <1>8 DEF c

LEMMA SubscribeKey ==
  ASSUME KInv, NEW t \in Threads, Subscribe(t)
  PROVE  Keyed'
<1> DEFINE c == Head(calls[t])
           x == [event |-> c.event, fn |-> Callback(t, req[t]), headers |-> c.headers]
<1>1. /\ calls[t] # <<>> /\ c.do = "subscribe"
      /\ handlers' = handlers \cup {x} /\ bindings' = bindings \cup {BindingOf(x)}
      /\ calls' = [calls EXCEPT ![t] = Tail(@)]
      /\ UNCHANGED <<callbacks, pc, req, prev, headers, todo>>
  BY DEF Subscribe, BindingOf
<1>2. /\ c.event \in req[t].row.events /\ c.headers.sub = req[t].sub
      /\ c.headers.wazo = req[t].row.wazo
      /\ (\A u \in Threads : Key(u)') /\ EntriesKeyed'
  BY <1>1, CallKey
<1>3. /\ x.event \in x.fn.row.events /\ x.headers.sub = x.fn.sub
      /\ x.headers.wazo = x.fn.row.wazo
  BY <1>2 DEF Callback
<1> HIDE DEF x, c
<1>4. HandlersKeyed'
  BY <1>1, <1>3 DEF KInv, Keyed, HandlersKeyed
<1>5. Routed'
  BY <1>1 DEF KInv, Keyed, Routed, Left, BindingOf
<1> QED BY <1>2, <1>4, <1>5 DEF Keyed

\* What goes was of the subscription of the request: nobody else's binding.
LEMMA GoneFacts ==
  ASSUME KInv, NEW t \in Threads, NEW h \in handlers, h.fn = prev[t].fn
  PROVE  t \in Ops /\ req[t].sub = h.fn.sub
<1>1. h.fn # Nil /\ Key(t)
  BY HandlerFacts DEF KInv, Keyed
<1> QED BY <1>1 DEF Key, Threads

LEMMA UnsubscribeKey ==
  ASSUME KInv, NEW t \in Threads, Unsubscribe(t)
  PROVE  Keyed'
<1> DEFINE gone == {h \in handlers : /\ h.event = Head(calls[t]).event
                                     /\ h.fn = prev[t].fn}
<1>1. /\ calls[t] # <<>> /\ handlers' = handlers \ gone
      /\ bindings' = bindings \ {BindingOf(h) : h \in gone}
      /\ calls' = [calls EXCEPT ![t] = Tail(@)]
      /\ UNCHANGED <<callbacks, pc, req, prev, headers, todo>>
  BY DEF Unsubscribe, BindingOf
<1>2. (\A u \in Threads : Key(u)') /\ EntriesKeyed'
  BY <1>1, CallKey
<1>3. \A g \in gone : g \in handlers /\ t \in Ops /\ req[t].sub = g.fn.sub
  BY GoneFacts
<1> HIDE DEF gone
<1>4. HandlersKeyed'
  BY <1>1 DEF KInv, Keyed, HandlersKeyed
<1>5. ASSUME NEW h \in handlers, h \notin gone, Left(h.fn.sub)
      PROVE  BindingOf(h) \in bindings'
  <2>1. BindingOf(h) \in bindings
    BY <1>5 DEF KInv, Keyed, Routed
  <2>2. ASSUME NEW g \in gone PROVE BindingOf(g) # BindingOf(h)
    <3>1. g.fn.sub # h.fn.sub
      BY <1>3, <1>5 DEF Left
    <3>2. g.headers.sub # h.headers.sub
      BY <1>3, <3>1 DEF KInv, Keyed, HandlersKeyed
    <3> QED BY <3>2 DEF BindingOf
  <2> QED BY <1>1, <2>1, <2>2
<1>6. Routed'
  BY <1>1, <1>5 DEF Routed, Left, BindingOf
<1> QED BY <1>2, <1>4, <1>6 DEF Keyed

LEMMA KeyInit == Init => KInv
<1> SUFFICES ASSUME Init PROVE KInv
  OBVIOUS
<1>1. \A t \in Threads : /\ pc[t] \in {"waiting", "ready"} /\ prev[t] = EmptyEntry
                         /\ calls[t] = <<>> /\ req[t] = Request(Nil, Nil, Nil)
  BY DEF Init
<1>2. ASSUME NEW t \in Threads PROVE Key(t)
  BY <1>1 DEF Key, EmptyEntry, Request
<1>3. EntriesKeyed
  BY DEF Init, EntriesKeyed, EmptyEntry
<1>4. HandlersKeyed /\ Routed
  BY DEF Init, HandlersKeyed, Routed
<1> QED BY <1>2, <1>3, <1>4, InitEstablishes DEF KInv, Keyed

\* The steps outside the loops and the publication.
LEMMA QuietSteps ==
  ASSUME KInv, NEW o \in Ops,
         Requested(o) \/ UpdateFlush(o) \/ Commit(o) \/ Rollback(o)
  PROVE  Keyed'
<1>1. o \in Threads /\ TypeOK /\ Local(o)
  BY DEF KInv, IInv, Threads
<1> USE DEF registry, loop, Goto
<1>2. CASE Requested(o)
  <2>1. ASSUME NEW s \in Subs, NEW r \in Bodies, CreateFlush(o, s, r) \/ UpdateGet(o, s, r)
        PROVE  Keyed'
    BY <1>1, <2>1, QuietKey DEF CreateFlush, UpdateGet, TypeOK, Local
  <2>2. ASSUME NEW s \in Subs, DeleteGet(o, s) PROVE Keyed'
    BY <1>1, <2>2, QuietKey DEF DeleteGet, TypeOK, Local
  <2> QED BY <1>2, <2>1, <2>2 DEF Requested
<1>3. CASE UpdateFlush(o)
  <2>1. /\ pc[o] = "flush" /\ pc'[o] \in {"publish", "done"}
        /\ UNCHANGED <<db, registry, loop>> /\ calls[o] = <<>>
        /\ \A t \in Threads \ {o} : req'[t] = req[t] /\ pc'[t] = pc[t]
        /\ req'[o].sub = req[o].sub
    BY <1>1, <1>3, UpdateFlushFacts DEF KInv, IInv, TypeOK, Local, Request
  <2> QED BY <1>1, <2>1, QuietKey
<1>4. CASE Commit(o)
  BY <1>1, <1>4, QuietKey DEF Commit, TypeOK, Local
<1>5. CASE Rollback(o)
  BY <1>1, <1>5, QuietKey DEF Rollback, TypeOK, Local
<1> QED BY <1>2, <1>3, <1>4, <1>5

LEMMA KeyStep == KInv /\ [Next]_vars => KInv'
<1> SUFFICES ASSUME KInv, [Next]_vars PROVE Keyed'
  BY NextPreserves DEF KInv
<1>1. CASE UNCHANGED vars
  BY <1>1 DEF KInv, Keyed, Key, EntriesKeyed, HandlersKeyed, Routed, Left, BindingOf, vars
<1>2. ASSUME NEW t \in Threads, BusCall(t) \/ LoopEnds(t) \/ SubscribeRaises(t)
                                  \/ \E e \in Events : Turn(t, e)
      PROVE  Keyed'
  BY <1>2, SubscribeKey, UnsubscribeKey, LoopEndsKey, SubscribeRaisesKey, TurnKey
     DEF BusCall
<1>3. CASE BootStep \/ SubscribeRaises(Boot)
  <2>1. Boot \in Threads /\ TypeOK /\ Local(Boot)
    BY DEF KInv, IInv, Threads
  <2>2. CASE TokenReceived \/ BootList \/ BootEnds
    BY <2>1, <2>2, QuietKey
       DEF TokenReceived, BootList, BootEnds, registry, loop, Goto, TypeOK, Local
  <2> QED BY <1>2, <1>3, <2>1, <2>2, BootRegisterKey DEF BootStep
<1>4. ASSUME NEW o \in Ops, Requested(o) \/ Step(o) \/ Rollback(o) \/ SubscribeRaises(o)
      PROVE  Keyed'
  <2>1. o \in Threads
    BY DEF Threads
  <2>2. CASE Step(o)
    BY <1>2, <2>1, <2>2, QuietSteps, CreatedKey, UpdatedKey, DeletedKey DEF Step
  <2> QED BY <1>2, <1>4, <2>1, <2>2, QuietSteps
<1> QED BY <1>1, <1>3, <1>4 DEF Next, Idle

\* KInv is an invariant of every behaviour too.
THEOREM KeyInvariance == Spec => []KInv
BY KeyInit, KeyStep, PTL DEF Spec

\* A handler is bound to the event, the tenant and the wazo of the row it
\* carries, and the consumer tests that binding on every message: so whatever
\* requests overlap, fail or come before the start is over, a callback is
\* triggered only by what its row asks for.
THEOREM OnlyAskedForTriggers == Spec => []OnlyAskedFor
<1>1. KInv => OnlyAskedFor
  <2> SUFFICES ASSUME KInv, NEW m \in Messages, NEW h \in Triggered(m)
               PROVE  /\ m.event \in h.fn.row.events
                      /\ h.fn.row.tenant \in {MasterTenant, m.tenant}
                      /\ h.fn.row.wazo \in {Nil, m.wazo}
    BY DEF OnlyAskedFor
  <2>1. h \in handlers /\ h.event = m.event /\ CheckHeadersMatch(m, h.headers)
    BY DEF Triggered, Matching
  <2>2. h.headers.tenant \in {Nil, m.tenant} /\ h.headers.wazo \in {Nil, m.wazo}
    BY <2>1 DEF CheckHeadersMatch
  <2>3. h.headers.tenant = TenantKey(h.fn.row) /\ h.fn.row \in Rows
    BY <2>1 DEF KInv, IInv, HandlersBound, TypeOK, CallbackType
  <2>4. h.fn.row.tenant \in Tenants /\ h.fn.row.tenant # Nil
    BY <2>3, NilAssumption DEF Rows
  <2>5. h.event \in h.fn.row.events /\ h.headers.wazo = h.fn.row.wazo
    BY <2>1 DEF KInv, Keyed, HandlersKeyed
  <2> QED BY <2>1, <2>2, <2>3, <2>4, <2>5 DEF TenantKey
<1> QED BY KeyInvariance, <1>1, PTL

-----------------------------------------------------------------------------
\* Nobody but its requests, and Boot while it registers it, touches the
\* handlers of a subscription.
LEMMA OthersKept ==
  ASSUME KInv, [Next]_vars, NEW s \in Subs, Left(s)', pc[Boot] = "loop" => req[Boot].sub # s
  PROVE  /\ Left(s)
         /\ \A h : h.fn.sub = s => (h \in handlers' <=> h \in handlers)
<1>1. TypeOK /\ Keyed /\ s # Nil /\ \A t \in Threads : Local(t)
  BY NilAssumption DEF KInv, IInv
<1>2. ASSUME NEW o \in Ops PROVE req'[o].sub = req[o].sub \/ pc[o] = "ready"
  <2>1. ASSUME NEW p \in Ops, Requested(p) PROVE req'[o] = req[o] \/ pc[o] = "ready"
    BY <1>1, <2>1 DEF Requested, CreateFlush, UpdateGet, DeleteGet, TypeOK, Threads
  <2>2. ASSUME NEW b \in backlog, BootRegister(b) PROVE req'[o] = req[o]
    BY <1>1, <2>2, BootAssumption DEF BootRegister, TypeOK, Threads
  <2>3. CASE UNCHANGED req
    BY <2>3
  <2>4. ASSUME NEW p \in Ops, UpdateFlush(p) PROVE req'[o].sub = req[o].sub
    BY <1>1, <2>4, UpdateFlushFacts DEF KInv, TypeOK, Threads, Request
  <2>5. \/ \E p \in Ops : Requested(p) \/ UpdateFlush(p)
        \/ \E b \in backlog : BootRegister(b)
        \/ UNCHANGED req
    BY DEF Next, Idle, vars, BootStep, Step, BusCall, registry, loop,
           Created, Updated, Deleted, Turn, Subscribe, Unsubscribe,
           SubscribeRaises, LoopEnds, Commit, Rollback, TokenReceived, BootList, BootEnds
  <2> QED BY <2>1, <2>2, <2>3, <2>4, <2>5
<1>3. Left(s)
  BY <1>1, <1>2 DEF Left, Keyed, Key, Threads
<1>4. ASSUME NEW t \in Threads, BusCall(t)
      PROVE  \A h : h.fn.sub = s => (h \in handlers' <=> h \in handlers)
  <2>1. calls[t] # <<>> /\ req[t].sub # s
    BY <1>1, <1>3, <1>4 DEF BusCall, Subscribe, Unsubscribe, Local, Left, Threads
  <2>2. CASE Subscribe(t)
    BY <2>1, <2>2 DEF Subscribe, Callback
  <2>3. CASE Unsubscribe(t)
    BY <2>1, <2>3, GoneFacts DEF Unsubscribe
  <2> QED BY <1>4, <2>2, <2>3 DEF BusCall
<1>5. (\E t \in Threads : BusCall(t)) \/ UNCHANGED handlers
  BY DEF Next, Idle, vars, BootStep, Step, Requested, registry,
         CreateFlush, UpdateGet, DeleteGet, UpdateFlush, Created, Updated, Deleted, Turn,
         SubscribeRaises, LoopEnds, Commit, Rollback,
         TokenReceived, BootList, BootEnds, BootRegister, Threads
<1> QED BY <1>3, <1>4, <1>5

\* What triggers a subscription no request has been about are its handlers.
OwnHandlers(s, m) == {h \in Matching(m, handlers) : h.fn.sub = s}

ByHandlers(s, m)  == TriggeredOf(s, m) = OwnHandlers(s, m)

LEMMA LeftTriggered ==
  ASSUME NEW s \in Subs, NEW m \in Messages
  PROVE  KInv /\ Left(s) => ByHandlers(s, m)
<1> SUFFICES ASSUME KInv, Left(s) PROVE ByHandlers(s, m)
  OBVIOUS
<1>1. ASSUME NEW h \in Matching(m, handlers), h.fn.sub = s
      PROVE  BindingOf(h) \in Matching(m, bindings)
  <2>1. h \in handlers /\ h.event = m.event /\ CheckHeadersMatch(m, h.headers)
    BY DEF Matching
  <2>2. BindingOf(h) \in bindings
    BY <1>1, <2>1 DEF KInv, Keyed, Routed
  <2>3. BindingOf(h).event = h.event /\ BindingOf(h).headers = h.headers
    BY DEF BindingOf
  <2> QED BY <2>1, <2>2, <2>3 DEF Matching
<1> QED BY <1>1 DEF TriggeredOf, Triggered, OwnHandlers, ByHandlers

LEMMA LeftTriggeredThen ==
  ASSUME NEW s \in Subs, NEW m \in Messages
  PROVE  KInv' /\ Left(s)' => ByHandlers(s, m)'
BY LeftTriggered, PTL

\* Whatever overlaps, fails or comes early, and however many subscriptions share
\* a body: a subscription no request has been about is triggered after a step by
\* what triggered it before, save while Boot registers it.
THEOREM OthersAreUndisturbed == Spec => Undisturbed
<1>1. KInv /\ KInv' /\ [Next]_vars =>
        \A s \in Subs, m \in Messages :
          /\ \A o \in Ops : req'[o].sub # s
          /\ pc[Boot] = "loop" => req[Boot].sub # s
          => TriggeredOf(s, m)' = TriggeredOf(s, m)
  <2> SUFFICES ASSUME KInv, KInv', [Next]_vars, NEW s \in Subs, NEW m \in Messages,
                      \A o \in Ops : req'[o].sub # s,
                      pc[Boot] = "loop" => req[Boot].sub # s
               PROVE  TriggeredOf(s, m)' = TriggeredOf(s, m)
    OBVIOUS
  <2>1. Left(s)'
    BY DEF Left
  <2>2. Left(s) /\ \A h : h.fn.sub = s => (h \in handlers' <=> h \in handlers)
    BY <2>1, OthersKept
  <2>3. TriggeredOf(s, m) = OwnHandlers(s, m)
    BY <2>2, LeftTriggered DEF ByHandlers
  <2>4. TriggeredOf(s, m)' = OwnHandlers(s, m)'
    BY <2>1, LeftTriggeredThen DEF ByHandlers
  <2> QED BY <2>2, <2>3, <2>4 DEF OwnHandlers, Matching
<1> QED BY KeyInvariance, <1>1, PTL DEF Spec, Undisturbed
=============================================================================
