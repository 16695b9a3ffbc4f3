---------------------- MODULE SubscriptionOwnershipProofs ----------------------
(***************************************************************************)
(* The callback of every handler in the consumer is still in the           *)
(* dictionary, or in the hands of a request, for any requests that overlap *)
(* and fail, as long as the consumer accepts subscriptions and no request  *)
(* is served before the start is over (the two faults that break it).      *)
(* That is one half of NoOrphanHandler; the other half, a row by which a   *)
(* request comes to the entry, is in SubscriptionMirrorProofs.             *)
(***************************************************************************)
EXTENDS SubscriptionRegistryProofs

\* A subscription that exists, or that some request is or was about.
Touched(s) == db[s] # Nil \/ \E p \in Ops : req[p].sub = s

\* The request and the locals of a thread agree with where it is.
Shape(o) ==
  /\ pc[o] \in {"ready", "flush", "publish", "loop", "notify", "done"}
  /\ pc[o] = "ready" => req[o].sub = Nil
  /\ pc[o] # "ready" => req[o].sub \in Subs /\ req[o].kind \in {"create", "update", "delete"}
  /\ pc[o] = "flush" => req[o].kind = "update"
  /\ pc[o] \in {"ready", "flush", "publish"} => prev[o] = EmptyEntry
  /\ req[o].kind = "create" => prev[o] = EmptyEntry

\* A create is alone on its subscription, which nobody else can see before the
\* commit.
Creating(o) ==
  req[o].kind = "create" /\ pc[o] \in {"publish", "loop", "notify"} =>
    /\ db[req[o].sub] = Nil
    /\ \A p \in Ops \ {o} : req[p].sub # req[o].sub
    /\ pc[o] = "publish" => \A h \in handlers : h.fn.sub # req[o].sub
    /\ pc[o] = "loop" => callbacks[req[o].sub].fn = Callback(o, req[o])

\* An update in its transaction holds the row, so it is the only update there,
\* and while it loops the entry is absent.
UpdatingOwns(o) ==
  req[o].kind = "update" /\ pc[o] \in {"publish", "loop", "notify"} =>
    /\ rowLock[req[o].sub] = o
    /\ pc[o] = "loop" => callbacks[req[o].sub] = EmptyEntry

\* Until Boot is done there are no requests, and each row is registered once.
BootPhase ==
  /\ pc[Boot] \in {"waiting", "list", "next", "loop", "done"}
  /\ pc[Boot] # "done" => \A o \in Ops : pc[o] = "ready"
  /\ pc[Boot] \in {"waiting", "list"} => handlers = {} /\ backlog = {}
  /\ pc[Boot] = "done" => backlog = {}
  /\ \A b \in backlog : /\ db[b.sub] # Nil
                        /\ \A h \in handlers : h.fn.sub # b.sub
                        /\ \A c \in backlog : c.sub = b.sub => c = b
  /\ pc[Boot] = "loop" =>
       /\ req[Boot].kind = "boot" /\ db[req[Boot].sub] # Nil
       /\ callbacks[req[Boot].sub].fn = Callback(Boot, req[Boot])
       /\ \A b \in backlog : b.sub # req[Boot].sub

\* A callback is subscribed to events of its own row only.
Scope(t) ==
  /\ pc[t] = "loop" /\ req[t].kind \in {"create", "boot"} =>
       todo[t] \subseteq req[t].row.events
  /\ \A i \in DOMAIN calls[t] : calls[t][i].do = "subscribe" =>
       calls[t][i].event \in req[t].row.events /\ req[t].kind # "delete"

\* The dictionary holds the callback of a handler, or a request has it at hand.
Accounted(h) == callbacks[h.fn.sub].fn = h.fn \/ \E o \in Ops : Held(o, h)

HandlersOwned == \A h \in handlers : /\ h.event \in h.fn.row.events
                                     /\ Touched(h.fn.sub)
                                     /\ Accounted(h)

OInv == /\ IInv
        /\ \A o \in Ops : Shape(o) /\ Creating(o) /\ UpdatingOwns(o)
        /\ BootPhase
        /\ \A t \in Threads : Scope(t)
        /\ HandlersOwned

\* The two faults under which a handler may be left behind.
NoFault == "bus" \notin Faults /\ "early" \notin Faults

-----------------------------------------------------------------------------
(***************************************************************************)
(* The steps that leave the registry and the locals of the loops alone.    *)
(***************************************************************************)
LEMMA QuietHandlers ==
  ASSUME HandlersOwned, TypeOK, NEW o \in Threads, pc[o] # "loop",
         UNCHANGED <<callbacks, handlers, prev, todo, calls>>,
         \A p \in Ops \ {o} : pc'[p] = pc[p] /\ req'[p] = req[p],
         \A s \in Subs : Touched(s) => Touched(s)'
  PROVE  HandlersOwned'
<1> SUFFICES ASSUME NEW h \in handlers PROVE /\ h.event \in h.fn.row.events
                                           /\ Touched(h.fn.sub)'
                                           /\ Accounted(h)'
  BY DEF HandlersOwned
<1>1. h.event \in h.fn.row.events /\ Touched(h.fn.sub) /\ Accounted(h) /\ h.fn.sub \in Subs
  BY DEF HandlersOwned, TypeOK, CallbackType
<1>2. CASE callbacks[h.fn.sub].fn = h.fn
  BY <1>1, <1>2 DEF Accounted
<1>3. ASSUME NEW p \in Ops, Held(p, h) PROVE Accounted(h)'
  <2>1. p # o
    BY <1>3 DEF Held
  <2>2. Held(p, h)'
    BY <1>3, <2>1 DEF Held, Callback, Unsub
  <2> QED BY <2>2 DEF Accounted
<1> QED BY <1>1, <1>2, <1>3 DEF Accounted

LEMMA CreateFlushOwn ==
  ASSUME OInv, NoFault, NEW o \in Ops, NEW s \in Subs, NEW r \in Bodies, CreateFlush(o, s, r)
  PROVE  OInv'
<1> USE DEF registry, loop, Goto
<1>1. /\ pc[o] = "ready" /\ pc[Boot] = "done" /\ o \in Threads /\ o # Boot /\ s # Nil
      /\ db[s] = Nil /\ \A p \in Ops : req[p].sub # s
      /\ TypeOK /\ BootPhase /\ HandlersOwned
  BY BootAssumption, NilAssumption DEF CreateFlush, Served, Threads, NoFault, OInv, IInv
<1>2. /\ req' = [req EXCEPT ![o] = Request("create", s, r)]
      /\ pc' = [pc EXCEPT ![o] = "publish"]
      /\ UNCHANGED <<db, rowLock, registry, seen, loop, backlog>>
  BY DEF CreateFlush
<1>3. ASSUME NEW p \in Ops PROVE Shape(p)' /\ Creating(p)' /\ UpdatingOwns(p)'
  <2>1. Shape(p) /\ Creating(p) /\ UpdatingOwns(p) /\ p \in Threads
    BY DEF OInv, Threads
  <2>2. CASE p = o
    <3>1. \A h \in handlers : h.fn.sub # s
      BY <1>1 DEF HandlersOwned, Touched
    <3> QED BY <1>1, <1>2, <2>1, <2>2, <3>1 DEF TypeOK, Shape, Creating, UpdatingOwns, Request
  <2>3. CASE p # o
    BY <1>1, <1>2, <2>1, <2>3 DEF TypeOK, Shape, Creating, UpdatingOwns, Callback, Request
  <2> QED BY <2>2, <2>3
<1>4. BootPhase'
  BY <1>1, <1>2 DEF TypeOK, BootPhase
<1>5. ASSUME NEW t \in Threads PROVE Scope(t)'
  BY <1>1, <1>2 DEF OInv, IInv, Local, TypeOK, Scope
<1>6. HandlersOwned'
  <2>1. \A x \in Subs : Touched(x) => Touched(x)'
    <3>1. req[o].sub = Nil
      BY <1>1 DEF OInv, Shape
    <3> QED BY <1>1, <1>2, <3>1, NilAssumption DEF Touched, TypeOK, Threads
  <2>2. \A p \in Ops \ {o} : pc'[p] = pc[p] /\ req'[p] = req[p]
    BY <1>2 DEF Threads
  <2> QED BY <1>1, <1>2, <2>1, <2>2, QuietHandlers
<1>7. IInv'
  BY CreateFlushStep DEF OInv
<1> QED BY <1>3, <1>4, <1>5, <1>6, <1>7 DEF OInv

LEMMA UpdateGetOwn ==
  ASSUME OInv, NoFault, NEW o \in Ops, NEW s \in Subs, NEW r \in Bodies, UpdateGet(o, s, r)
  PROVE  OInv'
<1> USE DEF registry, loop, Goto
<1>1. /\ pc[o] = "ready" /\ pc[Boot] = "done" /\ o \in Threads /\ o # Boot /\ s # Nil
      /\ db[s] # Nil /\ req[o].sub = Nil
      /\ TypeOK /\ BootPhase /\ HandlersOwned
  BY BootAssumption, NilAssumption
     DEF UpdateGet, Served, Threads, NoFault, OInv, IInv, Shape
<1>2. /\ req' = [req EXCEPT ![o] = Request("update", s, r)]
      /\ pc' = [pc EXCEPT ![o] = "flush"]
      /\ UNCHANGED <<db, rowLock, registry, loop, backlog>>
  BY DEF UpdateGet
<1>3. ASSUME NEW p \in Ops PROVE Shape(p)' /\ Creating(p)' /\ UpdatingOwns(p)'
  <2>1. Shape(p) /\ Creating(p) /\ UpdatingOwns(p) /\ p \in Threads
    BY DEF OInv, Threads
  <2>2. CASE p = o
    BY <1>1, <1>2, <2>1, <2>2 DEF TypeOK, Shape, Creating, UpdatingOwns, Request
  <2>3. CASE p # o
    BY <1>1, <1>2, <2>1, <2>3 DEF TypeOK, Shape, Creating, UpdatingOwns, Callback, Request
  <2> QED BY <2>2, <2>3
<1>4. BootPhase'
  BY <1>1, <1>2 DEF TypeOK, BootPhase
<1>5. ASSUME NEW t \in Threads PROVE Scope(t)'
  BY <1>1, <1>2 DEF OInv, IInv, Local, TypeOK, Scope
<1>6. HandlersOwned'
  <2>1. \A x \in Subs : Touched(x) => Touched(x)'
    BY <1>1, <1>2, NilAssumption DEF Touched, TypeOK, Threads
  <2>2. \A p \in Ops \ {o} : pc'[p] = pc[p] /\ req'[p] = req[p]
    BY <1>2 DEF Threads
  <2> QED BY <1>1, <1>2, <2>1, <2>2, QuietHandlers
<1>7. IInv'
  BY UpdateGetStep DEF OInv
<1> QED BY <1>3, <1>4, <1>5, <1>6, <1>7 DEF OInv

LEMMA DeleteGetOwn ==
  ASSUME OInv, NoFault, NEW o \in Ops, NEW s \in Subs, DeleteGet(o, s)
  PROVE  OInv'
<1> USE DEF registry, loop, Goto
<1>1. /\ pc[o] = "ready" /\ pc[Boot] = "done" /\ o \in Threads /\ o # Boot /\ s # Nil
      /\ db[s] # Nil /\ req[o].sub = Nil
      /\ TypeOK /\ BootPhase /\ HandlersOwned
  BY BootAssumption, NilAssumption
     DEF DeleteGet, Served, Threads, NoFault, OInv, IInv, Shape
<1>2. /\ req' = [req EXCEPT ![o] = Request("delete", s, db[s].row)]
      /\ pc' = [pc EXCEPT ![o] = "publish"]
      /\ UNCHANGED <<db, rowLock, registry, loop, backlog>>
  BY DEF DeleteGet
<1>3. ASSUME NEW p \in Ops PROVE Shape(p)' /\ Creating(p)' /\ UpdatingOwns(p)'
  <2>1. Shape(p) /\ Creating(p) /\ UpdatingOwns(p) /\ p \in Threads
    BY DEF OInv, Threads
  <2>2. CASE p = o
    BY <1>1, <1>2, <2>1, <2>2 DEF TypeOK, Shape, Creating, UpdatingOwns, Request
  <2>3. CASE p # o
    BY <1>1, <1>2, <2>1, <2>3 DEF TypeOK, Shape, Creating, UpdatingOwns, Callback, Request
  <2> QED BY <2>2, <2>3
<1>4. BootPhase'
  BY <1>1, <1>2 DEF TypeOK, BootPhase
<1>5. ASSUME NEW t \in Threads PROVE Scope(t)'
  BY <1>1, <1>2 DEF OInv, IInv, Local, TypeOK, Scope
<1>6. HandlersOwned'
  <2>1. \A x \in Subs : Touched(x) => Touched(x)'
    BY <1>1, <1>2, NilAssumption DEF Touched, TypeOK, Threads
  <2>2. \A p \in Ops \ {o} : pc'[p] = pc[p] /\ req'[p] = req[p]
    BY <1>2 DEF Threads
  <2> QED BY <1>1, <1>2, <2>1, <2>2, QuietHandlers
<1>7. IInv'
  BY DeleteGetStep DEF OInv
<1> QED BY <1>3, <1>4, <1>5, <1>6, <1>7 DEF OInv

\* The row is locked by an update that may publish, and by no other.
LEMMA UpdateFlushOwn ==
  ASSUME OInv, NEW o \in Ops, UpdateFlush(o)
  PROVE  OInv'
<1> USE DEF registry, loop, Goto
<1> DEFINE s == req[o].sub
<1>1. /\ pc[o] = "flush" /\ o \in Threads /\ o # Boot /\ s \in Subs
      /\ req[o].kind = "update" /\ rowLock[s] = Nil /\ pc[Boot] = "done"
      /\ TypeOK /\ BootPhase /\ HandlersOwned
  BY BootAssumption DEF UpdateFlush, Threads, OInv, IInv, Shape, BootPhase
<1>2. /\ UNCHANGED <<db, registry, seen, loop, backlog>>
      /\ \/ rowLock' = [rowLock EXCEPT ![s] = o] /\ pc' = [pc EXCEPT ![o] = "publish"]
         \/ UNCHANGED rowLock /\ pc' = [pc EXCEPT ![o] = "done"]
      /\ req'[o].sub = s /\ req'[o].kind = "update"
  BY <1>1, UpdateFlushFacts DEF OInv, TypeOK, Request
<1>8. \A t \in Threads \ {o} : pc'[t] = pc[t] /\ req'[t] = req[t]
  BY UpdateFlushFacts DEF OInv
<1> HIDE DEF s
<1>3. ASSUME NEW p \in Ops PROVE Shape(p)' /\ Creating(p)' /\ UpdatingOwns(p)'
  <2>1. Shape(p) /\ Creating(p) /\ UpdatingOwns(p) /\ p \in Threads /\ p # Nil
    BY NilAssumption DEF OInv, Threads
  <2>2. CASE p = o
    BY <1>1, <1>2, <2>1, <2>2 DEF TypeOK, Shape, Creating, UpdatingOwns, s
  <2>3. CASE p # o
    <3>1. pc'[p] = pc[p] /\ req'[p] = req[p]
      BY <1>8, <2>1, <2>3
    <3>2. \A q \in Ops : req'[q].sub = req[q].sub
      BY <1>2, <1>8 DEF Threads, s
    <3> QED BY <1>1, <1>2, <2>1, <2>3, <3>1, <3>2 DEF TypeOK, Shape, Creating, UpdatingOwns, Callback
  <2> QED BY <2>2, <2>3
<1>4. BootPhase'
  <2>1. pc'[Boot] = "done"
    BY <1>1, <1>8 DEF Threads
  <2> QED BY <1>1, <1>2, <2>1 DEF BootPhase
<1>5. ASSUME NEW t \in Threads PROVE Scope(t)'
  <2>1. CASE t = o
    BY <1>1, <1>2, <2>1 DEF OInv, IInv, Local, TypeOK, Scope
  <2>2. CASE t # o
    BY <1>2, <1>8, <2>2 DEF OInv, Scope
  <2> QED BY <2>1, <2>2
<1>6. HandlersOwned'
  <2>1. \A x \in Subs : Touched(x) => Touched(x)'
    BY <1>2, <1>8 DEF Touched, Threads, s
  <2>2. \A p \in Ops \ {o} : pc'[p] = pc[p] /\ req'[p] = req[p]
    BY <1>2, <1>8 DEF Threads
  <2> QED BY <1>1, <1>2, <2>1, <2>2, QuietHandlers
<1>7. IInv'
  BY UpdateFlushStep DEF OInv
<1> QED BY <1>3, <1>4, <1>5, <1>6, <1>7 DEF OInv

\* A request that ends gives back its lock and nobody else's.
LEMMA EndOwn ==
  ASSUME OInv, NEW o \in Ops, Commit(o) \/ Rollback(o)
  PROVE  OInv'
<1> USE DEF registry, loop, Goto
<1> DEFINE s == req[o].sub
<1>1. /\ pc[o] = "notify" /\ o \in Threads /\ o # Boot /\ s \in Subs /\ pc[Boot] = "done"
      /\ TypeOK /\ BootPhase /\ HandlersOwned
  BY BootAssumption DEF Commit, Rollback, Threads, OInv, IInv, Shape, BootPhase
<1>2. /\ UNCHANGED <<registry, req, seen, loop, backlog>>
      /\ pc' = [pc EXCEPT ![o] = "done"]
      /\ rowLock' = Unlocked(o)
      /\ \A x \in Subs \ {s} : db'[x] = db[x]
  BY DEF Commit, Rollback, OInv, IInv, TypeOK
<1>3. ASSUME NEW p \in Ops PROVE Shape(p)' /\ Creating(p)' /\ UpdatingOwns(p)'
  <2>1. Shape(p) /\ Creating(p) /\ UpdatingOwns(p) /\ p \in Threads /\ p # Nil
    BY NilAssumption DEF OInv, Threads
  <2>2. CASE p = o
    BY <1>1, <1>2, <2>1, <2>2 DEF TypeOK, Shape, Creating, UpdatingOwns
  <2>3. CASE p # o
    <3>1. pc'[p] = pc[p]
      BY <1>2, <2>1, <2>3 DEF TypeOK
    <3>2. Shape(p)'
      BY <1>2, <2>1, <3>1 DEF Shape
    <3>3. Creating(p)'
      <4> SUFFICES ASSUME req[p].kind = "create", pc[p] \in {"publish", "loop", "notify"}
                   PROVE  Creating(p)'
        BY <1>2, <3>1 DEF Creating
      <4>1. req[p].sub # s /\ req[p].sub \in Subs
        BY <2>1, <2>3 DEF Creating, Shape
      <4>2. db'[req[p].sub] = db[req[p].sub]
        BY <1>2, <4>1
      <4> QED BY <1>2, <2>1, <3>1, <4>2 DEF Creating, Callback
    <3>4. UpdatingOwns(p)'
      <4>1. \A x \in Subs : rowLock[x] = p => rowLock'[x] = p
        BY <1>2, <2>3 DEF Unlocked
      <4> QED BY <1>2, <2>1, <3>1, <4>1 DEF UpdatingOwns, Shape
    <3> QED BY <3>2, <3>3, <3>4
  <2> QED BY <2>2, <2>3
<1>4. BootPhase'
  BY <1>1, <1>2 DEF TypeOK, BootPhase
<1>5. ASSUME NEW t \in Threads PROVE Scope(t)'
  BY <1>1, <1>2 DEF OInv, IInv, Local, TypeOK, Scope
<1>6. HandlersOwned'
  <2>1. \A x \in Subs : Touched(x) => Touched(x)'
    BY <1>1, <1>2 DEF Touched
  <2>2. \A p \in Ops \ {o} : pc'[p] = pc[p] /\ req'[p] = req[p]
    BY <1>2 DEF Threads
  <2> QED BY <1>1, <1>2, <2>1, <2>2, QuietHandlers
<1>7. IInv'
  BY CommitStep, RollbackStep DEF OInv
<1> QED BY <1>3, <1>4, <1>5, <1>6, <1>7 DEF OInv

-----------------------------------------------------------------------------
(***************************************************************************)
(* The steps that move an entry of the dictionary.                         *)
(***************************************************************************)
\* A request that does not move keeps what it has at hand.
LEMMA StillHeld ==
  ASSUME NEW p \in Ops, NEW h, Held(p, h),
         pc'[p] = pc[p], req'[p] = req[p], prev'[p] = prev[p], todo'[p] = todo[p],
         calls'[p] = calls[p]
  PROVE  Held(p, h)'
BY DEF Held, Callback, Unsub

LEMMA CreatedOwn ==
  ASSUME OInv, NEW o \in Ops, Created(o)
  PROVE  OInv'
<1> DEFINE s == req[o].sub  entry == callbacks'[s]
<1>1. /\ pc[o] = "publish" /\ o \in Threads /\ o # Boot /\ s \in Subs
      /\ req[o].kind = "create" /\ db[s] = Nil /\ pc[Boot] = "done"
      /\ \A p \in Ops \ {o} : req[p].sub # s
      /\ \A h \in handlers : h.fn.sub # s
      /\ TypeOK /\ BootPhase /\ HandlersOwned
  BY BootAssumption DEF Created, Threads, OInv, IInv, Shape, Creating, BootPhase
<1>2. Register(o, req[o]) /\ UNCHANGED <<db, rowLock, handlers, req, prev, calls, backlog>>
  BY <1>1 DEF Created, MasterKnown
<1>3. /\ entry.fn = Callback(o, req[o])
      /\ \A x \in Subs \ {s} : callbacks'[x] = callbacks[x]
      /\ todo'[o] = req[o].row.events
      /\ pc'[o] = "loop"
      /\ \A t \in Threads \ {o} : pc'[t] = pc[t] /\ todo'[t] = todo[t]
  BY <1>1, <1>2 DEF Register, Goto, TypeOK
<1> HIDE DEF s
<1>4. ASSUME NEW p \in Ops PROVE Shape(p)' /\ Creating(p)' /\ UpdatingOwns(p)'
  <2>1. Shape(p) /\ Creating(p) /\ UpdatingOwns(p) /\ p \in Threads
    BY DEF OInv, Threads
  <2>2. CASE p = o
    BY <1>1, <1>2, <1>3, <2>1, <2>2 DEF Shape, Creating, UpdatingOwns, Callback, s
  <2>3. CASE p # o
    <3>1. pc'[p] = pc[p] /\ req[p].sub # s
      BY <1>1, <1>3, <2>1, <2>3
    <3> QED BY <1>2, <1>3, <2>1, <3>1 DEF Shape, Creating, UpdatingOwns, Callback
  <2> QED BY <2>2, <2>3
<1>5. BootPhase'
  <2>1. pc'[Boot] = "done"
    BY <1>1, <1>3 DEF Threads
  <2> QED BY <1>1, <1>2, <2>1 DEF BootPhase
<1>6. ASSUME NEW t \in Threads PROVE Scope(t)'
  <2>1. CASE t = o
    BY <1>1, <1>2, <1>3, <2>1 DEF OInv, Scope
  <2>2. CASE t # o
    BY <1>1, <1>2, <1>3, <2>2 DEF OInv, Scope
  <2> QED BY <2>1, <2>2
<1>7. HandlersOwned'
  <2> SUFFICES ASSUME NEW h \in handlers PROVE Touched(h.fn.sub)' /\ Accounted(h)'
    BY <1>1, <1>2 DEF HandlersOwned
  <2>1. Touched(h.fn.sub) /\ Accounted(h) /\ h.fn.sub \in Subs \ {s}
    BY <1>1 DEF HandlersOwned, TypeOK, CallbackType
  <2>2. CASE callbacks[h.fn.sub].fn = h.fn
    BY <1>2, <1>3, <2>1, <2>2 DEF Accounted, Touched
  <2>3. ASSUME NEW p \in Ops, Held(p, h) PROVE Accounted(h)'
    <3>1. p # o /\ p \in Threads
      BY <1>1, <2>3 DEF Held, Threads
    <3> QED BY <1>2, <1>3, <2>3, <3>1, StillHeld DEF Accounted
  <2> QED BY <1>2, <2>1, <2>2, <2>3 DEF Accounted, Touched
<1>8. IInv'
  BY CreatedStep DEF OInv
<1> QED BY <1>4, <1>5, <1>6, <1>7, <1>8 DEF OInv

\* Whoever pops an entry has its callback at hand for every event of its row.
LEMMA PopOwn ==
  ASSUME OInv, NEW o \in Ops, pc[o] = "publish", req[o].kind \in {"delete", "update"},
         prev' = [prev EXCEPT ![o] = callbacks[req[o].sub]],
         callbacks' = [callbacks EXCEPT ![req[o].sub] = EmptyEntry],
         EventsOf(callbacks[req[o].sub]) \subseteq todo'[o],
         pc' = [pc EXCEPT ![o] = "loop"],
         \A t \in Threads \ {o} : todo'[t] = todo[t],
         UNCHANGED <<db, rowLock, handlers, req, calls, backlog>>
  PROVE  /\ \A p \in Ops : Shape(p)' /\ Creating(p)' /\ UpdatingOwns(p)'
         /\ BootPhase' /\ \A t \in Threads : Scope(t)'
         /\ HandlersOwned'
<1> DEFINE s == req[o].sub
<1>1. /\ o \in Threads /\ o # Boot /\ s \in Subs /\ pc[Boot] = "done" /\ calls[o] = <<>>
      /\ TypeOK /\ BootPhase /\ HandlersOwned
  BY BootAssumption DEF Threads, OInv, IInv, Local, Shape, BootPhase
<1>2. /\ callbacks'[s] = EmptyEntry /\ prev'[o] = callbacks[s] /\ pc'[o] = "loop"
      /\ \A x \in Subs \ {s} : callbacks'[x] = callbacks[x]
      /\ \A t \in Threads \ {o} : pc'[t] = pc[t] /\ prev'[t] = prev[t]
  BY <1>1 DEF TypeOK
<1> HIDE DEF s
<1>3. ASSUME NEW p \in Ops PROVE Shape(p)' /\ Creating(p)' /\ UpdatingOwns(p)'
  <2>1. Shape(p) /\ Creating(p) /\ UpdatingOwns(p) /\ p \in Threads
    BY DEF OInv, Threads
  <2>2. CASE p = o
    BY <1>1, <1>2, <2>1, <2>2 DEF Shape, Creating, UpdatingOwns, Callback, s
  <2>3. CASE p # o
    <3>1. pc'[p] = pc[p] /\ prev'[p] = prev[p]
      BY <1>2, <2>1, <2>3
    <3>2. req[p].kind = "create" /\ pc[p] \in {"publish", "loop", "notify"} => req[p].sub # s
      BY <2>1, <2>3 DEF Creating, s
    <3> QED BY <1>2, <2>1, <3>1, <3>2 DEF Shape, Creating, UpdatingOwns, Callback
  <2> QED BY <2>2, <2>3
<1>4. BootPhase'
  <2>1. pc'[Boot] = "done"
    BY <1>1, <1>2 DEF Threads
  <2> QED BY <1>1, <2>1 DEF BootPhase
<1>5. ASSUME NEW t \in Threads PROVE Scope(t)'
  <2>1. CASE t = o
    BY <1>1, <2>1 DEF Scope
  <2>2. CASE t # o
    BY <1>1, <1>2, <2>2 DEF OInv, Scope
  <2> QED BY <2>1, <2>2
<1>6. HandlersOwned'
  <2> SUFFICES ASSUME NEW h \in handlers PROVE Touched(h.fn.sub)' /\ Accounted(h)'
    BY <1>1 DEF HandlersOwned
  <2>1. /\ Touched(h.fn.sub) /\ Accounted(h) /\ h.fn.sub \in Subs
        /\ h.event \in h.fn.row.events /\ h.fn # Nil
    BY <1>1, NilAssumption DEF HandlersOwned, TypeOK, CallbackType
  <2>2. CASE callbacks[h.fn.sub].fn = h.fn /\ h.fn.sub = s
    <3>1. h.event \in todo'[o]
      BY <2>1, <2>2 DEF EventsOf, s
    <3>2. Held(o, h)'
      BY <1>1, <1>2, <2>2, <3>1 DEF Held
    <3> QED BY <2>1, <3>2 DEF Accounted, Touched
  <2>3. CASE callbacks[h.fn.sub].fn = h.fn /\ h.fn.sub # s
    BY <1>2, <2>1, <2>3 DEF Accounted, Touched
  <2>4. ASSUME NEW p \in Ops, Held(p, h) PROVE Accounted(h)'
    <3>1. p # o /\ p \in Threads
      BY <1>1, <2>4 DEF Held, Threads
    <3> QED BY <1>1, <1>2, <2>4, <3>1, StillHeld DEF Accounted
  <2> QED BY <2>1, <2>2, <2>3, <2>4 DEF Accounted, Touched
<1> QED BY <1>3, <1>4, <1>5, <1>6

LEMMA DeletedOwn ==
  ASSUME OInv, NEW o \in Ops, Deleted(o)
  PROVE  OInv'
<1>1. /\ pc[o] = "publish" /\ req[o].kind = "delete" /\ o \in Threads /\ TypeOK
  BY DEF Deleted, Threads, OInv, IInv
<1>2. /\ prev' = [prev EXCEPT ![o] = callbacks[req[o].sub]]
      /\ callbacks' = [callbacks EXCEPT ![req[o].sub] = EmptyEntry]
      /\ todo' = [todo EXCEPT ![o] = EventsOf(callbacks[req[o].sub])]
      /\ pc' = [pc EXCEPT ![o] = "loop"]
      /\ UNCHANGED <<db, rowLock, handlers, req, calls, backlog>>
  BY DEF Deleted, Goto
<1>3. /\ EventsOf(callbacks[req[o].sub]) \subseteq todo'[o]
      /\ \A t \in Threads \ {o} : todo'[t] = todo[t]
  BY <1>1, <1>2 DEF TypeOK
<1>4. IInv'
  BY DeletedStep DEF OInv
<1> QED BY <1>1, <1>2, <1>3, <1>4, PopOwn DEF OInv

LEMMA UpdatedOwn ==
  ASSUME OInv, NEW o \in Ops, Updated(o)
  PROVE  OInv'
<1>1. /\ pc[o] = "publish" /\ req[o].kind = "update" /\ o \in Threads /\ o # Boot
      /\ TypeOK /\ BootPhase /\ HandlersOwned /\ pc[Boot] = "done"
  BY BootAssumption DEF Updated, Threads, OInv, IInv, BootPhase
<1>2. IInv'
  BY UpdatedStep DEF OInv
<1>3. CASE MasterKnown /\ callbacks[req[o].sub] # EmptyEntry
  <2>1. /\ prev' = [prev EXCEPT ![o] = callbacks[req[o].sub]]
        /\ callbacks' = [callbacks EXCEPT ![req[o].sub] = EmptyEntry]
        /\ todo' = [todo EXCEPT ![o] = EventsOf(callbacks[req[o].sub]) \cup req[o].row.events]
        /\ pc' = [pc EXCEPT ![o] = "loop"]
        /\ UNCHANGED <<db, rowLock, handlers, req, calls, backlog>>
    BY <1>3 DEF Updated, Goto
  <2>2. /\ EventsOf(callbacks[req[o].sub]) \subseteq todo'[o]
        /\ \A t \in Threads \ {o} : todo'[t] = todo[t]
    BY <1>1, <2>1 DEF TypeOK
  <2> QED BY <1>1, <1>2, <2>1, <2>2, PopOwn DEF OInv
<1>4. CASE ~(MasterKnown /\ callbacks[req[o].sub] # EmptyEntry)
  <2>1. /\ pc' = [pc EXCEPT ![o] = "notify"]
        /\ UNCHANGED <<db, rowLock, callbacks, handlers, req, prev, todo, calls, backlog>>
    BY <1>4 DEF Updated, Goto
  <2>2. pc'[o] = "notify" /\ \A t \in Threads \ {o} : pc'[t] = pc[t]
    BY <1>1, <2>1 DEF TypeOK
  <2>3. ASSUME NEW p \in Ops PROVE Shape(p)' /\ Creating(p)' /\ UpdatingOwns(p)'
    <3>1. Shape(p) /\ Creating(p) /\ UpdatingOwns(p) /\ p \in Threads
      BY DEF OInv, Threads
    <3>2. CASE p = o
      BY <1>1, <2>1, <2>2, <3>1, <3>2 DEF Shape, Creating, UpdatingOwns
    <3>3. CASE p # o
      <4>1. pc'[p] = pc[p]
        BY <2>2, <3>1, <3>3
      <4> QED BY <2>1, <3>1, <4>1 DEF Shape, Creating, UpdatingOwns, Callback
    <3> QED BY <3>2, <3>3
  <2>4. BootPhase'
    <3>1. pc'[Boot] = "done"
      BY <1>1, <2>2 DEF Threads
    <3> QED BY <1>1, <2>1, <3>1 DEF BootPhase
  <2>5. ASSUME NEW t \in Threads PROVE Scope(t)'
    BY <1>1, <2>1, <2>2 DEF OInv, Scope
  <2>6. HandlersOwned'
    <3>1. \A x \in Subs : Touched(x) => Touched(x)'
      BY <2>1 DEF Touched
    <3>2. \A p \in Ops \ {o} : pc'[p] = pc[p] /\ req'[p] = req[p]
      BY <2>1, <2>2 DEF Threads
    <3> QED BY <1>1, <2>1, <3>1, <3>2, QuietHandlers
  <2> QED BY <1>2, <2>3, <2>4, <2>5, <2>6 DEF OInv
<1> QED BY <1>3, <1>4

-----------------------------------------------------------------------------
(***************************************************************************)
(* The loops.                                                              *)
(***************************************************************************)
\* A turn has the callback popped unsubscribed from the event it is about.
LEMMA CallsForOwn ==
  ASSUME NEW t \in Threads, NEW e \in Events, NEW h
  PROVE  /\ req[t].kind \in {"delete", "update"} /\ e \in EventsOf(prev[t]) =>
              \E i \in DOMAIN CallsFor(t, e, h) : CallsFor(t, e, h)[i] = Unsub(e)
         /\ \A i \in DOMAIN CallsFor(t, e, h) : CallsFor(t, e, h)[i].do = "subscribe" =>
              /\ CallsFor(t, e, h)[i].event = e
              /\ req[t].kind # "delete"
              /\ req[t].kind = "update" => e \in req[t].row.events
<1> DEFINE u == Unsub(e)  s == Sub(e, h)  C == CallsFor(t, e, h)
<1>1. u.do # "subscribe" /\ s.event = e
  BY DEF Unsub, Sub
<1>2. req[t].kind = "delete" => C = <<u>>
  <2> HIDE DEF u
  <2> QED BY DEF CallsFor, u
<1>3. /\ req[t].kind = "update" /\ e \notin req[t].row.events => C = <<u>>
      /\ req[t].kind = "update" /\ e \in EventsOf(prev[t]) =>
           C \in {<<u>>, <<s, u>>, <<u, s>>}
      /\ req[t].kind = "update" => C \in {<<u>>, <<s>>, <<s, u>>, <<u, s>>}
  <2>1. req[t].kind = "update" => C = UpdateCalls(t, e, h)
    BY Zenon DEF CallsFor
  <2> HIDE DEF u, s, C
  <2> QED BY <2>1, Zenon DEF UpdateCalls, u, s
<1>4. req[t].kind \notin {"delete", "update"} => C = <<s>>
  <2> HIDE DEF s
  <2> QED BY DEF CallsFor, s
<1> HIDE DEF u, s, C
<1>5. req[t].kind \in {"delete", "update"} /\ e \in EventsOf(prev[t]) =>
        \E i \in DOMAIN C : C[i] = u
  BY <1>2, <1>3
<1>6. \A i \in DOMAIN C : C[i].do = "subscribe" =>
        /\ C[i].event = e /\ req[t].kind # "delete"
        /\ req[t].kind = "update" => e \in req[t].row.events
  BY <1>1, <1>2, <1>3, <1>4
<1> QED BY <1>5, <1>6 DEF u, C

LEMMA TurnOwn ==
  ASSUME OInv, NEW t \in Threads, NEW e \in Events, Turn(t, e)
  PROVE  OInv'
<1> DEFINE g == IF req[t].kind = "delete" THEN Nil ELSE HandleTenantEvents(e, headers[t])
           C == CallsFor(t, e, g)
<1>0. UNCHANGED <<db, callbacks, handlers, pc, req, prev>>
  BY DEF Turn, registry
<1>1. /\ pc[t] = "loop" /\ calls[t] = <<>> /\ e \in todo[t]
      /\ TypeOK /\ BootPhase /\ HandlersOwned
  BY DEF Turn, OInv, IInv
<1>2. /\ todo' = [todo EXCEPT ![t] = @ \ {e}]
      /\ calls' = [calls EXCEPT ![t] = C]
      /\ UNCHANGED <<db, rowLock, callbacks, handlers, pc, req, prev, backlog>>
  BY DEF Turn, registry
<1>3. /\ req[t].kind \in {"delete", "update"} /\ e \in EventsOf(prev[t]) =>
           \E i \in DOMAIN C : C[i] = Unsub(e)
      /\ \A i \in DOMAIN C : C[i].do = "subscribe" =>
           /\ C[i].event = e /\ req[t].kind # "delete"
           /\ req[t].kind = "update" => e \in req[t].row.events
  <2> HIDE DEF g
  <2> QED BY CallsForOwn
<1> HIDE DEF C
<1>4. /\ todo'[t] = todo[t] \ {e} /\ calls'[t] = C
      /\ \A u \in Threads \ {t} : todo'[u] = todo[u] /\ calls'[u] = calls[u]
  BY <1>1, <1>2 DEF TypeOK
<1>5. ASSUME NEW p \in Ops PROVE Shape(p)' /\ Creating(p)' /\ UpdatingOwns(p)'
  BY <1>2 DEF OInv, Shape, Creating, UpdatingOwns, Callback
<1>6. BootPhase'
  BY <1>1, <1>2 DEF BootPhase, Callback
<1>7. req[t].kind \in {"create", "update", "delete", "boot"}
  BY <1>1 DEF OInv, Shape, BootPhase, Threads
<1>8. ASSUME NEW u \in Threads PROVE Scope(u)'
  <2>1. CASE u = t
    BY <1>1, <1>2, <1>3, <1>4, <1>7, <2>1 DEF OInv, Scope
  <2>2. CASE u # t
    BY <1>2, <1>4, <2>2 DEF OInv, Scope
  <2> QED BY <2>1, <2>2
<1>9. HandlersOwned'
  <2> SUFFICES ASSUME NEW h \in handlers PROVE Touched(h.fn.sub)' /\ Accounted(h)'
    BY <1>0, <1>1 DEF HandlersOwned
  <2>1. /\ Touched(h.fn.sub)' /\ Accounted(h) /\ h.event \in h.fn.row.events /\ h.fn # Nil
    BY <1>0, <1>1, NilAssumption DEF HandlersOwned, TypeOK, CallbackType, Touched
  <2>2. CASE callbacks[h.fn.sub].fn = h.fn
    BY <1>0, <2>1, <2>2 DEF Accounted
  <2>3. ASSUME NEW p \in Ops, Held(p, h) PROVE Accounted(h)'
    <3>1. CASE p # t
      <4>1. p \in Threads
        BY DEF Threads
      <4> QED BY <1>2, <1>4, <2>3, <3>1, <4>1, StillHeld DEF Accounted
    <3>2. CASE p = t /\ req[p].kind = "update" /\ h.fn = Callback(p, req[p])
      BY <1>1, <1>2, <3>2 DEF Accounted, Held, Callback
    <3>3. CASE p = t /\ h.fn = prev[p].fn /\ h.event # e /\ h.event \in todo[t]
      <4>1. h.event \in todo'[t]
        BY <1>4, <3>3
      <4>2. Held(t, h)'
        BY <1>0, <1>1, <3>3, <4>1 DEF Held
      <4> QED BY <3>3, <4>2 DEF Accounted
    <3>4. CASE p = t /\ h.fn = prev[p].fn /\ h.event = e
      <4>1. e \in EventsOf(prev[t])
        BY <2>1, <3>4 DEF EventsOf
      <4>2. prev[t] # EmptyEntry
        BY <2>1, <3>4 DEF EmptyEntry
      <4>3. req[t].kind \in {"delete", "update"}
        BY <1>1, <3>4, <4>2 DEF OInv, Shape
      <4>4. \E i \in DOMAIN calls'[t] : calls'[t][i] = Unsub(h.event)
        BY <1>3, <1>4, <3>4, <4>1, <4>3
      <4>5. Held(t, h)'
        BY <1>1, <1>2, <3>4, <4>4 DEF Held, Unsub
      <4> QED BY <3>4, <4>5 DEF Accounted
    <3> QED BY <1>1, <2>3, <3>1, <3>2, <3>3, <3>4 DEF Held
  <2> QED BY <2>1, <2>2, <2>3 DEF Accounted
<1>10. IInv'
  BY TurnStep DEF OInv
<1> QED BY <1>5, <1>6, <1>8, <1>9, <1>10 DEF OInv

\* A subscription adds a handler of a callback that its thread has at hand.
LEMMA SubscribeOwn ==
  ASSUME OInv, NEW t \in Threads, Subscribe(t)
  PROVE  OInv'
<1> DEFINE c == Head(calls[t])
<1> PICK x : x = [event |-> c.event, fn |-> Callback(t, req[t]), headers |-> c.headers]
  OBVIOUS
<1>0. /\ UNCHANGED <<db, rowLock, callbacks, pc, req, prev, todo, backlog>>
      /\ handlers' = handlers \cup {x} /\ calls' = [calls EXCEPT ![t] = Tail(@)]
  BY DEF Subscribe
<1>1. /\ pc[t] = "loop" /\ calls[t] # <<>> /\ c.do = "subscribe"
      /\ req[t].sub \in Subs /\ calls \in [Threads -> Seq(CallType)]
      /\ TypeOK /\ BootPhase /\ HandlersOwned
  BY CallFacts DEF Subscribe, OInv, IInv, TypeOK
<1>2. c.event \in req[t].row.events /\ req[t].kind # "delete"
  BY <1>1 DEF OInv, Scope
<1> HIDE DEF c
<1>3. /\ calls'[t] = Tail(calls[t])
      /\ \A u \in Threads \ {t} : calls'[u] = calls[u]
      /\ DOMAIN Tail(calls[t]) \subseteq DOMAIN calls[t]
      /\ \A i \in DOMAIN Tail(calls[t]) :
           i + 1 \in DOMAIN calls[t] /\ Tail(calls[t])[i] = calls[t][i + 1]
  BY <1>0, <1>1
<1>4. x.event = c.event /\ x.fn = Callback(t, req[t]) /\ x.fn.sub = req[t].sub
      /\ x.fn.row = req[t].row
  BY DEF Callback
<1>5. ASSUME NEW p \in Ops PROVE Shape(p)' /\ Creating(p)' /\ UpdatingOwns(p)'
  <2>1. Shape(p) /\ Creating(p) /\ UpdatingOwns(p)
    BY DEF OInv
  <2>2. req[p].kind = "create" /\ pc[p] = "publish" => x.fn.sub # req[p].sub
    <3>1. CASE t = Boot
      <4>1. pc[Boot] # "done"
        BY <1>1, <3>1
      <4> QED BY <1>1, <4>1 DEF BootPhase
    <3>2. CASE t \in Ops
      BY <1>1, <1>4, <2>1, <3>2 DEF Creating
    <3> QED BY <3>1, <3>2 DEF Threads
  <2> QED BY <1>0, <2>1, <2>2 DEF Shape, Creating, UpdatingOwns, Callback
<1>6. BootPhase'
  <2>1. ASSUME NEW b \in backlog PROVE x.fn.sub # b.sub
    <3>1. pc[Boot] # "done"
      BY <1>1, <2>1 DEF BootPhase
    <3>2. t = Boot
      BY <1>1, <3>1 DEF BootPhase, Threads
    <3> QED BY <1>1, <1>4, <2>1, <3>2 DEF BootPhase
  <2>2. pc[Boot] \in {"waiting", "list"} => FALSE
    <3>1. SUFFICES ASSUME pc[Boot] \in {"waiting", "list"} PROVE FALSE
      OBVIOUS
    <3>2. t \in Ops /\ pc[Boot] # "done"
      BY <1>1, <3>1 DEF Threads
    <3> QED BY <1>1, <3>2 DEF BootPhase
  <2> QED BY <1>0, <1>1, <2>1, <2>2 DEF BootPhase, Callback
<1>7. ASSUME NEW u \in Threads PROVE Scope(u)'
  <2>1. CASE u = t
    <3>1. \A i \in DOMAIN calls'[t] : calls'[t][i].do = "subscribe" =>
            calls'[t][i].event \in req[t].row.events /\ req[t].kind # "delete"
      BY <1>3 DEF OInv, Scope
    <3> QED BY <1>0, <2>1, <3>1 DEF OInv, Scope
  <2>2. CASE u # t
    BY <1>0, <1>3, <2>2 DEF OInv, Scope
  <2> QED BY <2>1, <2>2
<1>8. Touched(x.fn.sub)' /\ Accounted(x)'
  <2>1. CASE t = Boot
    <3>1. db[req[Boot].sub] # Nil /\ callbacks[req[Boot].sub].fn = Callback(Boot, req[Boot])
      BY <1>1, <2>1 DEF BootPhase
    <3> QED BY <1>0, <1>4, <2>1, <3>1 DEF Touched, Accounted
  <2>2. CASE t \in Ops
    <3>1. Touched(x.fn.sub)'
      BY <1>0, <1>4, <2>2 DEF Touched
    <3>2. CASE req[t].kind = "create"
      BY <1>0, <1>1, <1>4, <2>2, <3>1, <3>2 DEF OInv, Creating, Accounted
    <3>3. CASE req[t].kind = "update"
      BY <1>0, <1>1, <1>4, <2>2, <3>1, <3>3 DEF Accounted, Held, Callback
    <3> QED BY <1>1, <1>2, <2>2, <3>2, <3>3, <3>1 DEF OInv, Shape
  <2> QED BY <2>1, <2>2 DEF Threads
<1>9. HandlersOwned'
  <2>1. x.event \in x.fn.row.events
    BY <1>2, <1>4
  <2> SUFFICES ASSUME NEW h \in handlers PROVE Touched(h.fn.sub)' /\ Accounted(h)'
    BY <1>0, <1>1, <1>8, <2>1 DEF HandlersOwned
  <2>2. Touched(h.fn.sub)' /\ Accounted(h)
    BY <1>0, <1>1 DEF HandlersOwned, Touched
  <2>3. CASE callbacks[h.fn.sub].fn = h.fn
    BY <1>0, <2>2, <2>3 DEF Accounted
  <2>4. ASSUME NEW p \in Ops, Held(p, h) PROVE Accounted(h)'
    <3>1. CASE p # t
      <4>1. p \in Threads
        BY DEF Threads
      <4> QED BY <1>0, <1>3, <2>4, <3>1, <4>1, StillHeld DEF Accounted
    <3>2. CASE p = t /\ ~\E i \in DOMAIN calls[p] : calls[p][i] = Unsub(h.event)
      BY <1>0, <1>1, <2>4, <3>2 DEF Accounted, Held, Callback
    <3>3. CASE p = t /\ \E i \in DOMAIN calls[p] : calls[p][i] = Unsub(h.event)
      <4>1. PICK i \in DOMAIN calls[t] : calls[t][i] = Unsub(h.event)
        BY <3>3
      <4>2. i # 1
        BY <1>1, <4>1 DEF Unsub, c
      <4>3. \E j \in DOMAIN calls'[t] : calls'[t][j] = Unsub(h.event)
        <5>1. i - 1 \in DOMAIN Tail(calls[t]) /\ Tail(calls[t])[i - 1] = calls[t][i]
          BY <1>1, <4>1, <4>2
        <5> QED BY <1>3, <4>1, <5>1
      <4>4. Held(t, h)'
        BY <1>0, <1>1, <2>4, <3>3, <4>3 DEF Held, Callback, Unsub
      <4> QED BY <3>3, <4>4 DEF Accounted
    <3> QED BY <3>1, <3>2, <3>3
  <2> QED BY <2>2, <2>3, <2>4 DEF Accounted
<1>10. IInv'
  BY SubscribeStep DEF OInv
<1> QED BY <1>5, <1>6, <1>7, <1>9, <1>10 DEF OInv

\* An unsubscription removes the handlers that were held for it.
LEMMA UnsubscribeOwn ==
  ASSUME OInv, NEW t \in Threads, Unsubscribe(t)
  PROVE  OInv'
<1> DEFINE c == Head(calls[t])
<1>0. /\ UNCHANGED <<db, rowLock, callbacks, pc, req, prev, todo, backlog>>
      /\ handlers' = handlers \ {h \in handlers : h.event = c.event /\ h.fn = prev[t].fn}
      /\ calls' = [calls EXCEPT ![t] = Tail(@)]
  BY DEF Unsubscribe
<1>1. /\ pc[t] = "loop" /\ calls[t] # <<>> /\ c.do = "unsubscribe"
      /\ calls \in [Threads -> Seq(CallType)]
      /\ TypeOK /\ BootPhase /\ HandlersOwned
  BY CallFacts DEF Unsubscribe, OInv, IInv, TypeOK
<1> HIDE DEF c
<1>3. /\ calls'[t] = Tail(calls[t])
      /\ \A u \in Threads \ {t} : calls'[u] = calls[u]
      /\ \A i \in DOMAIN Tail(calls[t]) :
           i + 1 \in DOMAIN calls[t] /\ Tail(calls[t])[i] = calls[t][i + 1]
  BY <1>0, <1>1
<1>4. handlers' \subseteq handlers
  BY <1>0
<1>5. ASSUME NEW p \in Ops PROVE Shape(p)' /\ Creating(p)' /\ UpdatingOwns(p)'
  BY <1>0, <1>4 DEF OInv, Shape, Creating, UpdatingOwns, Callback
<1>6. BootPhase'
  BY <1>0, <1>1, <1>4 DEF BootPhase, Callback
<1>7. ASSUME NEW u \in Threads PROVE Scope(u)'
  <2>1. CASE u = t
    <3>1. \A i \in DOMAIN calls'[t] : calls'[t][i].do = "subscribe" =>
            calls'[t][i].event \in req[t].row.events /\ req[t].kind # "delete"
      BY <1>3 DEF OInv, Scope
    <3> QED BY <1>0, <2>1, <3>1 DEF OInv, Scope
  <2>2. CASE u # t
    BY <1>0, <1>3, <2>2 DEF OInv, Scope
  <2> QED BY <2>1, <2>2
<1>9. HandlersOwned'
  <2> SUFFICES ASSUME NEW h \in handlers' PROVE Touched(h.fn.sub)' /\ Accounted(h)'
    BY <1>1, <1>4 DEF HandlersOwned
  <2>2. Touched(h.fn.sub)' /\ Accounted(h)
    BY <1>0, <1>1, <1>4 DEF HandlersOwned, Touched
  <2>3. CASE callbacks[h.fn.sub].fn = h.fn
    BY <1>0, <2>2, <2>3 DEF Accounted
  <2>4. ASSUME NEW p \in Ops, Held(p, h) PROVE Accounted(h)'
    <3>1. CASE p # t
      <4>1. p \in Threads
        BY DEF Threads
      <4> QED BY <1>0, <1>3, <1>4, <2>4, <3>1, <4>1, StillHeld DEF Accounted
    <3>2. CASE p = t /\ ~\E i \in DOMAIN calls[p] : calls[p][i] = Unsub(h.event)
      BY <1>0, <1>1, <2>4, <3>2 DEF Accounted, Held, Callback
    <3>3. CASE p = t /\ req[t].kind = "update" /\ h.fn = Callback(t, req[t])
      BY <1>0, <1>1, <2>4, <3>3 DEF Accounted, Held, Callback
    <3>4. CASE /\ p = t /\ h.fn = prev[t].fn
               /\ \E i \in DOMAIN calls[p] : calls[p][i] = Unsub(h.event)
      <4>1. PICK i \in DOMAIN calls[t] : calls[t][i] = Unsub(h.event)
        BY <3>4
      <4>2. i # 1
        <5>1. h.event # c.event
          BY <1>0, <3>4
        <5> QED BY <1>1, <4>1, <5>1 DEF Unsub, c
      <4>3. \E j \in DOMAIN calls'[t] : calls'[t][j] = Unsub(h.event)
        <5>1. i - 1 \in DOMAIN Tail(calls[t]) /\ Tail(calls[t])[i - 1] = calls[t][i]
          BY <1>1, <4>1, <4>2
        <5> QED BY <1>3, <4>1, <5>1
      <4>4. Held(t, h)'
        BY <1>0, <1>1, <2>4, <3>4, <4>3 DEF Held, Callback, Unsub
      <4> QED BY <3>4, <4>4 DEF Accounted
    <3> QED BY <2>4, <3>1, <3>2, <3>3, <3>4 DEF Held
  <2> QED BY <2>2, <2>3, <2>4 DEF Accounted
<1>10. IInv'
  BY UnsubscribeStep DEF OInv
<1> QED BY <1>5, <1>6, <1>7, <1>9, <1>10 DEF OInv

\* A loop that ends has nothing left to do, so what was at hand is in the
\* dictionary or was unsubscribed.
LEMMA LoopEndsOwn ==
  ASSUME OInv, NEW t \in Threads, LoopEnds(t)
  PROVE  OInv'
<1>0. UNCHANGED <<db, rowLock, handlers, req, prev, todo, calls, backlog>>
  BY DEF LoopEnds, loop
<1>1. /\ pc[t] = "loop" /\ todo[t] = {} /\ calls[t] = <<>>
      /\ TypeOK /\ BootPhase /\ HandlersOwned
  BY DEF LoopEnds, OInv, IInv
<1>2. /\ pc'[t] = IF t = Boot THEN "next" ELSE "notify"
      /\ \A u \in Threads \ {t} : pc'[u] = pc[u]
  BY <1>1 DEF LoopEnds, Goto, TypeOK
<1>3. \A s \in Subs : s # req[t].sub \/ req[t].kind # "update" => callbacks'[s] = callbacks[s]
  BY <1>1 DEF LoopEnds, TypeOK
<1>4. req[t].kind = "update" =>
        t \in Ops /\ req[t].sub \in Subs /\ callbacks'[req[t].sub].fn = Callback(t, req[t])
  <2>1. req[t].kind = "update" => t \in Ops
    BY <1>1 DEF BootPhase, Threads
  <2>2. t \in Ops => req[t].sub \in Subs
    BY <1>1 DEF OInv, Shape
  <2> QED BY <1>1, <2>1, <2>2 DEF LoopEnds, TypeOK
<1>5. ASSUME NEW p \in Ops PROVE Shape(p)' /\ Creating(p)' /\ UpdatingOwns(p)'
  <2>1. Shape(p) /\ Creating(p) /\ UpdatingOwns(p) /\ p \in Threads /\ p # Boot
    BY BootAssumption DEF OInv, Threads
  <2>2. CASE p = t
    BY <1>0, <1>1, <1>2, <2>1, <2>2 DEF Shape, Creating, UpdatingOwns
  <2>3. CASE p # t
    <3>1. pc'[p] = pc[p]
      BY <1>2, <2>1, <2>3
    <3>2. pc[p] = "loop" /\ req[p].kind \in {"create", "update"} =>
            callbacks'[req[p].sub] = callbacks[req[p].sub]
      <4>1. SUFFICES ASSUME pc[p] = "loop", req[p].kind \in {"create", "update"},
                            req[t].kind = "update", req[t].sub = req[p].sub
                     PROVE  FALSE
        BY <1>3, <2>1 DEF Shape
      <4>2. t \in Ops /\ UpdatingOwns(t)
        BY <1>4, <4>1 DEF OInv
      <4> QED BY <1>1, <2>1, <2>3, <4>1, <4>2 DEF Creating, UpdatingOwns
    <3> QED BY <1>0, <2>1, <3>1, <3>2 DEF Shape, Creating, UpdatingOwns, Callback
  <2> QED BY <2>2, <2>3
<1>6. BootPhase'
  <2>1. CASE t = Boot
    BY <1>0, <1>1, <1>2, <2>1 DEF BootPhase, Threads
  <2>2. CASE t # Boot
    <3>1. pc[Boot] = "done" /\ pc'[Boot] = "done"
      BY <1>1, <1>2, <2>2 DEF BootPhase, Threads
    <3> QED BY <1>0, <1>1, <3>1 DEF BootPhase
  <2> QED BY <2>1, <2>2
<1>7. ASSUME NEW u \in Threads PROVE Scope(u)'
  <2>1. CASE u = t
    BY <1>0, <1>1, <1>2, <2>1 DEF OInv, Scope
  <2>2. CASE u # t
    BY <1>0, <1>2, <2>2 DEF OInv, Scope
  <2> QED BY <2>1, <2>2
<1>9. HandlersOwned'
  <2> SUFFICES ASSUME NEW h \in handlers PROVE Touched(h.fn.sub)' /\ Accounted(h)'
    BY <1>0, <1>1 DEF HandlersOwned
  <2>1. /\ Touched(h.fn.sub)' /\ Accounted(h) /\ h.fn # Nil
        /\ h.fn.sub \in Subs
    BY <1>0, <1>1, NilAssumption DEF HandlersOwned, Touched, TypeOK, CallbackType
  <2>2. CASE callbacks[h.fn.sub].fn = h.fn
    <3>1. callbacks'[h.fn.sub] = callbacks[h.fn.sub]
      <4>1. SUFFICES ASSUME req[t].kind = "update", req[t].sub = h.fn.sub PROVE FALSE
        BY <1>3, <2>1
      <4>2. callbacks[h.fn.sub] = EmptyEntry
        BY <1>1, <1>4, <4>1 DEF OInv, UpdatingOwns
      <4> QED BY <2>1, <2>2, <4>2 DEF EmptyEntry
    <3> QED BY <2>1, <2>2, <3>1 DEF Accounted
  <2>3. ASSUME NEW p \in Ops, Held(p, h) PROVE Accounted(h)'
    <3>1. CASE p # t
      <4>1. p \in Threads
        BY DEF Threads
      <4>2. pc'[p] = pc[p] /\ req'[p] = req[p] /\ prev'[p] = prev[p]
            /\ todo'[p] = todo[p] /\ calls'[p] = calls[p]
        BY <1>0, <1>2, <3>1, <4>1
      <4> QED BY <2>3, <4>2, StillHeld DEF Accounted
    <3>2. CASE p = t
      <4>1. req[t].kind = "update" /\ h.fn = Callback(t, req[t])
        BY <1>1, <2>3, <3>2 DEF Held
      <4>2. h.fn.sub = req[t].sub
        BY <4>1 DEF Callback
      <4> QED BY <1>4, <4>1, <4>2 DEF Accounted
    <3> QED BY <3>1, <3>2
  <2> QED BY <2>1, <2>2, <2>3 DEF Accounted
<1>10. IInv'
  BY LoopEndsStep DEF OInv
<1> QED BY <1>5, <1>6, <1>7, <1>9, <1>10 DEF OInv

-----------------------------------------------------------------------------
(***************************************************************************)
(* Boot.                                                                   *)
(***************************************************************************)
\* While Boot has not ended every request is still to come.
LEMMA BootAlone ==
  ASSUME OInv, pc[Boot] # "done", \A o \in Ops : pc'[o] = pc[o],
         UNCHANGED <<db, rowLock, prev>>,
         \A o \in Ops : req'[o] = req[o]
  PROVE  /\ \A o \in Ops : pc[o] = "ready" /\ req[o].sub = Nil
         /\ \A o \in Ops : Shape(o)' /\ Creating(o)' /\ UpdatingOwns(o)'
<1>1. \A o \in Ops : pc[o] = "ready" /\ Shape(o)
  BY DEF OInv, BootPhase
<1> QED BY <1>1 DEF Shape, Creating, UpdatingOwns

LEMMA BootQuietOwn ==
  ASSUME OInv, TokenReceived \/ BootList \/ BootEnds
  PROVE  OInv'
<1>0. UNCHANGED <<db, rowLock, callbacks, handlers, req, prev, todo, calls>>
  BY DEF TokenReceived, BootList, BootEnds, registry, loop
<1>1. /\ pc[Boot] \in {"waiting", "list", "next"} /\ pc'[Boot] \in {"list", "next", "done"}
      /\ \A u \in Threads \ {Boot} : pc'[u] = pc[u]
      /\ TypeOK /\ BootPhase /\ HandlersOwned /\ Boot \in Threads
  BY DEF TokenReceived, BootList, BootEnds, Goto, OInv, IInv, TypeOK, Threads
<1>2. \A o \in Ops : o \in Threads \ {Boot}
  BY BootAssumption DEF Threads
<1>3. /\ \A o \in Ops : pc[o] = "ready" /\ req[o].sub = Nil
      /\ \A o \in Ops : Shape(o)' /\ Creating(o)' /\ UpdatingOwns(o)'
  BY <1>0, <1>1, <1>2, BootAlone
<1>4. BootPhase'
  <2>1. CASE TokenReceived
    BY <1>0, <1>1, <1>2, <2>1 DEF BootPhase, TokenReceived, Goto
  <2>2. CASE BootList
    <3>1. pc[Boot] = "list" /\ pc'[Boot] = "next" /\ handlers = {}
      BY <1>1, <2>2 DEF BootPhase, BootList, Goto, TypeOK
    <3>2. \A b \in backlog' : /\ db[b.sub] # Nil
                              /\ \A c \in backlog' : c.sub = b.sub => c = b
      BY <2>2 DEF BootList
    <3> QED BY <1>0, <1>1, <1>2, <3>1, <3>2 DEF BootPhase
  <2>3. CASE BootEnds
    <3>1. pc'[Boot] = "done" /\ backlog = {} /\ backlog' = {}
      BY <1>1, <2>3 DEF BootEnds, Goto, TypeOK
    <3> QED BY <1>0, <3>1 DEF BootPhase
  <2> QED BY <2>1, <2>2, <2>3
<1>5. ASSUME NEW u \in Threads PROVE Scope(u)'
  BY <1>0, <1>1 DEF OInv, Scope
<1>6. HandlersOwned'
  <2>1. \A x \in Subs : Touched(x) => Touched(x)'
    BY <1>0 DEF Touched
  <2>2. \A p \in Ops \ {Boot} : pc'[p] = pc[p] /\ req'[p] = req[p]
    BY <1>0, <1>1, <1>2
  <2>3. pc[Boot] # "loop"
    BY <1>1
  <2> QED BY <1>0, <1>1, <2>1, <2>2, <2>3, QuietHandlers
<1>7. IInv'
  BY TokenReceivedStep, BootListStep, BootEndsStep DEF OInv
<1> QED BY <1>3, <1>4, <1>5, <1>6, <1>7 DEF OInv

LEMMA BootRegisterOwn ==
  ASSUME OInv, NEW b \in backlog, BootRegister(b)
  PROVE  OInv'
<1> DEFINE q == Request("boot", b.sub, b.row)
<1>0. /\ UNCHANGED <<db, rowLock, handlers, prev, calls>>
      /\ req' = [req EXCEPT ![Boot] = q] /\ backlog' = backlog \ {b}
      /\ Register(Boot, q) /\ pc[Boot] = "next"
  BY DEF BootRegister
<1>1. /\ TypeOK /\ BootPhase /\ HandlersOwned /\ Boot \in Threads
      /\ q.sub = b.sub /\ q.row = b.row /\ q.kind = "boot"
      /\ b.sub \in Subs /\ b.row \in Rows /\ calls[Boot] = <<>>
  BY <1>0 DEF OInv, IInv, TypeOK, Threads, Request, Local
<1>2. /\ pc'[Boot] = "loop" /\ req'[Boot] = q /\ todo'[Boot] = b.row.events
      /\ callbacks'[b.sub].fn = Callback(Boot, q)
      /\ \A u \in Threads \ {Boot} : pc'[u] = pc[u] /\ req'[u] = req[u] /\ todo'[u] = todo[u]
      /\ \A x \in Subs \ {b.sub} : callbacks'[x] = callbacks[x]
  <2> HIDE DEF q
  <2> QED BY <1>0, <1>1 DEF Register, Goto, TypeOK
<1>3. \A o \in Ops : o \in Threads \ {Boot}
  BY BootAssumption DEF Threads
<1>4. /\ \A o \in Ops : pc[o] = "ready" /\ req[o].sub = Nil
      /\ \A o \in Ops : Shape(o)' /\ Creating(o)' /\ UpdatingOwns(o)'
  <2>1. \A o \in Ops : pc'[o] = pc[o] /\ req'[o] = req[o]
    BY <1>2, <1>3
  <2> QED BY <1>0, <2>1, BootAlone
<1>5. /\ db[b.sub] # Nil
      /\ \A h \in handlers : h.fn.sub # b.sub
      /\ \A c \in backlog : c.sub = b.sub => c = b
  BY <1>1 DEF BootPhase
<1> HIDE DEF q
<1>6. BootPhase'
  <2>1. \A c \in backlog' : /\ db[c.sub] # Nil /\ c.sub # b.sub
                            /\ \A h \in handlers : h.fn.sub # c.sub
                            /\ \A d \in backlog' : d.sub = c.sub => d = c
    BY <1>0, <1>1, <1>5 DEF BootPhase
  <2>2. callbacks'[req'[Boot].sub].fn = Callback(Boot, req'[Boot])
    BY <1>1, <1>2
  <2>3. \A o \in Ops : pc'[o] = "ready"
    BY <1>2, <1>3, <1>4
  <2> QED BY <1>0, <1>1, <1>2, <1>5, <2>1, <2>2, <2>3 DEF BootPhase, Callback
<1>7. ASSUME NEW u \in Threads PROVE Scope(u)'
  <2>1. CASE u = Boot
    BY <1>0, <1>1, <1>2, <2>1 DEF Scope
  <2>2. CASE u # Boot
    BY <1>0, <1>2, <2>2 DEF OInv, Scope
  <2> QED BY <2>1, <2>2
<1>8. HandlersOwned'
  <2> SUFFICES ASSUME NEW h \in handlers PROVE Touched(h.fn.sub)' /\ Accounted(h)'
    BY <1>0, <1>1 DEF HandlersOwned
  <2>1. Touched(h.fn.sub) /\ Accounted(h) /\ h.fn.sub \in Subs \ {b.sub}
    BY <1>1, <1>5 DEF HandlersOwned, TypeOK, CallbackType
  <2>2. Touched(h.fn.sub)'
    BY <1>0, <1>2, <1>3, <2>1 DEF Touched
  <2>3. callbacks[h.fn.sub].fn = h.fn
    BY <1>4, <2>1 DEF Accounted, Held
  <2> QED BY <1>2, <2>1, <2>2, <2>3 DEF Accounted
<1>9. IInv'
  BY BootRegisterStep DEF OInv
<1> QED BY <1>4, <1>6, <1>7, <1>8, <1>9 DEF OInv

-----------------------------------------------------------------------------
(***************************************************************************)
(* OInv is inductive.                                                      *)
(***************************************************************************)
LEMMA OwnInit == Init => OInv
<1> SUFFICES ASSUME Init PROVE OInv
  OBVIOUS
<1>1. \A t \in Threads : /\ pc[t] = (IF t = Boot THEN "waiting" ELSE "ready")
                         /\ req[t] = Request(Nil, Nil, Nil) /\ prev[t] = EmptyEntry
                         /\ calls[t] = <<>>
  BY DEF Init
<1>2. \A o \in Ops : o \in Threads /\ o # Boot
  BY BootAssumption DEF Threads
<1>3. Request(Nil, Nil, Nil).sub = Nil
  BY DEF Request
<1>4. ASSUME NEW o \in Ops PROVE Shape(o) /\ Creating(o) /\ UpdatingOwns(o)
  BY <1>1, <1>2, <1>3 DEF Shape, Creating, UpdatingOwns
<1>5. BootPhase
  BY <1>1, <1>2 DEF BootPhase, Init, Threads
<1>6. \A t \in Threads : Scope(t)
  BY <1>1 DEF Scope
<1>7. HandlersOwned
  BY DEF Init, HandlersOwned
<1> QED BY <1>4, <1>5, <1>6, <1>7, InitEstablishes DEF OInv

LEMMA OwnStep ==
  ASSUME OInv, NoFault, [Next]_vars
  PROVE  OInv'
<1>1. CASE UNCHANGED vars
  <2>1. IInv'
    BY <1>1, NextPreserves DEF OInv
  <2>2. UNCHANGED <<db, rowLock, callbacks, handlers, pc, req, prev, todo, calls, backlog>>
    BY <1>1 DEF vars
  <2>3. \A o \in Ops : Shape(o)' /\ Creating(o)' /\ UpdatingOwns(o)'
    BY <2>2 DEF OInv, Shape, Creating, UpdatingOwns, Callback
  <2>4. BootPhase' /\ \A t \in Threads : Scope(t)'
    BY <2>2 DEF OInv, BootPhase, Scope, Callback
  <2>5. HandlersOwned'
    BY <2>2 DEF OInv, HandlersOwned, Accounted, Held, Touched, Callback, Unsub
  <2> QED BY <2>1, <2>3, <2>4, <2>5 DEF OInv
<1>2. ASSUME NEW t \in Threads, BusCall(t) \/ LoopEnds(t) \/ \E e \in Events : Turn(t, e)
      PROVE  OInv'
  BY <1>2, SubscribeOwn, UnsubscribeOwn, LoopEndsOwn, TurnOwn DEF BusCall
<1>3. CASE BootStep
  BY <1>2, <1>3, BootQuietOwn, BootRegisterOwn DEF BootStep, Threads
<1>4. ASSUME NEW o \in Ops, Step(o) PROVE OInv'
  BY <1>2, <1>4, UpdateFlushOwn, CreatedOwn, UpdatedOwn, DeletedOwn, EndOwn DEF Step, Threads
<1>5. ASSUME NEW o \in Ops, Requested(o) PROVE OInv'
  BY <1>5, CreateFlushOwn, UpdateGetOwn, DeleteGetOwn DEF Requested
<1>6. ASSUME NEW o \in Ops, Rollback(o) PROVE OInv'
  BY <1>6, EndOwn
<1>7. \A t : ~SubscribeRaises(t)
  BY DEF NoFault, SubscribeRaises
<1> QED BY <1>1, <1>3, <1>4, <1>5, <1>6, <1>7 DEF Next, Idle

=============================================================================
