------------------------ MODULE SubscriptionMirrorProofs ------------------------
(***************************************************************************)
(* The three copies of the subscriptions agree, for any requests that      *)
(* overlap as long as none fails and no delete overlaps an update: the     *)
(* dictionary of callbacks mirrors the database, every handler can be      *)
(* removed, and (with plain updates, see PlainUpdates) a message triggers  *)
(* one callback of each subscription whose row asks for it and no other.   *)
(* (Each of those faults breaks it: see the runs that expect a violation.) *)
(***************************************************************************)
EXTENDS SubscriptionOwnershipProofs

\* Requests may overlap their like; nothing else goes wrong.
Quiet == Faults \subseteq {"overlap"}

Active(o)  == pc[o] \in {"flush", "publish", "loop", "notify"}
Writes(o)  == pc[o] \in {"loop", "notify"} /\ req[o].kind \in {"create", "update"}
Removes(o) == pc[o] \in {"loop", "notify"} /\ req[o].kind = "delete"

\* The requests that run on one subscription are of one kind.
SameKind == \A o, p \in Ops :
  Active(o) /\ Active(p) /\ req[o].sub = req[p].sub => req[o].kind = req[p].kind

\* A row that is updated exists; an entry that is deleted is gone at once; and
\* no entry has the callback of a request before the request publishes.
Phase(o) ==
  /\ Active(o) /\ req[o].kind = "update" => db[req[o].sub] # Nil
  /\ Removes(o) => callbacks[req[o].sub] = EmptyEntry
  /\ pc[o] \in {"ready", "flush", "publish"} =>
       \A s \in Subs : callbacks[s] # EmptyEntry => callbacks[s].fn.by # o
  /\ pc[o] = "loop" /\ req[o].kind = "update" /\ prev[o] # EmptyEntry =>
       prev[o].fn.by # o

PhaseInv == SameKind /\ \A o \in Ops : Phase(o)

\* The entry of a subscription is that of its row.
Agree(s) == IF callbacks[s] = EmptyEntry
              THEN db[s] = Nil
              ELSE db[s] # Nil /\ callbacks[s].fn.row = db[s].row

\* A create or an update has armed its entry before it commits; while an
\* update loops the entry it popped is that of the row.
Ahead(o) ==
  LET s == req[o].sub IN
  /\ req[o].kind = "create" \/ pc[o] = "notify" =>
       callbacks[s].fn = Callback(o, req[o])
  /\ req[o].kind = "update" /\ pc[o] = "loop" =>
       prev[o] # EmptyEntry /\ prev[o].fn.row = db[s].row

\* Boot brings the entries in line, one row after the other.
BootMirror ==
  /\ pc[Boot] \in {"waiting", "list"} => \A s \in Subs : callbacks[s] = EmptyEntry
  /\ pc[Boot] \in {"next", "loop"} =>
       /\ \A b \in backlog : b.row = db[b.sub].row /\ callbacks[b.sub] = EmptyEntry
       /\ \A s \in Subs : Agree(s) \/ \E b \in backlog : b.sub = s

\* Then an entry and its row differ only while a request is between the two.
Mirror(s) ==
  \/ Agree(s)
  \/ \E o \in Ops : req[o].sub = s /\ Writes(o)
  \/ callbacks[s] = EmptyEntry /\ \E o \in Ops : req[o].sub = s /\ Removes(o)

MirrorInv ==
  /\ BootMirror
  /\ \A o \in Ops : Writes(o) => Ahead(o)
  /\ pc[Boot] = "done" => \A s \in Subs : Mirror(s)

MInv == OInv /\ PhaseInv /\ MirrorInv

-----------------------------------------------------------------------------
(***************************************************************************)
(* What each step does to the variables, thread by thread.                 *)
(***************************************************************************)
Kept(t) == /\ pc'[t] = pc[t] /\ req'[t] = req[t] /\ prev'[t] = prev[t]
           /\ headers'[t] = headers[t] /\ todo'[t] = todo[t] /\ calls'[t] = calls[t]
Others(t) == \A u \in Threads \ {t} : Kept(u)

LEMMA QuietIsNoFault == Quiet => NoFault
BY DEF Quiet, NoFault

LEMMA RequestedEffect ==
  ASSUME OInv, Quiet, NEW o \in Ops, Requested(o)
  PROVE  /\ pc[o] = "ready" /\ pc[Boot] = "done" /\ o \in Threads /\ o # Boot
         /\ Others(o)
         /\ UNCHANGED <<db, rowLock, callbacks, handlers, bindings, backlog>>
         /\ prev'[o] = prev[o] /\ headers'[o] = headers[o]
         /\ todo'[o] = todo[o] /\ calls'[o] = calls[o]
         /\ req'[o].kind \in Kinds
         /\ req'[o].kind \in {"create", "update", "delete"}
         /\ req'[o].sub \in Subs /\ req'[o].row \in Rows
         /\ pc'[o] \in {"flush", "publish"}
         /\ \A p \in Ops : req[p].sub = req'[o].sub /\ Active(p) =>
              req[p].kind = req'[o].kind /\ req'[o].kind # "create"
         /\ req'[o].kind = "update" => db[req'[o].sub] # Nil
<1> USE DEF registry, loop, Goto
<1>1. o \in Threads /\ o # Boot /\ TypeOK
  BY BootAssumption DEF Threads, OInv, IInv
<1>2. PICK s \in Subs : \/ \E r \in Bodies : CreateFlush(o, s, r) \/ UpdateGet(o, s, r)
                        \/ DeleteGet(o, s)
  BY DEF Requested
<1>3. ASSUME NEW r \in Bodies, CreateFlush(o, s, r)
      PROVE  /\ pc[o] = "ready" /\ Served /\ "create" \in Kinds
             /\ req' = [req EXCEPT ![o] = Request("create", s, r)]
             /\ pc' = [pc EXCEPT ![o] = "publish"]
             /\ UNCHANGED <<db, rowLock, registry, loop, backlog>>
             /\ \A p \in Ops : req[p].sub # s
  BY <1>3 DEF CreateFlush
<1>4. ASSUME NEW r \in Bodies, UpdateGet(o, s, r)
      PROVE  /\ pc[o] = "ready" /\ Served /\ "update" \in Kinds
             /\ req' = [req EXCEPT ![o] = Request("update", s, r)]
             /\ pc' = [pc EXCEPT ![o] = "flush"] /\ db[s] # Nil /\ Alone(s, "update")
             /\ UNCHANGED <<db, rowLock, registry, loop, backlog>>
  BY <1>4 DEF UpdateGet
<1>5. ASSUME DeleteGet(o, s)
      PROVE  /\ pc[o] = "ready" /\ Served /\ "delete" \in Kinds
             /\ req' = [req EXCEPT ![o] = Request("delete", s, db[s].row)]
             /\ pc' = [pc EXCEPT ![o] = "publish"] /\ Alone(s, "delete")
             /\ UNCHANGED <<db, rowLock, registry, loop, backlog>>
             /\ db[s].row \in Rows
  <2>1. db[s] # Nil
    BY <1>5 DEF DeleteGet
  <2>2. db[s] \in [row : Rows, by : Writers]
    BY <1>1, <2>1 DEF TypeOK
  <2> QED BY <1>5, <2>2 DEF DeleteGet
<1>6. Served => pc[Boot] = "done"
  BY DEF Served, Quiet
<1>7. ASSUME NEW k, Alone(s, k)
      PROVE  \A p \in Ops : req[p].sub = s /\ Active(p) => req[p].kind = k
  BY <1>7 DEF Alone, Active, Quiet
<1>8. CASE \E r \in Bodies : CreateFlush(o, s, r)
  BY <1>1, <1>3, <1>6, <1>8, BodiesAssumption DEF TypeOK, Others, Kept, Request
<1>9. CASE \E r \in Bodies : UpdateGet(o, s, r)
  BY <1>1, <1>4, <1>6, <1>7, <1>9, BodiesAssumption DEF TypeOK, Others, Kept, Request
<1>10. CASE DeleteGet(o, s)
  BY <1>1, <1>5, <1>6, <1>7, <1>10 DEF TypeOK, Others, Kept, Request
<1> QED BY <1>2, <1>8, <1>9, <1>10

\* Where a request is when it runs: after the start.
LEMMA RunningFacts ==
  ASSUME OInv, NEW o \in Ops, pc[o] # "ready"
  PROVE  /\ o \in Threads /\ o # Boot /\ pc[Boot] = "done"
         /\ req[o].sub \in Subs /\ req[o].kind \in {"create", "update", "delete"}
BY BootAssumption DEF OInv, Shape, BootPhase, Threads

LEMMA UpdateFlushEffect ==
  ASSUME OInv, NEW o \in Ops, UpdateFlush(o)
  PROVE  /\ pc[o] = "flush" /\ pc'[o] \in {"publish", "done"}
         /\ req'[o].sub = req[o].sub /\ req'[o].kind = req[o].kind
         /\ Others(o)
         /\ UNCHANGED <<db, callbacks, handlers, bindings, prev, headers, todo, calls, backlog>>
<1>1. TypeOK /\ o \in Threads /\ IInv
  BY DEF OInv, IInv, Threads
<1>2. req[o].kind = "update"
  BY UpdateFlushFacts DEF OInv, Shape
<1> QED BY <1>1, <1>2, UpdateFlushFacts DEF TypeOK, Others, Kept, registry, loop, Request

LEMMA CreatedEffect ==
  ASSUME OInv, NEW o \in Ops, Created(o)
  PROVE  /\ pc[o] = "publish" /\ pc'[o] = "loop" /\ req[o].kind = "create"
         /\ callbacks'[req[o].sub].fn = Callback(o, req[o])
         /\ callbacks'[req[o].sub].headers = BuildHeaders(req[o].sub, req[o].row)
         /\ \A s \in Subs \ {req[o].sub} : callbacks'[s] = callbacks[s]
         /\ headers'[o] = BuildHeaders(req[o].sub, req[o].row)
         /\ todo'[o] = req[o].row.events
         /\ Others(o)
         /\ UNCHANGED <<db, handlers, bindings, req, prev, calls, backlog>>
<1>1. /\ TypeOK /\ o \in Threads /\ req[o].sub \in Subs /\ MasterKnown
      /\ pc[o] = "publish" /\ req[o].kind = "create"
  BY RunningFacts DEF OInv, IInv, Threads, MasterKnown, Created
<1>2. Register(o, req[o]) /\ UNCHANGED <<db, handlers, bindings, req, prev, calls, backlog>>
  BY <1>1 DEF Created
<1> QED BY <1>1, <1>2 DEF Register, Goto, TypeOK, Others, Kept

LEMMA UpdatedEffect ==
  ASSUME OInv, NEW o \in Ops, Updated(o)
  PROVE  LET s == req[o].sub IN
         /\ pc[o] = "publish" /\ req[o].kind = "update"
         /\ \/ /\ callbacks[s] # EmptyEntry
               /\ callbacks'[s] = EmptyEntry
               /\ prev'[o] = callbacks[s] /\ pc'[o] = "loop"
               /\ headers'[o] = BuildHeaders(s, req[o].row)
               /\ todo'[o] = EventsOf(callbacks[s]) \cup req[o].row.events
            \/ callbacks[s] = EmptyEntry /\ callbacks' = callbacks /\ pc'[o] = "notify"
         /\ \A x \in Subs \ {s} : callbacks'[x] = callbacks[x]
         /\ Others(o)
         /\ UNCHANGED <<db, handlers, bindings, req, calls, backlog>>
<1> DEFINE s == req[o].sub
<1>1. /\ TypeOK /\ o \in Threads /\ s \in Subs /\ MasterKnown
      /\ pc[o] = "publish" /\ req[o].kind = "update"
      /\ UNCHANGED <<db, handlers, bindings, req, calls, backlog>>
  BY RunningFacts DEF OInv, IInv, Threads, MasterKnown, Updated
<1>2. CASE callbacks[s] # EmptyEntry
  <2>1. /\ prev' = [prev EXCEPT ![o] = callbacks[s]]
        /\ callbacks' = [callbacks EXCEPT ![s] = EmptyEntry]
        /\ headers' = [headers EXCEPT ![o] = BuildHeaders(s, req[o].row)]
        /\ todo' = [todo EXCEPT ![o] = EventsOf(callbacks[s]) \cup req[o].row.events]
        /\ pc' = [pc EXCEPT ![o] = "loop"]
    BY <1>1, <1>2 DEF Updated, Goto
  <2> HIDE DEF s
  <2> QED BY <1>1, <1>2, <2>1 DEF TypeOK, Others, Kept, s
<1>3. CASE callbacks[s] = EmptyEntry
  BY <1>1, <1>3 DEF Updated, Goto, TypeOK, Others, Kept
<1> QED BY <1>2, <1>3

LEMMA DeletedEffect ==
  ASSUME OInv, NEW o \in Ops, Deleted(o)
  PROVE  LET s == req[o].sub IN
         /\ pc[o] = "publish" /\ pc'[o] = "loop" /\ req[o].kind = "delete"
         /\ callbacks'[s] = EmptyEntry /\ prev'[o] = callbacks[s]
         /\ todo'[o] = EventsOf(callbacks[s])
         /\ \A x \in Subs \ {s} : callbacks'[x] = callbacks[x]
         /\ headers'[o] = headers[o]
         /\ Others(o)
         /\ UNCHANGED <<db, handlers, bindings, req, calls, backlog>>
<1>1. /\ TypeOK /\ o \in Threads /\ req[o].sub \in Subs
      /\ pc[o] = "publish" /\ req[o].kind = "delete"
  BY RunningFacts DEF OInv, IInv, Threads, Deleted
<1> QED BY <1>1 DEF Deleted, Goto, TypeOK, Others, Kept

LEMMA LoopEndsEffect ==
  ASSUME OInv, NEW t \in Threads, LoopEnds(t)
  PROVE  /\ pc[t] = "loop" /\ todo[t] = {} /\ calls[t] = <<>>
         /\ pc'[t] = IF t = Boot THEN "next" ELSE "notify"
         /\ \/ /\ req[t].kind = "update" /\ t \in Ops /\ req[t].sub \in Subs
               /\ callbacks'[req[t].sub].fn = Callback(t, req[t])
               /\ callbacks'[req[t].sub].headers = headers[t]
               /\ \A x \in Subs \ {req[t].sub} : callbacks'[x] = callbacks[x]
            \/ req[t].kind # "update" /\ callbacks' = callbacks
         /\ Others(t)
         /\ UNCHANGED <<db, handlers, bindings, req, prev, headers, todo, calls, backlog>>
<1>1. TypeOK /\ pc[t] = "loop" /\ BootPhase
  BY DEF LoopEnds, OInv, IInv
<1>2. req[t].kind = "update" => t \in Ops
  BY <1>1 DEF BootPhase, Threads
<1>3. t \in Ops => req[t].sub \in Subs
  BY <1>1, RunningFacts
<1> QED BY <1>1, <1>2, <1>3 DEF LoopEnds, Goto, TypeOK, Others, Kept, loop

LEMMA CommitEffect ==
  ASSUME OInv, NEW o \in Ops, Commit(o)
  PROVE  /\ pc[o] = "notify" /\ pc'[o] = "done"
         /\ IF req[o].kind = "delete"
              THEN db'[req[o].sub] = Nil
              ELSE db'[req[o].sub] # Nil /\ db'[req[o].sub].row = req[o].row
         /\ \A s \in Subs \ {req[o].sub} : db'[s] = db[s]
         /\ Others(o)
         /\ UNCHANGED <<callbacks, handlers, bindings, req, prev, headers, todo, calls, backlog>>
<1>1. TypeOK /\ o \in Threads /\ pc[o] = "notify" /\ req[o].sub \in Subs /\ req[o].row \in Rows
  BY RunningFacts DEF OInv, IInv, Local, Threads, Commit
<1> DEFINE new == [row |-> req[o].row, by |-> Inserted(o)]
<1>2. new # Nil /\ new.row = req[o].row
  BY <1>1, InsertedType, NilAssumption
<1> QED BY <1>1, <1>2 DEF Commit, Goto, TypeOK, Others, Kept, registry, loop

\* The steps inside a loop do not move anything of the dictionary or the rows.
LEMMA InLoopEffect ==
  ASSUME NEW t \in Threads, BusCall(t) \/ \E e \in Events : Turn(t, e)
  PROVE  UNCHANGED <<db, callbacks, pc, req, prev, backlog>>
BY DEF BusCall, Subscribe, Unsubscribe, Turn, registry

LEMMA BootRegisterEffect ==
  ASSUME OInv, NEW b \in backlog, BootRegister(b)
  PROVE  /\ pc[Boot] = "next" /\ pc'[Boot] = "loop"
         /\ b.sub \in Subs /\ b.row \in Rows
         /\ req'[Boot] = Request("boot", b.sub, b.row)
         /\ callbacks'[b.sub].fn = Callback(Boot, req'[Boot])
         /\ callbacks'[b.sub].headers = BuildHeaders(b.sub, b.row)
         /\ \A s \in Subs \ {b.sub} : callbacks'[s] = callbacks[s]
         /\ headers'[Boot] = BuildHeaders(b.sub, b.row)
         /\ todo'[Boot] = b.row.events
         /\ backlog' = backlog \ {b}
         /\ Others(Boot)
         /\ UNCHANGED <<db, handlers, bindings, prev, calls>>
<1> DEFINE q == Request("boot", b.sub, b.row)
<1>1. /\ TypeOK /\ Boot \in Threads /\ b.sub \in Subs /\ b.row \in Rows
      /\ q.sub = b.sub /\ q.row = b.row
      /\ pc[Boot] = "next" /\ req' = [req EXCEPT ![Boot] = q] /\ Register(Boot, q)
      /\ backlog' = backlog \ {b}
      /\ UNCHANGED <<db, handlers, bindings, prev, calls>>
  BY DEF BootRegister, OInv, IInv, Threads, TypeOK, Request
<1> HIDE DEF q
<1>2. req'[Boot] = q /\ \A u \in Threads \ {Boot} : req'[u] = req[u]
  BY <1>1 DEF TypeOK
<1> QED BY <1>1, <1>2 DEF Register, Goto, TypeOK, Others, Kept, q

LEMMA BootQuietEffect ==
  ASSUME OInv, TokenReceived \/ BootList \/ BootEnds
  PROVE  /\ pc[Boot] \in {"waiting", "list", "next"} /\ pc'[Boot] \in {"list", "next", "done"}
         /\ Others(Boot)
         /\ UNCHANGED <<db, callbacks, handlers, bindings, req, prev, headers, todo, calls>>
<1>1. TypeOK /\ Boot \in Threads
  BY DEF OInv, IInv, Threads
<1> QED BY <1>1 DEF TokenReceived, BootList, BootEnds, Goto, TypeOK, Others, Kept, registry, loop

-----------------------------------------------------------------------------
(***************************************************************************)
(* Each kind of step, for the proofs below.                                *)
(***************************************************************************)
LEMMA Steps ==
  ASSUME Quiet, [Next]_vars
  PROVE  \/ UNCHANGED vars
         \/ TokenReceived \/ BootList \/ BootEnds
         \/ \E b \in backlog : BootRegister(b)
         \/ \E t \in Threads : \/ BusCall(t) \/ LoopEnds(t)
                               \/ \E e \in Events : Turn(t, e)
         \/ \E o \in Ops : \/ Requested(o) \/ UpdateFlush(o) \/ Created(o)
                           \/ Updated(o) \/ Deleted(o) \/ Commit(o)
<1>1. \A t : ~SubscribeRaises(t) /\ ~Rollback(t)
  BY DEF Quiet, SubscribeRaises, Rollback
<1> QED BY <1>1 DEF Next, Idle, BootStep, Step, Threads

-----------------------------------------------------------------------------
(***************************************************************************)
(* The requests on one subscription, one after the other.                  *)
(***************************************************************************)
\* A request can only start beside its like, and keeps its kind.
LEMMA SameKindStep ==
  ASSUME OInv, Quiet, SameKind, [Next]_vars
  PROVE  SameKind'
<1>1. ASSUME UNCHANGED <<pc, req>> PROVE SameKind'
  BY <1>1 DEF SameKind, Active
<1>2. ASSUME NEW t \in Threads, Others(t),
             req'[t].sub = req[t].sub /\ req'[t].kind = req[t].kind,
             t \in Ops => Active(t)
      PROVE  SameKind'
  <2>1. \A o \in Ops : /\ Active(o)' => Active(o)
                       /\ req'[o].sub = req[o].sub /\ req'[o].kind = req[o].kind
    BY <1>2 DEF Others, Kept, Active, Threads
  <2> QED BY <2>1 DEF SameKind
<1>3. ASSUME NEW o \in Ops, Requested(o) PROVE SameKind'
  <2>1. /\ o \in Threads /\ Others(o)
        /\ \A p \in Ops : req[p].sub = req'[o].sub /\ Active(p) =>
             req[p].kind = req'[o].kind
    BY <1>3, RequestedEffect
  <2>2. \A p \in Ops \ {o} : req'[p] = req[p] /\ pc'[p] = pc[p]
    BY <2>1 DEF Others, Kept, Threads
  <2>3. \A p \in Ops \ {o} : Active(p)' => Active(p)
    BY <2>2 DEF Active
  <2> QED BY <2>1, <2>2, <2>3 DEF SameKind
<1>4. ASSUME NEW o \in Ops, UpdateFlush(o) \/ Created(o) \/ Updated(o) \/ Deleted(o) \/ Commit(o)
      PROVE  SameKind'
  <2>1. /\ o \in Threads /\ Others(o) /\ Active(o)
        /\ req'[o].sub = req[o].sub /\ req'[o].kind = req[o].kind
    BY <1>4, UpdateFlushEffect, CreatedEffect, UpdatedEffect, DeletedEffect, CommitEffect
       DEF Active, Threads
  <2> QED BY <1>2, <2>1
<1>5. ASSUME NEW t \in Threads, LoopEnds(t) PROVE SameKind'
  BY <1>2, <1>5, LoopEndsEffect DEF Active
<1>6. CASE (TokenReceived \/ BootList \/ BootEnds) \/ \E b \in backlog : BootRegister(b)
  <2>1. Others(Boot)
    BY <1>6, BootQuietEffect, BootRegisterEffect
  <2>2. \A o \in Ops : pc'[o] = pc[o] /\ req'[o] = req[o]
    BY <2>1, BootAssumption DEF Others, Kept, Threads
  <2> QED BY <2>2 DEF SameKind, Active
<1>7. CASE \E t \in Threads : BusCall(t) \/ \E e \in Events : Turn(t, e)
  BY <1>1, <1>7, InLoopEffect
<1> QED BY <1>1, <1>3, <1>4, <1>5, <1>6, <1>7, Steps DEF vars

LEMMA CallbackFields ==
  ASSUME NEW t, NEW q
  PROVE  Callback(t, q).by = t /\ Callback(t, q).sub = q.sub /\ Callback(t, q).row = q.row
BY DEF Callback

\* No other request has the subscription of a create.
LEMMA CreateAlone ==
  ASSUME OInv, NEW o \in Ops, req[o].kind = "create", pc[o] \in {"publish", "loop", "notify"},
         NEW p \in Ops, req[p].sub = req[o].sub
  PROVE  p = o
BY DEF OInv, Creating

\* No two updates of a subscription are past their flush.
LEMMA UpdateAlone ==
  ASSUME OInv, NEW o \in Ops, NEW p \in Ops, req[p].sub = req[o].sub,
         req[o].kind = "update", pc[o] \in {"publish", "loop", "notify"},
         req[p].kind = "update", pc[p] \in {"publish", "loop", "notify"}
  PROVE  p = o
BY DEF OInv, UpdatingOwns

LEMMA PhaseStep ==
  ASSUME OInv, Quiet, PhaseInv, [Next]_vars
  PROVE  PhaseInv'
<1>0. SameKind'
  BY SameKindStep DEF PhaseInv
<1> SUFFICES ASSUME NEW o \in Ops PROVE Phase(o)'
  BY <1>0 DEF PhaseInv
<1>a. Phase(o) /\ SameKind /\ o \in Threads /\ o # Boot
  BY BootAssumption DEF PhaseInv, Threads
<1>1. ASSUME UNCHANGED <<db, callbacks, pc, req, prev>> PROVE Phase(o)'
  BY <1>1, <1>a DEF Phase, Active, Removes
<1>2. ASSUME NEW p \in Ops, Requested(p) PROVE Phase(o)'
  <2>1. UNCHANGED <<db, callbacks>> /\ Others(p) /\ p \in Threads
    BY <1>2, RequestedEffect
  <2>2. CASE p = o
    <3>1. /\ pc[o] = "ready" /\ pc'[o] \in {"flush", "publish"}
          /\ req'[o].kind = "update" => db[req'[o].sub] # Nil
      BY <1>2, <2>2, RequestedEffect
    <3> QED BY <1>a, <2>1, <3>1 DEF Phase, Removes
  <2>3. CASE p # o
    <3>1. Kept(o)
      BY <1>a, <2>1, <2>3 DEF Others
    <3> QED BY <1>a, <2>1, <3>1 DEF Phase, Removes, Kept, Active
  <2> QED BY <2>2, <2>3
<1>3. ASSUME NEW p \in Ops, UpdateFlush(p) PROVE Phase(o)'
  <2>1. UNCHANGED <<db, callbacks, prev>> /\ Others(p)
        /\ pc[p] = "flush" /\ pc'[p] \in {"publish", "done"}
        /\ req'[p].sub = req[p].sub /\ req'[p].kind = req[p].kind
    BY <1>3, UpdateFlushEffect
  <2>2. /\ pc'[o] = pc[o] \/ (pc[o] = "flush" /\ pc'[o] \in {"publish", "done"})
        /\ req'[o].sub = req[o].sub /\ req'[o].kind = req[o].kind
    BY <1>a, <2>1 DEF Others, Kept
  <2> QED BY <1>a, <2>1, <2>2 DEF Phase, Removes, Active
<1>4. ASSUME NEW p \in Ops, Created(p) PROVE Phase(o)'
  <2>1. /\ pc[p] = "publish" /\ pc'[p] = "loop" /\ req[p].kind = "create"
        /\ callbacks'[req[p].sub].fn.by = p
        /\ \A s \in Subs \ {req[p].sub} : callbacks'[s] = callbacks[s]
        /\ Others(p) /\ UNCHANGED <<db, req, prev>>
    <3>1. callbacks'[req[p].sub].fn = Callback(p, req[p])
      BY <1>4, CreatedEffect
    <3> QED BY <1>4, <3>1, CreatedEffect, CallbackFields
  <2>2. CASE p = o
    BY <1>a, <2>1, <2>2 DEF Phase, Removes, Active
  <2>3. CASE p # o
    <3>1. Kept(o)
      BY <1>a, <2>1, <2>3 DEF Others
    <3>2. req[o].sub # req[p].sub
      BY <2>1, <2>3, CreateAlone
    <3>3. Removes(o) => req[o].sub \in Subs
      BY RunningFacts DEF Removes
    <3> QED BY <1>a, <2>1, <2>3, <3>1, <3>2, <3>3 DEF Phase, Removes, Kept, Active
  <2> QED BY <2>2, <2>3
<1>5. ASSUME NEW p \in Ops, Updated(p) \/ Deleted(p) PROVE Phase(o)'
  <2> DEFINE s == req[p].sub
  <2>1. /\ pc[p] = "publish" /\ pc'[p] \in {"loop", "notify"}
        /\ req[p].kind = "delete" => callbacks'[s] = EmptyEntry
        /\ \A x \in Subs : callbacks'[x] \in {callbacks[x], EmptyEntry}
        /\ req[p].kind = "update" /\ pc'[p] = "loop" => prev'[p] = callbacks[s]
        /\ Others(p) /\ UNCHANGED <<db, req>>
    BY <1>5, UpdatedEffect, DeletedEffect
  <2>2. s \in Subs /\ (Removes(o) => req[o].sub \in Subs)
    BY <2>1, RunningFacts DEF Removes
  <2>3. CASE p = o
    BY <1>a, <2>1, <2>2, <2>3 DEF Phase, Removes, Active
  <2>4. CASE p # o
    <3>1. Kept(o)
      BY <1>a, <2>1, <2>4 DEF Others
    <3> HIDE DEF s
    <3> QED BY <1>a, <2>1, <2>2, <3>1 DEF Phase, Removes, Kept, Active
  <2> QED BY <2>3, <2>4
<1>6. ASSUME NEW t \in Threads, LoopEnds(t) PROVE Phase(o)'
  <2>1. /\ pc[t] = "loop" /\ pc'[t] \in {"next", "notify"}
        /\ Others(t) /\ UNCHANGED <<db, req, prev>>
    BY <1>6, LoopEndsEffect
  <2>2. \/ /\ req[t].kind = "update" /\ t \in Ops /\ req[t].sub \in Subs
           /\ callbacks'[req[t].sub].fn.by = t
           /\ \A x \in Subs \ {req[t].sub} : callbacks'[x] = callbacks[x]
        \/ callbacks' = callbacks
    <3>1. \/ /\ req[t].kind = "update" /\ t \in Ops /\ req[t].sub \in Subs
             /\ callbacks'[req[t].sub].fn = Callback(t, req[t])
             /\ \A x \in Subs \ {req[t].sub} : callbacks'[x] = callbacks[x]
          \/ callbacks' = callbacks
      BY <1>6, LoopEndsEffect
    <3> QED BY <3>1, CallbackFields
  <2>3. CASE t = o
    <3>1. pc'[o] \in {"next", "notify"}
      BY <2>1, <2>3
    <3>2. Removes(o)' => callbacks'[req[o].sub] = EmptyEntry
      BY <1>a, <2>1, <2>2, <2>3 DEF Phase, Removes
    <3>3. Active(o)
      BY <2>1, <2>3 DEF Active
    <3> QED BY <1>a, <2>1, <3>1, <3>2, <3>3 DEF Phase, Active, Removes
  <2>4. CASE t # o
    <3>1. Kept(o)
      BY <1>a, <2>1, <2>4 DEF Others
    <3>2. Removes(o) => callbacks'[req[o].sub] = callbacks[req[o].sub]
      <4>1. SUFFICES ASSUME Removes(o), t \in Ops, req[t].kind = "update",
                            req[t].sub = req[o].sub
                     PROVE  FALSE
        BY <2>2, RunningFacts DEF Removes
      <4>2. Active(o) /\ Active(t)
        BY <2>1, <4>1 DEF Removes, Active
      <4> QED BY <1>a, <4>1, <4>2 DEF SameKind, Removes
    <3> QED BY <1>a, <2>1, <2>2, <2>4, <3>1, <3>2 DEF Phase, Removes, Kept, Active
  <2> QED BY <2>3, <2>4
<1>7. ASSUME NEW p \in Ops, Commit(p) PROVE Phase(o)'
  <2>1. /\ pc[p] = "notify" /\ pc'[p] = "done" /\ Others(p) /\ UNCHANGED <<callbacks, req, prev>>
        /\ \A s \in Subs \ {req[p].sub} : db'[s] = db[s]
        /\ req[p].kind # "delete" => db'[req[p].sub] # Nil
    BY <1>7, CommitEffect
  <2>2. CASE p = o
    BY <1>a, <2>1, <2>2 DEF Phase, Removes, Active
  <2>3. CASE p # o
    <3>1. Kept(o)
      BY <1>a, <2>1, <2>3 DEF Others
    <3>2. Active(o) /\ req[o].kind = "update" => db'[req[o].sub] # Nil
      <4> SUFFICES ASSUME Active(o), req[o].kind = "update" PROVE db'[req[o].sub] # Nil
        OBVIOUS
      <4>1. req[o].sub \in Subs /\ db[req[o].sub] # Nil
        BY <1>a, RunningFacts DEF Active, Phase
      <4>2. req[p].sub = req[o].sub => req[p].kind = "update"
        BY <1>a, <2>1 DEF SameKind, Active
      <4> QED BY <2>1, <4>1, <4>2
    <3> QED BY <1>a, <2>1, <3>1, <3>2 DEF Phase, Removes, Kept, Active
  <2> QED BY <2>2, <2>3
<1>8. ASSUME \/ (TokenReceived \/ BootList \/ BootEnds)
             \/ \E b \in backlog : BootRegister(b)
      PROVE  Phase(o)'
  <2>1. /\ Others(Boot) /\ UNCHANGED <<db, prev>> /\ pc[Boot] \in {"waiting", "list", "next"}
        /\ \A s \in Subs : callbacks'[s] = callbacks[s] \/ callbacks'[s].fn.by = Boot
    <3>1. CASE TokenReceived \/ BootList \/ BootEnds
      BY <3>1, BootQuietEffect
    <3>2. ASSUME NEW b \in backlog, BootRegister(b)
          PROVE  callbacks'[b.sub].fn.by = Boot
      <4>1. callbacks'[b.sub].fn = Callback(Boot, req'[Boot])
        BY <3>2, BootRegisterEffect
      <4> QED BY <4>1, CallbackFields
    <3> QED BY <1>8, <3>1, <3>2, BootRegisterEffect
  <2>2. Kept(o) /\ pc[o] = "ready"
    BY <1>a, <2>1 DEF Others, OInv, BootPhase
  <2> QED BY <1>a, <2>1, <2>2 DEF Phase, Removes, Kept, Active
<1>9. CASE \E t \in Threads : BusCall(t) \/ \E e \in Events : Turn(t, e)
  BY <1>1, <1>9, InLoopEffect
<1> QED BY <1>1, <1>2, <1>3, <1>4, <1>5, <1>6, <1>7, <1>8, <1>9, Steps DEF vars

-----------------------------------------------------------------------------
(***************************************************************************)
(* The dictionary of callbacks and the rows.                               *)
(***************************************************************************)
LEMMA NotEmpty ==
  ASSUME NEW x, NEW t \in Threads, NEW q, q.sub \in Subs, q.row \in Rows,
         x.fn = Callback(t, q)
  PROVE  x # EmptyEntry
<1>1. Callback(t, q) # Nil
  BY CallbackInType, NilAssumption DEF CallbackType
<1> QED BY <1>1 DEF EmptyEntry

LEMMA RunningRow ==
  ASSUME OInv, NEW o \in Ops, Active(o)
  PROVE  req[o].row \in Rows
BY DEF OInv, IInv, Local, Active, Threads

\* Nobody else is past its flush while a create or an update is.
LEMMA OnlyWriter ==
  ASSUME OInv, SameKind, NEW o \in Ops, Writes(o),
         NEW p \in Ops, req[p].sub = req[o].sub, pc[p] \in {"publish", "loop", "notify"}
  PROVE  p = o
<1>1. req[p].kind = req[o].kind
  BY DEF SameKind, Active, Writes
<1> QED BY <1>1, CreateAlone, UpdateAlone DEF Writes

\* A request that publishes finds the entry of its row; a delete may find that
\* another one has taken it.
LEMMA PublishAgrees ==
  ASSUME OInv, PhaseInv, MirrorInv, NEW o \in Ops, pc[o] = "publish"
  PROVE  \/ Agree(req[o].sub)
         \/ req[o].kind = "delete" /\ callbacks[req[o].sub] = EmptyEntry
<1>1. Mirror(req[o].sub)
  BY RunningFacts DEF MirrorInv
<1>2. ~ \E p \in Ops : req[p].sub = req[o].sub /\ Writes(p)
  BY OnlyWriter DEF PhaseInv, Writes
<1>3. \A p \in Ops : req[p].sub = req[o].sub /\ Removes(p) => req[o].kind = "delete"
  BY DEF PhaseInv, SameKind, Active, Removes
<1> QED BY <1>1, <1>2, <1>3 DEF Mirror

\* An update therefore always finds an entry: its pop does not raise.
LEMMA UpdateFindsEntry ==
  ASSUME OInv, PhaseInv, MirrorInv, NEW o \in Ops, pc[o] = "publish", req[o].kind = "update"
  PROVE  /\ callbacks[req[o].sub] # EmptyEntry
         /\ callbacks[req[o].sub].fn.row = db[req[o].sub].row
BY PublishAgrees DEF Agree, PhaseInv, Phase, Active

LEMMA AheadStep ==
  ASSUME OInv, Quiet, PhaseInv, MirrorInv, [Next]_vars, NEW o \in Ops, Writes(o)'
  PROVE  Ahead(o)'
<1>a. SameKind /\ o \in Threads /\ o # Boot /\ (Writes(o) => Ahead(o))
  BY BootAssumption DEF PhaseInv, MirrorInv, Threads
<1>b. ASSUME Kept(o), Writes(o) => callbacks'[req[o].sub] = callbacks[req[o].sub]
                                   /\ db'[req[o].sub] = db[req[o].sub]
      PROVE  Ahead(o)'
  BY <1>a, <1>b DEF Kept, Writes, Ahead, Callback
<1>c. Writes(o) => req[o].sub \in Subs
  BY RunningFacts DEF Writes
<1>1. ASSUME UNCHANGED <<db, callbacks, pc, req, prev>> PROVE Ahead(o)'
  BY <1>1, <1>a DEF Writes, Ahead, Callback
<1>2. ASSUME NEW p \in Ops, Requested(p) \/ UpdateFlush(p) PROVE Ahead(o)'
  <2>1. /\ UNCHANGED <<db, callbacks>> /\ Others(p)
        /\ pc'[p] \in {"flush", "publish", "done"}
    BY <1>2, RequestedEffect, UpdateFlushEffect
  <2>2. p # o
    BY <2>1 DEF Writes
  <2> QED BY <1>a, <1>b, <2>1, <2>2 DEF Others
<1>3. ASSUME NEW p \in Ops, Created(p) \/ Updated(p) \/ Deleted(p) PROVE Ahead(o)'
  <2>1. /\ pc[p] = "publish" /\ pc'[p] \in {"loop", "notify"}
        /\ \A s \in Subs \ {req[p].sub} : callbacks'[s] = callbacks[s]
        /\ Others(p) /\ UNCHANGED <<db, req>>
    BY <1>3, CreatedEffect, UpdatedEffect, DeletedEffect
  <2>2. CASE p = o /\ Created(p)
    <3>1. callbacks'[req[o].sub].fn = Callback(o, req[o]) /\ req[o].kind = "create"
      BY <2>2, CreatedEffect
    <3> QED BY <2>1, <3>1 DEF Ahead, Callback
  <2>3. CASE p = o /\ Updated(p)
    <3>1. /\ callbacks[req[o].sub] # EmptyEntry
          /\ callbacks[req[o].sub].fn.row = db[req[o].sub].row
      BY <2>1, <2>3, UpdateFindsEntry, UpdatedEffect
    <3>2. prev'[o] = callbacks[req[o].sub] /\ pc'[o] = "loop" /\ req[o].kind = "update"
      BY <2>3, <3>1, UpdatedEffect
    <3> QED BY <2>1, <3>1, <3>2 DEF Ahead
  <2>4. CASE p = o /\ Deleted(p)
    BY <2>1, <2>4, DeletedEffect DEF Writes
  <2>5. CASE p # o
    <3>1. Kept(o)
      BY <1>a, <2>1, <2>5 DEF Others
    <3>2. Writes(o) => req[p].sub # req[o].sub
      BY <1>a, <2>1, <2>5, OnlyWriter
    <3> QED BY <1>b, <1>c, <2>1, <3>1, <3>2
  <2> QED BY <1>3, <2>2, <2>3, <2>4, <2>5
<1>4. ASSUME NEW t \in Threads, LoopEnds(t) PROVE Ahead(o)'
  <2>1. pc[t] = "loop" /\ Others(t) /\ UNCHANGED <<db, req, prev>>
    BY <1>4, LoopEndsEffect
  <2>2. \/ /\ req[t].kind = "update" /\ t \in Ops /\ req[t].sub \in Subs
           /\ callbacks'[req[t].sub].fn = Callback(t, req[t])
           /\ \A x \in Subs \ {req[t].sub} : callbacks'[x] = callbacks[x]
        \/ req[t].kind # "update" /\ callbacks' = callbacks
    BY <1>4, LoopEndsEffect
  <2>3. CASE t = o
    <3>1. pc'[o] = "notify" /\ pc[o] = "loop"
      BY <1>4, <1>a, <2>3, LoopEndsEffect
    <3>2. Writes(o)
      BY <2>1, <3>1 DEF Writes
    <3>3. callbacks'[req[o].sub].fn = Callback(o, req[o])
      BY <1>a, <2>2, <2>3, <3>2 DEF Ahead, Writes
    <3> QED BY <2>1, <3>1, <3>3 DEF Ahead, Callback
  <2>4. CASE t # o
    <3>1. Kept(o)
      BY <1>a, <2>1, <2>4 DEF Others
    <3>2. Writes(o) /\ t \in Ops => req[t].sub # req[o].sub
      BY <1>a, <2>1, <2>4, OnlyWriter
    <3> QED BY <1>b, <1>c, <2>1, <2>2, <3>1, <3>2
  <2> QED BY <2>3, <2>4
<1>5. ASSUME NEW p \in Ops, Commit(p) PROVE Ahead(o)'
  <2>1. /\ pc[p] = "notify" /\ pc'[p] = "done" /\ Others(p) /\ UNCHANGED <<callbacks, req>>
        /\ \A s \in Subs \ {req[p].sub} : db'[s] = db[s]
    BY <1>5, CommitEffect
  <2>2. p # o
    BY <2>1 DEF Writes
  <2>3. Kept(o)
    BY <1>a, <2>1, <2>2 DEF Others
  <2>4. Writes(o) => req[p].sub # req[o].sub
    BY <1>a, <2>1, <2>2, OnlyWriter
  <2> QED BY <1>b, <1>c, <2>1, <2>3, <2>4
<1>6. ASSUME \/ (TokenReceived \/ BootList \/ BootEnds)
             \/ \E b \in backlog : BootRegister(b)
      PROVE  Ahead(o)'
  <2>1. Others(Boot) /\ pc[Boot] # "done"
    BY <1>6, BootQuietEffect, BootRegisterEffect
  <2>2. Kept(o) /\ pc[o] = "ready"
    BY <1>a, <2>1 DEF Others, OInv, BootPhase
  <2> QED BY <2>2 DEF Kept, Writes
<1>7. CASE \E t \in Threads : BusCall(t) \/ \E e \in Events : Turn(t, e)
  BY <1>1, <1>7, InLoopEffect
<1> QED BY <1>1, <1>2, <1>3, <1>4, <1>5, <1>6, <1>7, Steps DEF vars

LEMMA BootMirrorStep ==
  ASSUME OInv, Quiet, BootMirror, [Next]_vars
  PROVE  BootMirror'
<1>a. BootPhase /\ Boot \in Threads /\ \A o \in Ops : o \in Threads /\ o # Boot
  BY BootAssumption DEF OInv, Threads
<1>1. ASSUME UNCHANGED <<db, callbacks, pc, backlog>> PROVE BootMirror'
  BY <1>1 DEF BootMirror, Agree
<1>2. ASSUME NEW o \in Ops, Requested(o) \/ UpdateFlush(o) \/ Created(o) \/ Updated(o)
                            \/ Deleted(o) \/ Commit(o) \/ LoopEnds(o)
      PROVE  BootMirror'
  <2>1. Others(o) /\ pc[Boot] = "done"
    <3>1. Requested(o) \/ pc[o] # "ready"
      BY <1>2 DEF UpdateFlush, Created, Updated, Deleted, Commit, LoopEnds
    <3>2. o \in Threads
      BY <1>a
    <3> QED BY <1>2, <3>1, <3>2, RequestedEffect, UpdateFlushEffect, CreatedEffect, UpdatedEffect,
               DeletedEffect, CommitEffect, LoopEndsEffect, RunningFacts
  <2>2. pc'[Boot] = "done"
    BY <1>a, <2>1 DEF Others, Kept
  <2> QED BY <2>2 DEF BootMirror
<1>3. CASE TokenReceived
  BY <1>3, <1>a DEF BootMirror, TokenReceived, registry, loop, Goto, OInv, IInv, TypeOK, Agree
<1>4. CASE BootList
  <2>1. /\ pc'[Boot] = "next" /\ UNCHANGED <<db, callbacks>>
        /\ \A s \in Subs : callbacks[s] = EmptyEntry
        /\ backlog' = {[sub |-> x, row |-> db[x].row] : x \in {x \in Subs : db[x] # Nil}}
    BY <1>4, <1>a DEF BootMirror, BootList, registry, loop, Goto, OInv, IInv, TypeOK
  <2>2. \A b \in backlog' : b.row = db[b.sub].row /\ b.sub \in Subs
    BY <2>1
  <2>3. \A s \in Subs : db[s] # Nil => \E b \in backlog' : b.sub = s
    <3> SUFFICES ASSUME NEW s \in Subs, db[s] # Nil PROVE \E b \in backlog' : b.sub = s
      OBVIOUS
    <3>1. [sub |-> s, row |-> db[s].row] \in backlog'
      BY <2>1
    <3> QED BY <3>1
  <2> QED BY <2>1, <2>2, <2>3 DEF BootMirror, Agree
<1>5. CASE BootEnds
  BY <1>5, <1>a DEF BootMirror, BootEnds, Goto, OInv, IInv, TypeOK
<1>6. ASSUME NEW b \in backlog, BootRegister(b) PROVE BootMirror'
  <2>1. /\ pc[Boot] = "next" /\ pc'[Boot] = "loop" /\ b.sub \in Subs /\ b.row \in Rows
        /\ callbacks'[b.sub].fn = Callback(Boot, req'[Boot])
        /\ req'[Boot] = Request("boot", b.sub, b.row)
        /\ \A s \in Subs \ {b.sub} : callbacks'[s] = callbacks[s]
        /\ backlog' = backlog \ {b} /\ UNCHANGED db
    BY <1>6, BootRegisterEffect
  <2>2. req'[Boot].sub = b.sub /\ req'[Boot].row = b.row
    BY <2>1 DEF Request
  <2>3. callbacks'[b.sub] # EmptyEntry
    BY <1>a, <2>1, <2>2, NotEmpty
  <2>4. callbacks'[b.sub].fn.row = b.row
    BY <2>1, <2>2, CallbackFields
  <2>5. /\ \A c \in backlog : c.row = db[c.sub].row /\ callbacks[c.sub] = EmptyEntry /\ c.sub \in Subs
        /\ \A c \in backlog : db[c.sub] # Nil
        /\ \A c \in backlog' : c.sub # b.sub
        /\ \A s \in Subs : Agree(s) \/ \E c \in backlog : c.sub = s
    BY <1>a, <2>1 DEF BootMirror, BootPhase, OInv, IInv, TypeOK
  <2>6. \A c \in backlog' : c.row = db'[c.sub].row /\ callbacks'[c.sub] = EmptyEntry
    BY <2>1, <2>5
  <2>7. ASSUME NEW s \in Subs PROVE Agree(s)' \/ \E c \in backlog' : c.sub = s
    <3>1. CASE s = b.sub
      BY <2>1, <2>3, <2>4, <2>5, <3>1 DEF Agree
    <3>2. CASE s # b.sub
      BY <2>1, <2>5, <3>2 DEF Agree
    <3> QED BY <3>1, <3>2
  <2> QED BY <2>1, <2>6, <2>7 DEF BootMirror
<1>7. CASE LoopEnds(Boot)
  <2>1. /\ pc[Boot] = "loop" /\ pc'[Boot] = "next" /\ UNCHANGED <<db, backlog>>
        /\ req[Boot].kind = "boot"
    BY <1>7, <1>a, LoopEndsEffect DEF BootPhase
  <2>2. callbacks' = callbacks
    BY <1>7, <1>a, <2>1, LoopEndsEffect
  <2> QED BY <2>1, <2>2 DEF BootMirror, Agree
<1>8. CASE \E t \in Threads : BusCall(t) \/ \E e \in Events : Turn(t, e)
  BY <1>1, <1>8, InLoopEffect
<1> QED BY <1>1, <1>2, <1>3, <1>4, <1>5, <1>6, <1>7, <1>8, Steps DEF vars, Threads

\* A step about another subscription.
LEMMA MirrorKept ==
  ASSUME NEW s \in Subs, Mirror(s), callbacks'[s] = callbacks[s], db'[s] = db[s],
         \A p \in Ops : req[p].sub = s /\ pc[p] \in {"loop", "notify"} =>
                          req'[p] = req[p] /\ pc'[p] \in {"loop", "notify"}
  PROVE  Mirror(s)'
BY DEF Mirror, Agree, Writes, Removes

LEMMA MirrorStep ==
  ASSUME OInv, Quiet, PhaseInv, MirrorInv, [Next]_vars, pc'[Boot] = "done", NEW s \in Subs
  PROVE  Mirror(s)'
<1>a. Boot \in Threads /\ \A o \in Ops : o \in Threads /\ o # Boot
  BY BootAssumption DEF Threads
<1>b. pc[Boot] = "done" => Mirror(s)
  BY DEF MirrorInv
<1>1. ASSUME UNCHANGED <<db, callbacks, pc, req>> PROVE Mirror(s)'
  BY <1>1, <1>b, MirrorKept
<1>2. ASSUME NEW o \in Ops, Requested(o) \/ UpdateFlush(o) PROVE Mirror(s)'
  <2>1. /\ UNCHANGED <<db, callbacks>> /\ Others(o) /\ pc[Boot] = "done"
        /\ pc[o] \in {"ready", "flush"}
    <3>1. UpdateFlush(o) => pc[Boot] = "done"
      BY RunningFacts DEF UpdateFlush
    <3> QED BY <1>2, <3>1, RequestedEffect, UpdateFlushEffect
  <2>2. \A p \in Ops \ {o} : Kept(p)
    BY <1>a, <2>1 DEF Others
  <2> QED BY <1>b, <2>1, <2>2, MirrorKept DEF Kept
<1>3. ASSUME NEW o \in Ops, Created(o) \/ Updated(o) \/ Deleted(o) PROVE Mirror(s)'
  <2>1. /\ pc[o] = "publish" /\ pc'[o] \in {"loop", "notify"}
        /\ \A x \in Subs \ {req[o].sub} : callbacks'[x] = callbacks[x]
        /\ req[o].kind = "delete" => callbacks'[req[o].sub] = EmptyEntry
        /\ req[o].kind \in {"create", "update", "delete"}
        /\ Others(o) /\ UNCHANGED <<db, req>>
    BY <1>3, CreatedEffect, UpdatedEffect, DeletedEffect
  <2>2. \A p \in Ops \ {o} : Kept(p)
    BY <1>a, <2>1 DEF Others
  <2>3. CASE s = req[o].sub
    BY <2>1, <2>3 DEF Mirror, Writes, Removes
  <2>4. CASE s # req[o].sub
    <3>1. pc[Boot] = "done"
      BY <2>1, RunningFacts
    <3> QED BY <1>b, <2>1, <2>2, <2>4, <3>1, MirrorKept DEF Kept
  <2> QED BY <2>3, <2>4
<1>4. ASSUME NEW t \in Threads, LoopEnds(t) PROVE Mirror(s)'
  <2>1. /\ Others(t) /\ UNCHANGED <<db, req>> /\ pc[t] = "loop"
        /\ pc'[t] = IF t = Boot THEN "next" ELSE "notify"
    BY <1>4, LoopEndsEffect
  <2>2. t # Boot /\ t \in Ops
    BY <2>1 DEF Threads
  <2>3. \A p \in Ops \ {t} : Kept(p)
    BY <1>a, <2>1 DEF Others
  <2>4. CASE req[t].kind = "update" /\ s = req[t].sub
    BY <2>1, <2>2, <2>4 DEF Mirror, Writes
  <2>5. CASE ~(req[t].kind = "update" /\ s = req[t].sub)
    <3>1. callbacks'[s] = callbacks[s]
      BY <1>4, <2>5, LoopEndsEffect
    <3>2. pc[Boot] = "done"
      BY <2>1, <2>2, RunningFacts
    <3> QED BY <1>b, <2>1, <2>2, <2>3, <3>1, <3>2, MirrorKept DEF Kept
  <2> QED BY <2>4, <2>5
<1>5. ASSUME NEW o \in Ops, Commit(o) PROVE Mirror(s)'
  <2>1. /\ pc[o] = "notify" /\ pc'[o] = "done" /\ Others(o) /\ UNCHANGED <<callbacks, req>>
        /\ \A x \in Subs \ {req[o].sub} : db'[x] = db[x]
        /\ IF req[o].kind = "delete"
             THEN db'[req[o].sub] = Nil
             ELSE db'[req[o].sub] # Nil /\ db'[req[o].sub].row = req[o].row
    BY <1>5, CommitEffect
  <2>2. \A p \in Ops \ {o} : Kept(p)
    BY <1>a, <2>1 DEF Others
  <2>3. pc[Boot] = "done" /\ req[o].row \in Rows /\ req[o].kind \in {"create", "update", "delete"}
    BY <2>1, RunningFacts, RunningRow DEF Active
  <2>4. CASE s = req[o].sub /\ req[o].kind = "delete"
    <3>1. callbacks[s] = EmptyEntry
      BY <2>1, <2>4 DEF PhaseInv, Phase, Removes
    <3> QED BY <2>1, <2>4, <3>1 DEF Mirror, Agree
  <2>5. CASE s = req[o].sub /\ req[o].kind # "delete"
    <3>1. callbacks[s].fn = Callback(o, req[o])
      BY <2>1, <2>3, <2>5 DEF MirrorInv, Writes, Ahead
    <3>2. callbacks[s] # EmptyEntry /\ callbacks[s].fn.row = req[o].row
      BY <1>a, <2>3, <2>5, <3>1, NotEmpty, CallbackFields
    <3>3. db'[s] # Nil /\ db'[s].row = req[o].row
      BY <2>1, <2>5
    <3> QED BY <2>1, <3>2, <3>3 DEF Mirror, Agree
  <2>6. CASE s # req[o].sub
    BY <1>b, <2>1, <2>2, <2>3, <2>6, MirrorKept DEF Kept
  <2> QED BY <2>4, <2>5, <2>6
<1>6. CASE TokenReceived \/ BootList \/ \E b \in backlog : BootRegister(b)
  <2>1. pc'[Boot] # "done"
    BY <1>a, <1>6, BootRegisterEffect DEF TokenReceived, BootList, Goto, OInv, IInv, TypeOK
  <2> QED BY <2>1
<1>7. CASE BootEnds
  <2>1. pc[Boot] = "next" /\ backlog = {} /\ UNCHANGED <<db, callbacks>>
    BY <1>7 DEF BootEnds, registry
  <2> QED BY <2>1 DEF MirrorInv, BootMirror, Mirror, Agree
<1>8. CASE \E t \in Threads : BusCall(t) \/ \E e \in Events : Turn(t, e)
  BY <1>1, <1>8, InLoopEffect
<1> QED BY <1>1, <1>2, <1>3, <1>4, <1>5, <1>6, <1>7, <1>8, Steps DEF vars

LEMMA MInit == Init => MInv
<1> SUFFICES ASSUME Init PROVE MInv
  OBVIOUS
<1>1. /\ \A o \in Ops : pc[o] = "ready"
      /\ pc[Boot] = "waiting"
      /\ \A s \in Subs : callbacks[s] = EmptyEntry
  BY BootAssumption DEF Init, Threads
<1>2. PhaseInv
  BY <1>1 DEF PhaseInv, SameKind, Phase, Active, Removes
<1>3. MirrorInv
  BY <1>1 DEF MirrorInv, BootMirror, Writes
<1> QED BY <1>2, <1>3, OwnInit DEF MInv

LEMMA MStep ==
  ASSUME MInv, Quiet, [Next]_vars
  PROVE  MInv'
<1> USE DEF MInv
<1>1. OInv' /\ PhaseInv'
  BY OwnStep, PhaseStep, QuietIsNoFault
<1>2. MirrorInv'
  BY AheadStep, BootMirrorStep, MirrorStep DEF MirrorInv
<1> QED BY <1>1, <1>2

\* For any requests that overlap their like and do not fail, every handler the
\* consumer calls can be removed: a request has it at hand, or its callback is
\* the entry of its subscription and a row lets a request come to that entry.
THEOREM NoHandlerIsOrphaned == ASSUME Quiet PROVE Spec => []NoOrphanHandler
<1>1. MInv /\ [Next]_vars => MInv'
  BY MStep
<1>2. MInv => NoOrphanHandler
  <2> SUFFICES ASSUME MInv, NEW h \in handlers, \A o \in Ops : ~Held(o, h)
               PROVE  callbacks[h.fn.sub].fn = h.fn /\ Reachable(h.fn.sub)
    BY DEF NoOrphanHandler, Removable
  <2> DEFINE s == h.fn.sub
  <2>1. TypeOK /\ BootPhase /\ MirrorInv /\ PhaseInv /\ HandlersOwned
    BY DEF MInv, OInv, IInv
  <2>2. s \in Subs /\ h.fn # Nil /\ callbacks[s].fn = h.fn
    BY <2>1, NilAssumption DEF HandlersOwned, Accounted, TypeOK, CallbackType
  <2>3. callbacks[s] # EmptyEntry
    BY <2>2 DEF EmptyEntry
  <2> HIDE DEF s
  <2>4. Agree(s) => db[s] # Nil
    BY <2>3 DEF Agree
  <2>5. CASE pc[Boot] # "done"
    BY <2>1, <2>2, <2>3, <2>4, <2>5 DEF BootPhase, MirrorInv, BootMirror, Reachable, s
  <2>6. CASE pc[Boot] = "done"
    <3>1. ASSUME NEW o \in Ops, req[o].sub = s, Writes(o) PROVE Reachable(s)
      BY <2>1, <3>1 DEF Writes, Reachable, BeingCreated, PhaseInv, Phase, Active
    <3> QED BY <2>1, <2>2, <2>3, <2>4, <2>6, <3>1 DEF MirrorInv, Mirror, Reachable, s
  <2> QED BY <2>5, <2>6
<1> QED BY MInit, <1>1, <1>2, PTL DEF Spec

-----------------------------------------------------------------------------
(***************************************************************************)
(* The registry implements the mirrored directory.                         *)
(***************************************************************************)
RowOf(s) == IF db[s] = Nil THEN Nil ELSE db[s].row

\* What is armed is the entry, or the one the only update in its loop popped,
\* which is that of the row.
ArmedFacts(s) ==
  /\ callbacks[s] # EmptyEntry => Armed(s) = callbacks[s].fn.row
  /\ callbacks[s] = EmptyEntry /\ Updating(s) = {} => Armed(s) = Nil
  /\ \A o \in Updating(s) : /\ callbacks[s] = EmptyEntry
                            /\ Armed(s) = prev[o].fn.row
                            /\ Armed(s) = RowOf(s)

LEMMA ArmedIs == ASSUME NEW s \in Subs PROVE MInv => ArmedFacts(s)
<1> SUFFICES ASSUME MInv PROVE ArmedFacts(s)
  OBVIOUS
<1>1. ASSUME NEW o \in Updating(s)
      PROVE  /\ callbacks[s] = EmptyEntry /\ Updating(s) = {o}
             /\ prev[o].fn.row = RowOf(s)
  <2>1. o \in Ops /\ req[o].sub = s /\ req[o].kind = "update" /\ pc[o] = "loop"
    BY DEF Updating
  <2>2. callbacks[s] = EmptyEntry
    BY <2>1 DEF MInv, OInv, UpdatingOwns
  <2>3. \A p \in Updating(s) : p = o
    BY <2>1, UpdateAlone DEF Updating, MInv
  <2>4. db[s] # Nil /\ prev[o].fn.row = db[s].row
    BY <2>1 DEF MInv, MirrorInv, Writes, Ahead, PhaseInv, Phase, Active
  <2> QED BY <2>2, <2>3, <2>4 DEF RowOf
<1>2. ASSUME NEW o \in Updating(s) PROVE Armed(s) = prev[o].fn.row
  <2>1. Updating(s) = {o} /\ callbacks[s] = EmptyEntry
    BY <1>1
  <2>2. (CHOOSE p \in Updating(s) : TRUE) = o
    BY <2>1
  <2> QED BY <2>1, <2>2 DEF Armed
<1> QED BY <1>1, <1>2 DEF Armed, ArmedFacts

LEMMA ArmedIsThen == ASSUME NEW s \in Subs PROVE MInv' => ArmedFacts(s)'
BY ArmedIs, PTL

\* A step that touches neither the entry nor the update in its loop.
LEMMA ArmedKept ==
  ASSUME MInv, MInv', NEW s \in Subs, callbacks'[s] = callbacks[s],
         Updating(s)' = Updating(s),
         \A o \in Updating(s) : prev'[o] = prev[o]
  PROVE  Armed(s)' = Armed(s)
BY ArmedIs, ArmedIsThen DEF ArmedFacts

LEMMA RowOfType ==
  ASSUME TypeOK, NEW s \in Subs
  PROVE  RowOf(s) \in Rows \cup {Nil}
<1>1. db[s] \in [row : Rows, by : Writers] \cup {Nil}
  BY DEF TypeOK
<1> QED BY <1>1 DEF RowOf

\* A change of one entry, or of one row, as the directory sees it.
LEMMA IsAnnounce ==
  ASSUME NEW s \in Subs, NEW r \in Rows \cup {Nil},
         pc[Boot] = "done", pc'[Boot] = "done", UNCHANGED db,
         Armed(s) = RowOf(s), Armed(s)' = r,
         \A x \in Subs \ {s} : Armed(x)' = Armed(x)
  PROVE  Directory!Next
<1>1. [x \in Subs |-> Armed(x)]' = [[x \in Subs |-> Armed(x)] EXCEPT ![s] = r]
  OBVIOUS
<1>2. Directory!Announce(s, r)
  BY <1>1 DEF Directory!Announce, RowOf
<1> QED BY <1>2 DEF Directory!Next

LEMMA IsSettle ==
  ASSUME NEW s \in Subs, pc[Boot] = "done", pc'[Boot] = "done",
         RowOf(s)' = Armed(s),
         \A x \in Subs \ {s} : db'[x] = db[x],
         \A x \in Subs : Armed(x)' = Armed(x)
  PROVE  Directory!Next
<1>1. \A x \in Subs \ {s} : RowOf(x)' = RowOf(x)
  BY DEF RowOf
<1>2. [x \in Subs |-> RowOf(x)]' = [[x \in Subs |-> RowOf(x)] EXCEPT ![s] = Armed(s)]
  BY <1>1
<1>3. Directory!Settle(s)
  BY <1>2 DEF Directory!Settle, RowOf
<1> QED BY <1>3 DEF Directory!Next

LEMMA IsLoad ==
  ASSUME NEW s \in Subs, pc[Boot] # "done", pc'[Boot] # "done", UNCHANGED db,
         Armed(s) = Nil, Armed(s)' = RowOf(s),
         \A x \in Subs \ {s} : Armed(x)' = Armed(x)
  PROVE  Directory!Next
<1>1. [x \in Subs |-> Armed(x)]' = [[x \in Subs |-> Armed(x)] EXCEPT ![s] = RowOf(s)]
  OBVIOUS
<1>2. Directory!Load(s)
  BY <1>1 DEF Directory!Load, RowOf
<1> QED BY <1>2 DEF Directory!Next

LEMMA IsStutter ==
  ASSUME UNCHANGED db, (pc[Boot] = "done") = (pc'[Boot] = "done"),
         \A x \in Subs : Armed(x)' = Armed(x)
  PROVE  UNCHANGED Directory!vars
<1>1. [x \in Subs |-> Armed(x)]' = [x \in Subs |-> Armed(x)]
  OBVIOUS
<1> QED BY <1>1 DEF Directory!vars

LEMMA ArmedOther ==
  ASSUME MInv, MInv', NEW t \in Threads, Others(t), NEW x \in Subs,
         callbacks'[x] = callbacks[x], t \notin Updating(x), t \notin Updating(x)'
  PROVE  Armed(x)' = Armed(x)
<1>1. \A o \in Ops \ {t} : Kept(o)
  BY DEF Others, Threads
<1>2. Updating(x)' = Updating(x) /\ \A o \in Updating(x) : prev'[o] = prev[o]
  BY <1>1 DEF Kept, Updating
<1> QED BY <1>2, ArmedKept

\* While a request other than an update runs, no update does.
LEMMA NotUpdating ==
  ASSUME SameKind, NEW o \in Ops, Active(o), req[o].kind # "update"
  PROVE  Updating(req[o].sub) = {}
BY DEF SameKind, Active, Updating

LEMMA DirectoryPublish ==
  ASSUME MInv, MInv', Quiet, NEW o \in Ops, Created(o) \/ Updated(o) \/ Deleted(o)
  PROVE  [Directory!Next]_(Directory!vars)
<1>0. /\ pc[o] = "publish" /\ req[o].sub \in Subs
  BY CreatedEffect, UpdatedEffect, DeletedEffect, RunningFacts DEF MInv
<1> PICK s \in Subs : s = req[o].sub
  BY <1>0
<1>1. /\ pc[o] = "publish" /\ pc'[o] \in {"loop", "notify"}
      /\ \A x \in Subs \ {s} : callbacks'[x] = callbacks[x]
      /\ Others(o) /\ UNCHANGED <<db, req>>
  BY CreatedEffect, UpdatedEffect, DeletedEffect DEF MInv
<1>2. /\ o \in Threads /\ o # Boot /\ s \in Subs /\ pc[Boot] = "done" /\ Boot \in Threads
      /\ req[o].row \in Rows /\ OInv /\ PhaseInv /\ MirrorInv /\ SameKind /\ SameKind'
  BY <1>1, RunningFacts, RunningRow DEF MInv, Active, Threads, PhaseInv
<1>3. pc'[Boot] = "done"
  BY <1>1, <1>2 DEF Others, Kept
<1>4. \A x \in Subs : o \notin Updating(x)
  BY <1>1 DEF Updating
<1>5. \A x \in Subs \ {s} : Armed(x)' = Armed(x)
  <2> SUFFICES ASSUME NEW x \in Subs, x # s PROVE Armed(x)' = Armed(x)
    OBVIOUS
  <2>1. o \notin Updating(x)'
    BY <1>1 DEF Updating
  <2> QED BY <1>1, <1>2, <1>4, <2>1, ArmedOther
<1>6. ArmedFacts(s) /\ ArmedFacts(s)'
  BY <1>2, ArmedIs, ArmedIsThen
<1>7. CASE Created(o)
  <2>1. req[o].kind = "create" /\ callbacks'[s].fn = Callback(o, req[o])
    BY <1>7, <1>2, CreatedEffect
  <2>2. db[s] = Nil /\ callbacks[s] = EmptyEntry
    BY <1>1, <1>2, <2>1, PublishAgrees DEF OInv, Creating, Agree
  <2>3. Armed(s) = Nil
    BY <1>1, <1>2, <1>6, <2>1, <2>2, NotUpdating DEF ArmedFacts, Active
  <2>4. callbacks'[s] # EmptyEntry /\ callbacks'[s].fn.row = req[o].row
    BY <1>2, <2>1, NotEmpty, CallbackFields
  <2>5. Armed(s)' = req[o].row
    BY <1>1, <1>6, <2>4 DEF ArmedFacts
  <2>6. Armed(s) = RowOf(s)
    BY <2>2, <2>3 DEF RowOf
  <2> QED BY <1>1, <1>2, <1>3, <1>5, <2>5, <2>6, IsAnnounce
<1>8. CASE Updated(o)
  <2>1. req[o].kind = "update"
    BY <1>8, <1>2, UpdatedEffect
  <2>2. callbacks[s] # EmptyEntry
    BY <1>1, <1>2, <2>1, UpdateFindsEntry
  <2>3. prev'[o] = callbacks[s] /\ pc'[o] = "loop"
    BY <1>8, <1>2, <2>2, UpdatedEffect
  <2>4. o \in Updating(s)'
    BY <1>1, <2>1, <2>3 DEF Updating
  <2>5. Armed(s)' = Armed(s)
    BY <1>1, <1>6, <2>2, <2>3, <2>4 DEF ArmedFacts
  <2>6. \A x \in Subs : Armed(x)' = Armed(x)
    BY <1>5, <2>5
  <2> QED BY <1>1, <1>2, <1>3, <2>6, IsStutter
<1>9. CASE Deleted(o)
  <2>1. req[o].kind = "delete" /\ callbacks'[s] = EmptyEntry /\ pc'[o] = "loop"
    BY <1>9, <1>2, DeletedEffect
  <2>2. Updating(s) = {} /\ Updating(s)' = {}
    <3>1. Updating(s) = {}
      BY <1>1, <1>2, <2>1, NotUpdating DEF Active
    <3>2. Updating(s)' \subseteq Updating(s) \cup {o} /\ o \notin Updating(s)'
      BY <1>1, <2>1 DEF Updating, Others, Kept, Threads
    <3> QED BY <3>1, <3>2
  <2>3. Armed(s)' = Nil
    BY <1>1, <1>6, <2>1, <2>2 DEF ArmedFacts
  <2>4. CASE callbacks[s] = EmptyEntry
    <3>1. Armed(s) = Nil
      BY <1>6, <2>2, <2>4 DEF ArmedFacts
    <3>2. \A x \in Subs : Armed(x)' = Armed(x)
      BY <1>5, <2>3, <3>1
    <3> QED BY <1>1, <1>2, <1>3, <3>2, IsStutter
  <2>5. CASE callbacks[s] # EmptyEntry
    <3>1. Armed(s) = RowOf(s)
      BY <1>1, <1>2, <1>6, <2>5, PublishAgrees DEF ArmedFacts, Agree, RowOf
    <3> QED BY <1>1, <1>2, <1>3, <1>5, <2>3, <3>1, IsAnnounce
  <2> QED BY <2>4, <2>5
<1> QED BY <1>7, <1>8, <1>9

LEMMA DirectoryLoopEnds ==
  ASSUME MInv, MInv', Quiet, NEW t \in Threads, LoopEnds(t)
  PROVE  [Directory!Next]_(Directory!vars)
<1>1. /\ pc[t] = "loop" /\ pc'[t] = (IF t = Boot THEN "next" ELSE "notify")
      /\ Others(t) /\ UNCHANGED <<db, req>> /\ Boot \in Threads /\ OInv
  BY LoopEndsEffect DEF MInv, Threads
<1>2. (pc[Boot] = "done") = (pc'[Boot] = "done")
  BY <1>1 DEF Others, Kept
<1>3. \A x \in Subs : t \notin Updating(x)'
  BY <1>1 DEF Updating
<1>4. ASSUME NEW x \in Subs, callbacks'[x] = callbacks[x], req[t].kind # "update" \/ req[t].sub # x
      PROVE  Armed(x)' = Armed(x)
  <2>1. t \notin Updating(x)
    BY <1>4 DEF Updating
  <2> QED BY <1>1, <1>3, <1>4, <2>1, ArmedOther
<1>5. CASE req[t].kind # "update"
  <2>1. callbacks' = callbacks
    BY <1>1, <1>5, LoopEndsEffect
  <2>2. \A x \in Subs : Armed(x)' = Armed(x)
    BY <1>4, <1>5, <2>1
  <2> QED BY <1>1, <1>2, <2>2, IsStutter
<1>6. CASE req[t].kind = "update"
  <2>0. t \in Ops /\ req[t].sub \in Subs
    BY <1>1, <1>6, LoopEndsEffect
  <2> PICK s \in Subs : s = req[t].sub
    BY <2>0
  <2>1. /\ t \in Ops /\ callbacks'[s].fn = Callback(t, req[t])
        /\ \A x \in Subs \ {s} : callbacks'[x] = callbacks[x]
    BY <1>1, <1>6, <2>0, LoopEndsEffect
  <2>2. pc[Boot] = "done" /\ req[t].row \in Rows
    BY <1>1, <2>1, RunningFacts, RunningRow DEF Active
  <2>3. t \in Updating(s)
    BY <1>1, <1>6, <2>1 DEF Updating
  <2>4. Armed(s) = RowOf(s)
    BY <2>1, <2>3, ArmedIs DEF ArmedFacts
  <2>5. callbacks'[s] # EmptyEntry /\ callbacks'[s].fn.row = req[t].row
    BY <2>1, <2>2, NotEmpty, CallbackFields
  <2>6. Armed(s)' = req[t].row
    BY <1>1, <2>1, <2>5, ArmedIsThen DEF ArmedFacts
  <2>7. \A x \in Subs \ {s} : Armed(x)' = Armed(x)
    BY <1>4, <2>1
  <2> QED BY <1>1, <1>2, <2>1, <2>2, <2>4, <2>6, <2>7, IsAnnounce
<1> QED BY <1>5, <1>6

LEMMA DirectoryCommit ==
  ASSUME MInv, MInv', Quiet, NEW o \in Ops, Commit(o)
  PROVE  [Directory!Next]_(Directory!vars)
<1>0. /\ pc[o] = "notify" /\ req[o].sub \in Subs
  BY CommitEffect, RunningFacts DEF MInv
<1> PICK s \in Subs : s = req[o].sub
  BY <1>0
<1>1. /\ pc[o] = "notify" /\ pc'[o] = "done" /\ Others(o) /\ UNCHANGED <<callbacks, req>>
      /\ IF req[o].kind = "delete" THEN db'[s] = Nil
                                   ELSE db'[s] # Nil /\ db'[s].row = req[o].row
      /\ \A x \in Subs \ {s} : db'[x] = db[x]
  BY CommitEffect DEF MInv
<1>2. /\ o \in Threads /\ o # Boot /\ s \in Subs /\ pc[Boot] = "done" /\ Boot \in Threads
      /\ req[o].row \in Rows /\ req[o].kind \in {"create", "update", "delete"}
      /\ PhaseInv /\ MirrorInv /\ SameKind /\ ArmedFacts(s)
  BY <1>1, RunningFacts, RunningRow, ArmedIs DEF MInv, Active, Threads, PhaseInv
<1>3. pc'[Boot] = "done"
  BY <1>1, <1>2 DEF Others, Kept
<1>4. \A x \in Subs : Armed(x)' = Armed(x)
  BY <1>1, <1>2, ArmedOther DEF Updating
<1>5. RowOf(s)' = Armed(s)
  <2>1. CASE req[o].kind = "delete"
    <3>1. callbacks[s] = EmptyEntry /\ Updating(s) = {}
      BY <1>1, <1>2, <2>1, NotUpdating DEF PhaseInv, Phase, Removes, Active
    <3> QED BY <1>1, <1>2, <2>1, <3>1 DEF ArmedFacts, RowOf
  <2>2. CASE req[o].kind # "delete"
    <3>1. callbacks[s].fn = Callback(o, req[o])
      BY <1>1, <1>2, <2>2 DEF MirrorInv, Writes, Ahead
    <3>2. callbacks[s] # EmptyEntry /\ callbacks[s].fn.row = req[o].row
      BY <1>2, <3>1, NotEmpty, CallbackFields
    <3>3. db'[s] # Nil /\ db'[s].row = req[o].row
      BY <1>1, <2>2
    <3> QED BY <1>2, <3>2, <3>3 DEF ArmedFacts, RowOf
  <2> QED BY <2>1, <2>2
<1> QED BY <1>1, <1>2, <1>3, <1>4, <1>5, IsSettle

LEMMA DirectoryBoot ==
  ASSUME MInv, MInv', Quiet,
         (TokenReceived \/ BootList \/ BootEnds) \/ \E b \in backlog : BootRegister(b)
  PROVE  [Directory!Next]_(Directory!vars)
<1>1. /\ pc[Boot] \in {"waiting", "list", "next"} /\ Others(Boot) /\ Boot \in Threads
      /\ UNCHANGED db /\ OInv /\ MirrorInv
  BY BootQuietEffect, BootRegisterEffect DEF MInv, Threads
<1>2. \A x \in Subs : /\ Boot \notin Updating(x) /\ Boot \notin Updating(x)'
                      /\ Updating(x) = {} /\ ArmedFacts(x) /\ ArmedFacts(x)'
  BY <1>1, BootAssumption, ArmedIs, ArmedIsThen DEF Updating, OInv, BootPhase
<1>3. \A x \in Subs : callbacks'[x] = callbacks[x] => Armed(x)' = Armed(x)
  BY <1>1, <1>2, ArmedOther
<1>4. CASE TokenReceived \/ BootList
  <2>1. pc'[Boot] # "done" /\ UNCHANGED callbacks
    BY <1>1, <1>4 DEF TokenReceived, BootList, Goto, OInv, IInv, TypeOK, registry
  <2> QED BY <1>1, <1>3, <2>1, IsStutter
<1>5. CASE BootEnds
  <2>1. pc[Boot] = "next" /\ pc'[Boot] = "done" /\ backlog = {} /\ UNCHANGED callbacks
    BY <1>1, <1>5 DEF BootEnds, Goto, OInv, IInv, TypeOK, registry
  <2>2. \A x \in Subs : Agree(x)
    BY <1>1, <2>1 DEF MirrorInv, BootMirror
  <2>3. \A x \in Subs : Armed(x) = RowOf(x)
    BY <1>2, <2>2 DEF Agree, RowOf, ArmedFacts
  <2>4. /\ [x \in Subs |-> Armed(x)] = [x \in Subs |-> RowOf(x)]
        /\ [x \in Subs |-> Armed(x)]' = [x \in Subs |-> Armed(x)]
    BY <1>3, <2>1, <2>3
  <2>5. Directory!Start
    BY <1>1, <2>1, <2>4 DEF Directory!Start, RowOf
  <2> QED BY <2>5 DEF Directory!Next
<1>6. ASSUME NEW b \in backlog, BootRegister(b) PROVE [Directory!Next]_(Directory!vars)
  <2>1. /\ pc[Boot] = "next" /\ pc'[Boot] = "loop" /\ b.sub \in Subs /\ b.row \in Rows
        /\ callbacks'[b.sub].fn = Callback(Boot, req'[Boot])
        /\ req'[Boot] = Request("boot", b.sub, b.row)
        /\ \A x \in Subs \ {b.sub} : callbacks'[x] = callbacks[x]
    BY <1>1, <1>6, BootRegisterEffect
  <2>2. req'[Boot].sub = b.sub /\ req'[Boot].row = b.row
    BY <2>1 DEF Request
  <2>3. callbacks'[b.sub] # EmptyEntry /\ callbacks'[b.sub].fn.row = b.row
    BY <1>1, <2>1, <2>2, NotEmpty, CallbackFields
  <2>4. /\ db[b.sub] # Nil /\ b.row = db[b.sub].row /\ callbacks[b.sub] = EmptyEntry
    BY <1>1, <2>1 DEF MirrorInv, BootMirror, OInv, BootPhase
  <2>5. Armed(b.sub) = Nil /\ Armed(b.sub)' = RowOf(b.sub)
    BY <1>2, <2>1, <2>3, <2>4 DEF ArmedFacts, RowOf
  <2> QED BY <1>1, <1>3, <2>1, <2>5, IsLoad
<1> QED BY <1>4, <1>5, <1>6

LEMMA DirectoryStep ==
  ASSUME MInv, MInv', Quiet, [Next]_vars
  PROVE  [Directory!Next]_(Directory!vars)
<1>1. ASSUME UNCHANGED <<db, callbacks, pc, req, prev>> PROVE UNCHANGED Directory!vars
  <2>1. \A x \in Subs : Updating(x)' = Updating(x)
    BY <1>1 DEF Updating
  <2>2. \A x \in Subs : Armed(x)' = Armed(x)
    BY <1>1, <2>1, ArmedKept
  <2> QED BY <1>1, <2>2, IsStutter
<1>2. ASSUME NEW o \in Ops, Requested(o) \/ UpdateFlush(o) PROVE UNCHANGED Directory!vars
  <2>1. /\ UNCHANGED <<db, callbacks>> /\ Others(o) /\ o \in Threads /\ o # Boot /\ Boot \in Threads
        /\ pc[o] \in {"ready", "flush"} /\ pc'[o] \in {"flush", "publish", "done"}
    BY <1>2, BootAssumption, RequestedEffect, UpdateFlushEffect DEF MInv, Threads
  <2>2. \A x \in Subs : Armed(x)' = Armed(x)
    BY <2>1, ArmedOther DEF Updating
  <2>3. pc'[Boot] = pc[Boot]
    BY <2>1 DEF Others, Kept
  <2> QED BY <2>1, <2>2, <2>3, IsStutter
<1>3. CASE \E t \in Threads : BusCall(t) \/ \E e \in Events : Turn(t, e)
  BY <1>1, <1>3, InLoopEffect
<1> QED BY <1>1, <1>2, <1>3, Steps, DirectoryPublish, DirectoryLoopEnds, DirectoryCommit,
           DirectoryBoot DEF vars

LEMMA DirectoryInit == Init => Directory!Init
<1> SUFFICES ASSUME Init PROVE Directory!Init
  OBVIOUS
<1>1. TypeOK
  BY InitEstablishes DEF IInv
<1>2. \A s \in Subs : RowOf(s) \in Rows \cup {Nil}
  BY <1>1, RowOfType
<1>3. \A s \in Subs : Armed(s) = Nil
  BY DEF Init, Armed, Updating, Threads
<1>4. pc[Boot] = "waiting"
  BY DEF Init, Threads
<1> QED BY <1>2, <1>3, <1>4 DEF Directory!Init, RowOf

\* Requests that overlap their like and do not fail keep the dictionary of
\* callbacks a mirror of the database: once it is loaded, every change of a row
\* is announced to it before the commit that settles it, one at a time.
THEOREM DirectoryIsMirrored == ASSUME Quiet PROVE Spec => Mirrored
<1>1. MInv /\ [Next]_vars => MInv'
  BY MStep
<1>2. MInv /\ MInv' /\ [Next]_vars => [Directory!Next]_(Directory!vars)
  BY DirectoryStep
<1> QED BY MInit, DirectoryInit, <1>1, <1>2, PTL DEF Spec, Mirrored, Directory!Spec

-----------------------------------------------------------------------------
(***************************************************************************)
(* The handlers and the bindings.  For an event that is global by design   *)
(* the loop of an update rewrites the headers of the events that follow (a *)
(* run shows it): here such events are registered and deleted, but not     *)
(* updated.                                                                *)
(***************************************************************************)
NoGlobal     == GlobalEvents \cap Events = {}
PlainUpdates == "update" \in Kinds => NoGlobal

\* The headers a callback, or a request, stands for.
HeadersOf(x) == BuildHeaders(x.sub, x.row)

\* Those it subscribes to an event with.
HeadersFor(e, x) == HandleTenantEvents(e, HeadersOf(x))

\* The headers in the registry and in the locals of a loop are those of the row.
Fitting(t) ==
  /\ pc[t] = "loop" /\ req[t].kind # "delete" => headers[t] = HeadersOf(req[t])
  /\ prev[t] # EmptyEntry => /\ prev[t].fn.sub = req[t].sub
                             /\ prev[t].headers = HeadersOf(prev[t].fn)
  /\ \A i \in DOMAIN calls[t] :
       calls[t][i].do = "subscribe" => calls[t][i].headers = HeadersFor(calls[t][i].event, req[t])

EntryFits(s) == callbacks[s] # EmptyEntry => /\ callbacks[s].fn.sub = s
                                             /\ callbacks[s].headers = HeadersOf(callbacks[s].fn)

HandlersFit == \A h \in handlers : h.headers = HeadersFor(h.event, h.fn)

\* An update under way is about plain events.
Serving  == {"flush", "publish", "loop", "notify"}
Plain(t) == pc[t] \in Serving /\ req[t].kind = "update" => NoGlobal

HeaderInv == /\ \A t \in Threads : Plain(t)
             /\ prev[Boot] = EmptyEntry
             /\ HandlersFit
             /\ \A s \in Subs : EntryFits(s)
             /\ \A t \in Threads : Fitting(t)

\* After its n-th call the thread will still subscribe to e.
SubDue(t, e, n) ==
  \E i \in DOMAIN calls[t] : i > n /\ calls[t][i].do = "subscribe" /\ calls[t][i].event = e
Due(t, e) == e \in todo[t] \/ SubDue(t, e, 0)

\* What a message of event e needs to trigger the callback fn.
Present(e, fn) == /\ [event |-> e, fn |-> fn, headers |-> HeadersFor(e, fn)] \in handlers
                  /\ [event |-> e, headers |-> HeadersFor(e, fn)] \in bindings

\* An update that unsubscribes from an event it keeps, with headers it keeps,
\* subscribes to it again: the binding it removes is the one it needs.
CallsInv == \A t \in Threads : req[t].kind = "update" =>
  \A i \in DOMAIN calls[t] : calls[t][i].do = "unsubscribe" =>
    \/ calls[t][i].event \notin req[t].row.events
    \/ prev[t].headers # HeadersOf(req[t])
    \/ SubDue(t, calls[t][i].event, i)

\* A loop has subscribed to an event of its row, or it will.
PresentInv == \A t \in Threads : pc[t] = "loop" /\ req[t].kind # "delete" =>
  \A e \in req[t].row.events : Due(t, e) \/ Present(e, Callback(t, req[t]))

Looping(s) == \E t \in Threads : /\ pc[t] = "loop" /\ req[t].kind # "delete"
                                 /\ Callback(t, req[t]) = callbacks[s].fn

\* Once its loop has ended an entry has a handler and a binding for each event.
EntryInv == \A s \in Subs : callbacks[s] # EmptyEntry =>
  \A e \in callbacks[s].fn.row.events : Present(e, callbacks[s].fn) \/ Looping(s)

FInv == MInv /\ HeaderInv /\ CallsInv /\ PresentInv /\ EntryInv

-----------------------------------------------------------------------------
LEMMA PlainHeaders ==
  ASSUME NoGlobal, NEW e \in Events, NEW h PROVE HandleTenantEvents(e, h) = h
BY DEF HandleTenantEvents, NoGlobal

LEMMA HeadersFields ==
  ASSUME NEW e, NEW x PROVE HeadersFor(e, x).sub = x.sub
BY DEF HeadersFor, HeadersOf, HandleTenantEvents, BuildHeaders

LEMMA TurnEffect ==
  ASSUME OInv, NEW t \in Threads, NEW e \in Events, Turn(t, e), Plain(t)
  PROVE  /\ pc[t] = "loop" /\ calls[t] = <<>> /\ e \in todo[t]
         /\ todo'[t] = todo[t] \ {e}
         /\ calls'[t] = CallsFor(t, e, IF req[t].kind = "delete" THEN Nil
                                       ELSE HandleTenantEvents(e, headers[t]))
         /\ Others(t)
         /\ UNCHANGED <<db, callbacks, handlers, bindings, pc, req, prev, headers, backlog>>
<1>1. TypeOK
  BY DEF OInv, IInv
<1>2. req[t].kind = "update" => HandleTenantEvents(e, headers[t]) = headers[t]
  BY PlainHeaders DEF Plain, Serving, Turn
<1> DEFINE h == HandleTenantEvents(e, headers[t])
           C == CallsFor(t, e, IF req[t].kind = "delete" THEN Nil ELSE h)
<1>3. /\ pc[t] = "loop" /\ calls[t] = <<>> /\ e \in todo[t]
      /\ todo' = [todo EXCEPT ![t] = @ \ {e}]
      /\ calls' = [calls EXCEPT ![t] = C]
      /\ headers' = IF req[t].kind = "update" THEN [headers EXCEPT ![t] = h]
                                              ELSE headers
      /\ UNCHANGED <<db, callbacks, handlers, bindings, pc, req, prev, backlog>>
  BY DEF Turn, registry
<1> HIDE DEF h
<1>4. headers' = headers
  BY <1>1, <1>2, <1>3 DEF TypeOK, h
<1> HIDE DEF C
<1>5. calls'[t] = C /\ todo'[t] = todo[t] \ {e} /\ Others(t)
  BY <1>1, <1>3, <1>4 DEF TypeOK, Others, Kept
<1> QED BY <1>3, <1>4, <1>5 DEF C, h

\* All the calls of a turn are about its event.
LEMMA CallsForEvent ==
  ASSUME NEW t \in Threads, NEW e \in Events, NEW h
  PROVE  \A i \in DOMAIN CallsFor(t, e, h) : CallsFor(t, e, h)[i].event = e
<1> DEFINE s == Sub(e, h)  u == Unsub(e)  C == CallsFor(t, e, h)
<1>1. s.event = e /\ u.event = e
  BY DEF Sub, Unsub
<1> HIDE DEF s, u, C
<1>2. UpdateCalls(t, e, h) \in {<<u>>, <<s>>, <<s, u>>, <<u, s>>}
  BY Zenon DEF UpdateCalls, s, u
<1>3. C \in {<<u>>, <<s>>, UpdateCalls(t, e, h)}
  BY Zenon DEF CallsFor, C, s, u
<1>4. C \in {<<u>>, <<s>>, <<s, u>>, <<u, s>>}
  BY <1>2, <1>3
<1>5. \A i \in DOMAIN C : C[i] \in {s, u}
  BY <1>4
<1> QED BY <1>1, <1>5 DEF C

LEMMA BusCallEffect ==
  ASSUME OInv, NEW t \in Threads, BusCall(t)
  PROVE  /\ calls[t] # <<>> /\ pc[t] = "loop"
         /\ calls'[t] = Tail(calls[t])
         /\ Others(t)
         /\ UNCHANGED <<db, callbacks, pc, req, prev, headers, todo, backlog>>
<1>1. TypeOK /\ Local(t)
  BY DEF OInv, IInv
<1> QED BY <1>1 DEF BusCall, Subscribe, Unsubscribe, TypeOK, Local, Others, Kept

\* The calls that are left when the first one has been made.
LEMMA TailFacts ==
  ASSUME TypeOK, NEW t \in Threads, calls[t] # <<>>
  PROVE  /\ 1 \in DOMAIN calls[t] /\ Head(calls[t]) = calls[t][1]
         /\ \A i \in DOMAIN Tail(calls[t]) : /\ i \in Nat /\ i > 0
                                            /\ i + 1 \in DOMAIN calls[t]
                                            /\ Tail(calls[t])[i] = calls[t][i + 1]
         /\ \A i \in DOMAIN calls[t] :
              i = 1 \/ (/\ i \in Nat /\ i > 1
                        /\ i - 1 \in DOMAIN Tail(calls[t])
                        /\ Tail(calls[t])[i - 1] = calls[t][i])
<1>1. calls[t] \in Seq(CallType)
  BY DEF TypeOK
<1> DEFINE c == calls[t]
<1> HIDE DEF c
<1>2. c \in Seq(CallType) /\ c # <<>>
  BY <1>1 DEF c
<1>3. /\ 1 \in DOMAIN c /\ Head(c) = c[1]
      /\ \A i \in DOMAIN Tail(c) : /\ i \in Nat /\ i > 0 /\ i + 1 \in DOMAIN c
                                   /\ Tail(c)[i] = c[i + 1]
      /\ \A i \in DOMAIN c : i = 1 \/ (/\ i \in Nat /\ i > 1 /\ i - 1 \in DOMAIN Tail(c)
                                      /\ Tail(c)[i - 1] = c[i])
  BY <1>2
<1> QED BY <1>3 DEF c

LEMMA UpdateCallsFacts ==
  ASSUME NEW t \in Threads, NEW e \in Events, NEW h, req[t].kind # "delete"
  PROVE  LET C == CallsFor(t, e, h) IN
         /\ e \in req[t].row.events =>
              \E j \in DOMAIN C : j > 0 /\ C[j].do = "subscribe" /\ C[j].event = e
         /\ req[t].kind = "update" => \A i \in DOMAIN C : C[i].do = "unsubscribe" =>
              \/ C[i].event \notin req[t].row.events
              \/ prev[t].headers # h
              \/ \E j \in DOMAIN C : j > i /\ C[j].do = "subscribe" /\ C[j].event = C[i].event
<1> DEFINE s == Sub(e, h)  u == Unsub(e)  C == CallsFor(t, e, h)
<1>1. s.do = "subscribe" /\ s.event = e /\ u.do = "unsubscribe" /\ u.event = e
  BY DEF Sub, Unsub
<1> HIDE DEF s, u, C
<1>2. req[t].kind # "update" => C = <<s>>
  BY DEF CallsFor, s, C
<1>3. req[t].kind = "update" =>
        \/ C = <<u>> /\ e \notin req[t].row.events
        \/ C = <<s>>
        \/ C = <<s, u>> /\ h # prev[t].headers
        \/ C = <<u, s>>
  <2>1. req[t].kind = "update" => C = UpdateCalls(t, e, h)
    BY Zenon DEF CallsFor, C
  <2> QED BY <2>1, Zenon DEF UpdateCalls, s, u
<1>4. ASSUME C = <<s>>
      PROVE  /\ \E j \in DOMAIN C : j > 0 /\ C[j].do = "subscribe" /\ C[j].event = e
             /\ \A i \in DOMAIN C : C[i].do # "unsubscribe"
  BY <1>1, <1>4
<1>5. ASSUME C = <<u>>, e \notin req[t].row.events
      PROVE  \A i \in DOMAIN C : C[i].event \notin req[t].row.events
  BY <1>1, <1>5
<1>6. ASSUME C = <<s, u>>
      PROVE  \E j \in DOMAIN C : j > 0 /\ C[j].do = "subscribe" /\ C[j].event = e
  <2>1. 1 \in DOMAIN C /\ C[1] = s
    BY <1>6
  <2> QED BY <1>1, <2>1
<1>7. ASSUME C = <<u, s>>
      PROVE  /\ \E j \in DOMAIN C : j > 0 /\ C[j].do = "subscribe" /\ C[j].event = e
             /\ \A i \in DOMAIN C : C[i].do = "unsubscribe" =>
                  \E j \in DOMAIN C : j > i /\ C[j].do = "subscribe" /\ C[j].event = C[i].event
  <2>1. DOMAIN C = 1..2 /\ C[1] = u /\ C[2] = s
    BY <1>7
  <2>2. 2 \in DOMAIN C /\ 2 > 0
    BY <2>1
  <2>3. \A i \in DOMAIN C : C[i].do = "unsubscribe" => i = 1
    BY <1>1, <2>1
  <2> QED BY <1>1, <2>1, <2>2, <2>3
<1>8. CASE req[t].kind = "update"
  BY <1>3, <1>4, <1>5, <1>6, <1>7, <1>8 DEF C
<1>9. CASE req[t].kind # "update"
  BY <1>2, <1>4, <1>9 DEF C
<1> QED BY <1>8, <1>9

-----------------------------------------------------------------------------
(***************************************************************************)
(* What a step may do to the locals of one thread.                         *)
(***************************************************************************)
Outside(t) == /\ pc'[t] # "loop" /\ calls'[t] = <<>> /\ prev'[t] = prev[t]
              /\ req'[t] = req[t] \/ prev[t] = EmptyEntry
Enters(t)  == /\ pc[t] # "loop" /\ pc'[t] = "loop" /\ calls'[t] = <<>>
              /\ req'[t].sub \in Subs
              /\ prev'[t] \in {EmptyEntry, callbacks[req'[t].sub]}
              /\ req'[t].kind # "delete" =>
                   /\ headers'[t] = HeadersOf(req'[t])
                   /\ req'[t].row.events \subseteq todo'[t]

LEMMA ThreadStep ==
  ASSUME MInv, MInv', Quiet, prev[Boot] = EmptyEntry, [Next]_vars, NEW t \in Threads
  PROVE  \/ Kept(t) \/ Outside(t) \/ Enters(t)
         \/ BusCall(t) \/ \E e \in Events : Turn(t, e)
<1>1. /\ OInv /\ PhaseInv /\ MirrorInv /\ Local(t) /\ Local(t)'
      /\ pc[t] # "loop" => calls[t] = <<>>
      /\ pc'[t] # "loop" => calls'[t] = <<>>
  BY DEF MInv, OInv, IInv, Local
<1>2. ASSUME NEW u \in Threads, u # t, Others(u) PROVE Kept(t)
  BY <1>2 DEF Others
<1>3. ASSUME NEW o \in Ops, Requested(o) PROVE Kept(t) \/ Outside(t)
  <2>1. /\ pc[o] = "ready" /\ o \in Threads /\ Others(o) /\ prev'[o] = prev[o]
        /\ pc'[o] \in {"flush", "publish"}
    BY <1>1, <1>3, RequestedEffect
  <2>2. prev[o] = EmptyEntry
    BY <1>1, <2>1 DEF OInv, Shape
  <2> QED BY <1>1, <1>2, <2>1, <2>2 DEF Outside
<1>4. ASSUME NEW o \in Ops, UpdateFlush(o) \/ Commit(o) PROVE Kept(t) \/ Outside(t)
  <2>1. /\ o \in Threads /\ Others(o) /\ UNCHANGED prev
        /\ pc'[o] \in {"publish", "done"}
        /\ req'[o] = req[o] \/ pc[o] = "flush"
    BY <1>1, <1>4, UpdateFlushEffect, CommitEffect DEF Threads
  <2>2. pc[o] = "flush" => prev[o] = EmptyEntry
    BY <1>1 DEF OInv, Shape
  <2> QED BY <1>1, <1>2, <2>1, <2>2 DEF Outside
<1>5. ASSUME NEW o \in Ops, Created(o) \/ Updated(o) \/ Deleted(o) PROVE Kept(t) \/ Enters(t)
  <2>1. /\ pc[o] = "publish" /\ Others(o) /\ UNCHANGED <<req, calls>>
        /\ o \in Threads /\ req[o].sub \in Subs
    <3>1. pc[o] = "publish" /\ Others(o) /\ UNCHANGED <<req, calls>>
      BY <1>1, <1>5, CreatedEffect, UpdatedEffect, DeletedEffect
    <3> QED BY <1>1, <3>1, RunningFacts
  <2>2. CASE Created(o)
    <3>1. /\ pc'[o] = "loop" /\ UNCHANGED prev
          /\ headers'[o] = HeadersOf(req[o]) /\ todo'[o] = req[o].row.events
      BY <1>1, <2>2, CreatedEffect DEF HeadersOf
    <3>2. prev[o] = EmptyEntry
      BY <1>1, <2>1 DEF OInv, Shape
    <3> QED BY <1>1, <1>2, <2>1, <3>1, <3>2 DEF Enters
  <2>3. CASE Updated(o)
    <3>1. req[o].kind = "update"
      BY <1>1, <2>3, UpdatedEffect
    <3>2. callbacks[req[o].sub] # EmptyEntry
      BY <1>1, <2>1, <3>1, UpdateFindsEntry
    <3>3. /\ pc'[o] = "loop" /\ prev'[o] = callbacks[req[o].sub]
          /\ headers'[o] = HeadersOf(req[o]) /\ req[o].row.events \subseteq todo'[o]
      BY <1>1, <2>3, <3>2, UpdatedEffect DEF HeadersOf
    <3> QED BY <1>1, <1>2, <2>1, <3>3 DEF Enters
  <2>4. CASE Deleted(o)
    <3>1. req[o].kind = "delete" /\ pc'[o] = "loop" /\ prev'[o] = callbacks[req[o].sub]
      BY <1>1, <2>4, DeletedEffect
    <3> QED BY <1>1, <1>2, <2>1, <3>1 DEF Enters
  <2> QED BY <1>5, <2>2, <2>3, <2>4
<1>6. ASSUME NEW u \in Threads, LoopEnds(u) PROVE Kept(t) \/ Outside(t)
  <2>1. Others(u) /\ UNCHANGED <<req, prev>> /\ pc'[u] \in {"next", "notify"}
    BY <1>1, <1>6, LoopEndsEffect
  <2> QED BY <1>1, <1>2, <2>1 DEF Outside
<1>7. ASSUME NEW u \in Threads, BusCall(u) \/ \E e \in Events : Turn(u, e)
      PROVE  Kept(t) \/ BusCall(t) \/ \E e \in Events : Turn(t, e)
  <2>1. Others(u)
    BY <1>1, <1>7 DEF BusCall, Subscribe, Unsubscribe, Turn, Others, Kept, OInv, IInv, TypeOK
  <2> QED BY <1>2, <1>7, <2>1
<1>8. CASE TokenReceived \/ BootList \/ BootEnds
  <2>1. /\ Others(Boot) /\ UNCHANGED <<req, prev>> /\ Boot \in Threads
        /\ pc'[Boot] \in {"list", "next", "done"}
    BY <1>1, <1>8, BootQuietEffect DEF Threads
  <2> QED BY <1>1, <1>2, <2>1 DEF Outside
<1>9. ASSUME NEW b \in backlog, BootRegister(b) PROVE Kept(t) \/ Enters(t)
  <2>1. /\ Others(Boot) /\ Boot \in Threads /\ pc[Boot] = "next" /\ pc'[Boot] = "loop"
        /\ UNCHANGED <<prev, calls>> /\ b.sub \in Subs
        /\ req'[Boot] = Request("boot", b.sub, b.row)
        /\ headers'[Boot] = BuildHeaders(b.sub, b.row) /\ todo'[Boot] = b.row.events
    BY <1>1, <1>9, BootRegisterEffect DEF Threads
  <2>2. req'[Boot].sub = b.sub /\ req'[Boot].row = b.row
    BY <2>1 DEF Request
  <2> QED BY <1>1, <1>2, <2>1, <2>2 DEF Enters, HeadersOf
<1>10. CASE UNCHANGED vars
  BY <1>10 DEF vars, Kept
<1> QED BY <1>3, <1>4, <1>5, <1>6, <1>7, <1>8, <1>9, <1>10, Steps

-----------------------------------------------------------------------------
LEMMA FittingStep ==
  ASSUME MInv, MInv', Quiet, PlainUpdates, HeaderInv, [Next]_vars, NEW t \in Threads
  PROVE  Fitting(t)'
<1>1. /\ OInv /\ TypeOK /\ Fitting(t) /\ prev[Boot] = EmptyEntry /\ Plain(t)
      /\ \A s \in Subs : EntryFits(s)
  BY DEF MInv, OInv, IInv, HeaderInv
<1>2. CASE Kept(t)
  BY <1>1, <1>2 DEF Kept, Fitting
<1>3. CASE Outside(t)
  BY <1>1, <1>3 DEF Outside, Fitting
<1>4. CASE Enters(t)
  BY <1>1, <1>4 DEF Enters, Fitting, EntryFits
<1>5. CASE BusCall(t)
  <2>1. /\ pc[t] = "loop" /\ calls[t] # <<>> /\ calls'[t] = Tail(calls[t])
        /\ UNCHANGED <<pc, req, prev, headers>>
    BY <1>1, <1>5, BusCallEffect
  <2>2. \A i \in DOMAIN calls'[t] : i + 1 \in DOMAIN calls[t] /\ calls'[t][i] = calls[t][i + 1]
    BY <1>1, <2>1, TailFacts
  <2> QED BY <1>1, <2>1, <2>2 DEF Fitting
<1>6. ASSUME NEW e \in Events, Turn(t, e) PROVE Fitting(t)'
  <2> DEFINE g == IF req[t].kind = "delete" THEN Nil ELSE HandleTenantEvents(e, headers[t])
             C == CallsFor(t, e, g)
  <2>1. pc[t] = "loop" /\ calls'[t] = C /\ UNCHANGED <<pc, req, prev, headers>>
    BY <1>1, <1>6, TurnEffect
  <2>2. req[t].kind # "delete" => g \in HeaderType
    BY <1>1, <2>1, HandleTenantEventsType DEF OInv, IInv, Local
  <2>3. \A i \in DOMAIN C : C[i].do = "subscribe" => C[i].headers = g /\ req[t].kind # "delete"
    <3> HIDE DEF g
    <3> QED BY <2>2, CallsForType
  <2>4. \A i \in DOMAIN C : C[i].event = e
    <3> HIDE DEF g
    <3> QED BY CallsForEvent
  <2>5. \A i \in DOMAIN C : C[i].do = "subscribe" => C[i].headers = HeadersFor(C[i].event, req[t])
    <3> HIDE DEF C
    <3> QED BY <1>1, <2>1, <2>3, <2>4 DEF Fitting, HeadersFor
  <2> HIDE DEF C
  <2> QED BY <1>1, <2>1, <2>5 DEF Fitting
<1> QED BY <1>1, <1>2, <1>3, <1>4, <1>5, <1>6, ThreadStep

\* Only the calls to the consumer change the handlers and the bindings.
LEMMA OnlyBusCalls ==
  ASSUME OInv, Quiet, [Next]_vars, \A t \in Threads : ~BusCall(t)
  PROVE  UNCHANGED <<handlers, bindings>>
<1>1. ASSUME NEW t \in Threads, LoopEnds(t) \/ \E e \in Events : Turn(t, e)
      PROVE  UNCHANGED <<handlers, bindings>>
  BY <1>1 DEF LoopEnds, Turn, registry
<1>2. ASSUME NEW o \in Ops, \/ Requested(o) \/ UpdateFlush(o) \/ Created(o)
                            \/ Updated(o) \/ Deleted(o) \/ Commit(o)
      PROVE  UNCHANGED <<handlers, bindings>>
  BY <1>2, RequestedEffect, UpdateFlushEffect, CreatedEffect, UpdatedEffect, DeletedEffect,
     CommitEffect
<1>3. ASSUME \/ (TokenReceived \/ BootList \/ BootEnds)
             \/ \E b \in backlog : BootRegister(b)
      PROVE  UNCHANGED <<handlers, bindings>>
  BY <1>3, BootQuietEffect, BootRegisterEffect
<1> QED BY <1>1, <1>2, <1>3, Steps DEF vars

\* What one subscribe adds.
LEMMA SubscribeEffect ==
  ASSUME OInv, HeaderInv, NEW t \in Threads, Subscribe(t)
  PROVE  LET e == calls[t][1].event  fn == Callback(t, req[t]) IN
         /\ calls[t][1].do = "subscribe"
         /\ handlers' = handlers \cup {[event |-> e, fn |-> fn, headers |-> HeadersFor(e, fn)]}
         /\ bindings' = bindings \cup {[event |-> e, headers |-> HeadersFor(e, fn)]}
<1> DEFINE c == Head(calls[t])
<1>1. calls[t] # <<>> /\ TypeOK /\ Fitting(t)
  BY DEF Subscribe, OInv, IInv, HeaderInv
<1>2. c = calls[t][1] /\ 1 \in DOMAIN calls[t]
  BY <1>1, TailFacts
<1>3. c.do = "subscribe"
  BY DEF Subscribe
<1>4. \A e : HeadersFor(e, Callback(t, req[t])) = HeadersFor(e, req[t])
  BY DEF HeadersFor, HeadersOf, Callback
<1>5. c.headers = HeadersFor(c.event, Callback(t, req[t]))
  BY <1>1, <1>2, <1>3, <1>4 DEF Fitting
<1>6. /\ handlers' = handlers \cup
           {[event |-> c.event, fn |-> Callback(t, req[t]), headers |-> c.headers]}
      /\ bindings' = bindings \cup {[event |-> c.event, headers |-> c.headers]}
  BY DEF Subscribe
<1> HIDE DEF c
<1> QED BY <1>2, <1>3, <1>5, <1>6

LEMMA UnsubscribeShrinks ==
  ASSUME NEW t \in Threads, Unsubscribe(t)
  PROVE  handlers' \subseteq handlers
BY DEF Unsubscribe

LEMMA HandlersFitStep ==
  ASSUME OInv, Quiet, HeaderInv, [Next]_vars
  PROVE  HandlersFit'
<1>1. ASSUME NEW t \in Threads, Subscribe(t) PROVE HandlersFit'
  <2> DEFINE e == calls[t][1].event  fn == Callback(t, req[t])
  <2>1. handlers' = handlers \cup {[event |-> e, fn |-> fn, headers |-> HeadersFor(e, fn)]}
    BY <1>1, SubscribeEffect
  <2> HIDE DEF e, fn
  <2> QED BY <2>1 DEF HeaderInv, HandlersFit
<1>2. ASSUME NEW t \in Threads, Unsubscribe(t) PROVE HandlersFit'
  BY <1>2, UnsubscribeShrinks DEF HeaderInv, HandlersFit
<1> QED BY <1>1, <1>2, OnlyBusCalls DEF BusCall, HeaderInv, HandlersFit

\* An entry of the dictionary is written by the loop of its own thread only.
LEMMA EntryStep ==
  ASSUME OInv, Quiet, prev[Boot] = EmptyEntry, [Next]_vars, NEW s \in Subs
  PROVE  \/ callbacks'[s] = callbacks[s]
         \/ callbacks'[s] = EmptyEntry
         \/ \E t \in Threads : /\ pc'[t] = "loop" /\ Enters(t)
                               /\ req'[t].kind # "delete" /\ req'[t].sub = s
                               /\ callbacks'[s].fn = Callback(t, req'[t])
                               /\ callbacks'[s].headers = HeadersOf(req'[t])
         \/ \E t \in Threads : /\ LoopEnds(t) /\ req[t].kind = "update" /\ req[t].sub = s
                               /\ callbacks'[s].fn = Callback(t, req[t])
                               /\ callbacks'[s].headers = headers[t]
<1>1. ASSUME NEW o \in Ops, Created(o), callbacks'[s] # callbacks[s]
      PROVE  /\ o \in Threads /\ pc'[o] = "loop" /\ Enters(o)
             /\ req'[o].kind # "delete" /\ req'[o].sub = s
             /\ callbacks'[s].fn = Callback(o, req'[o])
             /\ callbacks'[s].headers = HeadersOf(req'[o])
  <2>1. /\ pc[o] = "publish" /\ pc'[o] = "loop" /\ req[o].kind = "create" /\ req[o].sub = s
        /\ callbacks'[s].fn = Callback(o, req[o])
        /\ callbacks'[s].headers = HeadersOf(req[o])
        /\ headers'[o] = HeadersOf(req[o]) /\ todo'[o] = req[o].row.events
        /\ UNCHANGED <<req, prev, calls>>
    BY <1>1, CreatedEffect DEF HeadersOf
  <2>2. o \in Threads /\ prev[o] = EmptyEntry /\ calls[o] = <<>>
    BY <2>1 DEF OInv, IInv, Local, Shape, Threads
  <2> QED BY <2>1, <2>2 DEF Enters
<1>2. ASSUME NEW o \in Ops, Updated(o) \/ Deleted(o)
      PROVE  callbacks'[s] = callbacks[s] \/ callbacks'[s] = EmptyEntry
  BY <1>2, UpdatedEffect, DeletedEffect
<1>3. ASSUME NEW t \in Threads, LoopEnds(t), callbacks'[s] # callbacks[s]
      PROVE  /\ req[t].kind = "update" /\ req[t].sub = s
             /\ callbacks'[s].fn = Callback(t, req[t])
             /\ callbacks'[s].headers = headers[t]
  BY <1>3, LoopEndsEffect
<1>4. ASSUME NEW b \in backlog, BootRegister(b), callbacks'[s] # callbacks[s]
      PROVE  /\ pc'[Boot] = "loop" /\ Enters(Boot)
             /\ req'[Boot].kind # "delete" /\ req'[Boot].sub = s
             /\ callbacks'[s].fn = Callback(Boot, req'[Boot])
             /\ callbacks'[s].headers = HeadersOf(req'[Boot])
  <2>1. /\ pc[Boot] = "next" /\ pc'[Boot] = "loop" /\ b.sub = s /\ b.sub \in Subs
        /\ req'[Boot] = Request("boot", b.sub, b.row)
        /\ callbacks'[s].fn = Callback(Boot, req'[Boot])
        /\ callbacks'[s].headers = BuildHeaders(b.sub, b.row)
        /\ headers'[Boot] = BuildHeaders(b.sub, b.row) /\ todo'[Boot] = b.row.events
        /\ UNCHANGED <<prev, calls>>
    BY <1>4, BootRegisterEffect
  <2>2. req'[Boot].kind = "boot" /\ req'[Boot].sub = b.sub /\ req'[Boot].row = b.row
    BY <2>1 DEF Request
  <2>3. calls[Boot] = <<>>
    BY <2>1 DEF OInv, IInv, Local, Threads
  <2> QED BY <1>4, <2>1, <2>2, <2>3 DEF Enters, HeadersOf
<1>5. ASSUME NEW t \in Threads, BusCall(t) \/ \E e \in Events : Turn(t, e)
      PROVE  callbacks' = callbacks
  BY <1>5, InLoopEffect
<1>6. ASSUME NEW o \in Ops, Requested(o) \/ UpdateFlush(o) \/ Commit(o)
      PROVE  callbacks' = callbacks
  BY <1>6, RequestedEffect, UpdateFlushEffect, CommitEffect
<1>7. CASE TokenReceived \/ BootList \/ BootEnds
  BY <1>7, BootQuietEffect
<1> QED BY <1>1, <1>2, <1>3, <1>4, <1>5, <1>6, <1>7, Steps DEF vars, Threads

\* No request updates a subscription unless clients ask for it.
LEMMA PlainStep ==
  ASSUME OInv, Quiet, PlainUpdates, HeaderInv, [Next]_vars, NEW t \in Threads
  PROVE  Plain(t)'
<1> USE DEF Plain, Serving
<1>1. Plain(t) /\ Boot \in Threads /\ Ops \subseteq Threads
  BY DEF HeaderInv, Threads
<1>2. ASSUME NEW u \in Threads, Others(u), req'[u].kind = req[u].kind, pc[u] \in Serving \/ pc'[u] \notin Serving
      PROVE  Plain(t)'
  BY <1>1, <1>2 DEF Others, Kept
<1>3. ASSUME NEW o \in Ops, Requested(o) PROVE Plain(t)'
  <2>1. req'[o].kind \in Kinds /\ Others(o)
    BY <1>3, RequestedEffect
  <2> QED BY <1>1, <2>1 DEF PlainUpdates, Others, Kept
<1>4. ASSUME NEW b \in backlog, BootRegister(b) PROVE Plain(t)'
  <2>1. req'[Boot] = Request("boot", b.sub, b.row) /\ Others(Boot)
    BY <1>4, BootRegisterEffect
  <2>2. req'[Boot].kind = "boot"
    BY <2>1 DEF Request
  <2> QED BY <1>1, <2>1, <2>2 DEF Others, Kept
<1>5. ASSUME NEW o \in Ops, \/ UpdateFlush(o) \/ Created(o) \/ Updated(o)
                            \/ Deleted(o) \/ Commit(o)
      PROVE  Plain(t)'
  <2>1. Others(o) /\ req'[o].kind = req[o].kind /\ pc[o] \in Serving
    BY <1>5, UpdateFlushEffect, CreatedEffect, UpdatedEffect, DeletedEffect, CommitEffect
  <2> QED BY <1>1, <1>2, <2>1
<1>6. ASSUME NEW u \in Threads, LoopEnds(u) PROVE Plain(t)'
  BY <1>2, <1>6, LoopEndsEffect
<1>7. ASSUME NEW u \in Threads, BusCall(u) \/ \E e \in Events : Turn(u, e) PROVE Plain(t)'
  BY <1>1, <1>7, InLoopEffect
<1>8. CASE TokenReceived \/ BootList \/ BootEnds
  <2>1. Others(Boot) /\ UNCHANGED req /\ pc'[Boot] \in {"list", "next", "done"}
    BY <1>8, BootQuietEffect
  <2> QED BY <1>1, <1>2, <2>1
<1>9. CASE UNCHANGED vars
  BY <1>1, <1>9 DEF vars
<1> QED BY <1>3, <1>4, <1>5, <1>6, <1>7, <1>8, <1>9, Steps

LEMMA HeaderStep ==
  ASSUME MInv, MInv', Quiet, PlainUpdates, HeaderInv, [Next]_vars
  PROVE  HeaderInv'
<1>1. OInv /\ prev[Boot] = EmptyEntry /\ \A t \in Threads : Fitting(t) /\ Fitting(t)'
  BY FittingStep DEF MInv, HeaderInv
<1>2. prev'[Boot] = EmptyEntry
  <2>1. ASSUME NEW o \in Ops, Updated(o) \/ Deleted(o) PROVE prev'[Boot] = prev[Boot]
    <3>1. Others(o) /\ Boot \in Threads \ {o}
      BY <1>1, <2>1, UpdatedEffect, DeletedEffect, BootAssumption DEF Threads
    <3> QED BY <3>1 DEF Others, Kept
  <2>2. ASSUME NEW o \in Ops, Requested(o) \/ UpdateFlush(o) \/ Created(o) \/ Commit(o)
        PROVE  prev'[Boot] = prev[Boot]
    <3>1. Requested(o) => Others(o) /\ Boot \in Threads \ {o}
      BY <1>1, RequestedEffect DEF Threads
    <3>2. Requested(o) => prev'[Boot] = prev[Boot]
      BY <3>1 DEF Others, Kept
    <3> QED BY <1>1, <2>2, <3>2, UpdateFlushEffect, CreatedEffect, CommitEffect
  <2>3. ASSUME NEW t \in Threads, BusCall(t) \/ LoopEnds(t) \/ \E e \in Events : Turn(t, e)
        PROVE  prev'[Boot] = prev[Boot]
    BY <1>1, <2>3, InLoopEffect, LoopEndsEffect
  <2>4. ASSUME \/ (TokenReceived \/ BootList \/ BootEnds)
               \/ \E b \in backlog : BootRegister(b)
        PROVE  prev'[Boot] = prev[Boot]
    BY <1>1, <2>4, BootQuietEffect, BootRegisterEffect
  <2> QED BY <1>1, <2>1, <2>2, <2>3, <2>4, Steps DEF vars
<1>3. HandlersFit'
  BY <1>1, HandlersFitStep
<1>4. ASSUME NEW s \in Subs PROVE EntryFits(s)'
  <2>1. CASE callbacks'[s] = callbacks[s]
    BY <2>1 DEF HeaderInv, EntryFits
  <2>2. CASE callbacks'[s] = EmptyEntry
    BY <2>2 DEF EntryFits
  <2>3. ASSUME NEW t \in Threads, req'[t].sub = s, callbacks'[s].fn = Callback(t, req'[t]),
               callbacks'[s].headers = HeadersOf(req'[t])
        PROVE  EntryFits(s)'
    BY <2>3 DEF EntryFits, HeadersOf, Callback
  <2>4. ASSUME NEW t \in Threads, LoopEnds(t), req[t].kind = "update", req[t].sub = s,
               callbacks'[s].fn = Callback(t, req[t]), callbacks'[s].headers = headers[t]
        PROVE  EntryFits(s)'
    <3>1. headers[t] = HeadersOf(req[t])
      BY <1>1, <2>4 DEF Fitting, LoopEnds
    <3> QED BY <2>4, <3>1 DEF EntryFits, HeadersOf, Callback
  <2> QED BY <1>1, <2>1, <2>2, <2>3, <2>4, EntryStep
<1>5. ASSUME NEW t \in Threads PROVE Plain(t)'
  BY <1>1, PlainStep
<1> QED BY <1>1, <1>2, <1>3, <1>4, <1>5 DEF HeaderInv

LEMMA CallsStep ==
  ASSUME MInv, MInv', Quiet, PlainUpdates, HeaderInv, CallsInv, [Next]_vars
  PROVE  CallsInv'
<1> SUFFICES ASSUME NEW t \in Threads, req'[t].kind = "update",
                    NEW i \in DOMAIN calls'[t], calls'[t][i].do = "unsubscribe",
                    NEW e, e = calls'[t][i].event
             PROVE  \/ e \notin req'[t].row.events
                    \/ prev'[t].headers # HeadersOf(req'[t])
                    \/ SubDue(t, e, i)'
  BY DEF CallsInv, HeadersOf, SubDue
<1>1. OInv /\ TypeOK /\ prev[Boot] = EmptyEntry /\ Fitting(t) /\ Plain(t)
  BY DEF MInv, OInv, IInv, HeaderInv
<1>2. CASE Kept(t)
  BY <1>2 DEF Kept, CallsInv, SubDue
<1>3. CASE Outside(t) \/ Enters(t)
  BY <1>3 DEF Outside, Enters
<1>4. CASE BusCall(t)
  <2>1. /\ calls[t] # <<>> /\ calls'[t] = Tail(calls[t]) /\ UNCHANGED <<req, prev>>
    BY <1>1, <1>4, BusCallEffect
  <2>2. /\ i \in Nat /\ i + 1 \in DOMAIN calls[t] /\ calls'[t][i] = calls[t][i + 1]
    BY <1>1, <2>1, TailFacts
  <2>3. SubDue(t, e, i + 1) => SubDue(t, e, i)'
    <3> SUFFICES ASSUME NEW j \in DOMAIN calls[t], j > i + 1,
                        calls[t][j].do = "subscribe", calls[t][j].event = e
                 PROVE  \E k \in DOMAIN calls'[t] : /\ k > i /\ calls'[t][k].do = "subscribe"
                                                    /\ calls'[t][k].event = e
      BY <2>2 DEF SubDue
    <3>1. j # 1
      BY <2>2
    <3>2. j \in Nat /\ j - 1 \in DOMAIN calls'[t] /\ calls'[t][j - 1] = calls[t][j]
      BY <1>1, <2>1, <3>1, TailFacts
    <3> QED BY <2>2, <3>2
  <2> QED BY <2>1, <2>2, <2>3 DEF CallsInv
<1>5. ASSUME NEW d \in Events, Turn(t, d)
      PROVE  \/ e \notin req'[t].row.events
             \/ prev'[t].headers # HeadersOf(req'[t])
             \/ SubDue(t, e, i)'
  <2>1. pc[t] = "loop" /\ UNCHANGED <<req, prev>> /\ req[t].kind = "update"
    BY <1>1, <1>5, TurnEffect
  <2>2. headers[t] = HeadersOf(req[t]) /\ calls'[t] = CallsFor(t, d, headers[t])
    BY <1>1, <1>5, <2>1, TurnEffect, PlainHeaders DEF Fitting, Plain, Serving
  <2> DEFINE C == CallsFor(t, d, headers[t])
  <2>3. \/ C[i].event \notin req[t].row.events
        \/ prev[t].headers # headers[t]
        \/ \E j \in DOMAIN C : j > i /\ C[j].do = "subscribe" /\ C[j].event = C[i].event
    BY <2>1, <2>2, UpdateCallsFacts
  <2> HIDE DEF C
  <2> QED BY <2>1, <2>2, <2>3 DEF SubDue, C
<1> QED BY <1>1, <1>2, <1>3, <1>4, <1>5, ThreadStep

\* An unsubscribe takes the handlers of the callback the thread popped, and
\* their bindings, and nothing else.
LEMMA UnsubscribeKeeps ==
  ASSUME OInv, HeaderInv, NEW u \in Threads, Unsubscribe(u), NEW e, NEW fn, Present(e, fn),
         \/ prev[u] = EmptyEntry
         \/ fn.sub # req[u].sub
         \/ /\ fn # prev[u].fn
            /\ HeadersFor(e, fn) # HeadersFor(e, prev[u].fn) \/ e # calls[u][1].event
  PROVE  Present(e, fn)'
<1> DEFINE gone == {h \in handlers : h.event = Head(calls[u]).event /\ h.fn = prev[u].fn}
           x == [event |-> e, fn |-> fn, headers |-> HeadersFor(e, fn)]
           y == [event |-> e, headers |-> HeadersFor(e, fn)]
<1>1. /\ handlers' = handlers \ gone
      /\ bindings' = bindings \ {[event |-> h.event, headers |-> h.headers] : h \in gone}
      /\ calls[u] # <<>>
  BY DEF Unsubscribe
<1>2. Head(calls[u]) = calls[u][1]
  BY <1>1, TailFacts DEF OInv, IInv
<1>3. \A h \in gone : /\ prev[u] # EmptyEntry /\ h.event = calls[u][1].event
                      /\ h.fn = prev[u].fn /\ h.headers = HeadersFor(h.event, h.fn)
                      /\ h.fn.sub = req[u].sub
  <2> SUFFICES ASSUME NEW h \in gone
               PROVE  /\ prev[u] # EmptyEntry /\ h.event = calls[u][1].event
                      /\ h.fn = prev[u].fn /\ h.headers = HeadersFor(h.event, h.fn)
                      /\ h.fn.sub = req[u].sub
    OBVIOUS
  <2>1. h.fn = prev[u].fn /\ h.event = calls[u][1].event
        /\ h.headers = HeadersFor(h.event, h.fn)
    BY <1>2 DEF HeaderInv, HandlersFit
  <2>2. h.fn # Nil
    BY NilAssumption DEF OInv, IInv, TypeOK, CallbackType
  <2>3. prev[u] # EmptyEntry
    BY <2>1, <2>2 DEF EmptyEntry
  <2> QED BY <2>1, <2>3 DEF HeaderInv, Fitting
<1>4. HeadersFor(e, fn).sub = fn.sub /\ \A h \in gone : h.headers.sub = req[u].sub
  BY <1>3, HeadersFields
<1>5. \A h \in gone : h # x /\ [event |-> h.event, headers |-> h.headers] # y
  <2> SUFFICES ASSUME NEW h \in gone, h = x \/ [event |-> h.event, headers |-> h.headers] = y
               PROVE  FALSE
    OBVIOUS
  <2>1. h.event = e /\ h.headers = HeadersFor(e, fn) /\ (h = x => h.fn = fn)
    OBVIOUS
  <2> QED BY <1>3, <1>4, <2>1
<1>6. x \in handlers /\ y \in bindings
  BY DEF Present
<1> HIDE DEF gone, x, y
<1>7. x \in handlers' /\ y \in bindings'
  BY <1>1, <1>5, <1>6
<1> QED BY <1>7 DEF Present, HeadersFor, HeadersOf, x, y

LEMMA SubscribeKeeps ==
  ASSUME OInv, HeaderInv, NEW u \in Threads, Subscribe(u), NEW e, NEW fn, Present(e, fn)
  PROVE  Present(e, fn)'
BY SubscribeEffect DEF Present, HeadersFor, HeadersOf

\* The loop that has the subscription of another one is that one.
LEMMA LoopAlone ==
  ASSUME OInv, SameKind, NEW t \in Threads, NEW u \in Threads, u # t,
         pc[t] = "loop", pc[u] = "loop", req[t].kind # "delete", prev[Boot] = EmptyEntry
  PROVE  req[u].sub # req[t].sub \/ prev[u] = EmptyEntry
<1>1. CASE u = Boot
  BY <1>1
<1>2. CASE t = Boot
  BY <1>2 DEF OInv, BootPhase, Threads
<1>3. CASE u \in Ops /\ t \in Ops
  <2>1. Writes(t)
    BY <1>3, RunningFacts DEF Writes
  <2> QED BY <1>3, <2>1, OnlyWriter
<1> QED BY <1>1, <1>2, <1>3 DEF Threads

LEMMA PresentStep ==
  ASSUME MInv, MInv', Quiet, PlainUpdates, HeaderInv, CallsInv, PresentInv, [Next]_vars
  PROVE  PresentInv'
<1> SUFFICES ASSUME NEW t \in Threads, pc'[t] = "loop", req'[t].kind # "delete",
                    NEW e \in req'[t].row.events, NEW fn, fn = Callback(t, req'[t])
             PROVE  Due(t, e)' \/ Present(e, fn)'
  BY DEF PresentInv, Present, Due, SubDue, HeadersFor, HeadersOf, Callback
<1>1. /\ OInv /\ TypeOK /\ SameKind /\ prev[Boot] = EmptyEntry /\ Fitting(t) /\ Plain(t)
      /\ fn.by = t /\ fn.sub = req'[t].sub
  BY CallbackFields DEF MInv, PhaseInv, OInv, IInv, HeaderInv
<1>2. ASSUME UNCHANGED <<handlers, bindings>>, Present(e, fn) PROVE Present(e, fn)'
  BY <1>2 DEF Present, HeadersFor, HeadersOf
<1>3. CASE Kept(t)
  <2>1. /\ pc[t] = "loop" /\ req[t] = req'[t] /\ (Due(t, e) => Due(t, e)')
        /\ Due(t, e) \/ Present(e, fn)
    BY <1>3 DEF Kept, Due, SubDue, PresentInv
  <2>2. ASSUME NEW u \in Threads, BusCall(u) PROVE u # t
    <3>1. calls[u] # <<>> /\ calls'[u] = Tail(calls[u])
      BY <1>1, <2>2, BusCallEffect
    <3>2. calls[u] \in Seq(CallType)
      BY <1>1 DEF TypeOK
    <3>3. \A c \in Seq(CallType) : c # <<>> => Tail(c) # c
      <4> SUFFICES ASSUME NEW c \in Seq(CallType), c # <<>> PROVE Len(Tail(c)) # Len(c)
        OBVIOUS
      <4> QED OBVIOUS
    <3>4. calls'[u] # calls[u]
      BY <3>1, <3>2, <3>3
    <3> QED BY <1>3, <3>4 DEF Kept
  <2>3. ASSUME NEW u \in Threads, Unsubscribe(u), Present(e, fn) PROVE Present(e, fn)'
    <3>1. u # t /\ pc[u] = "loop"
      BY <1>1, <2>2, <2>3, BusCallEffect DEF BusCall
    <3>2. fn.sub # req[u].sub \/ prev[u] = EmptyEntry
      BY <1>1, <2>1, <3>1, LoopAlone
    <3> QED BY <1>1, <2>3, <3>2, UnsubscribeKeeps
  <2>4. ASSUME NEW u \in Threads, Subscribe(u), Present(e, fn) PROVE Present(e, fn)'
    BY <1>1, <2>4, SubscribeKeeps
  <2> QED BY <1>1, <1>2, <2>1, <2>3, <2>4, OnlyBusCalls DEF BusCall
<1>4. CASE Outside(t)
  BY <1>4 DEF Outside
<1>5. CASE Enters(t)
  BY <1>5 DEF Enters, Due
<1>6. ASSUME NEW d \in Events, Turn(t, d) PROVE Due(t, e)' \/ Present(e, fn)'
  <2>1. /\ pc[t] = "loop" /\ calls[t] = <<>> /\ todo'[t] = todo[t] \ {d}
        /\ calls'[t] = CallsFor(t, d, HandleTenantEvents(d, headers[t]))
        /\ UNCHANGED <<pc, req, handlers, bindings>>
    BY <1>1, <1>6, TurnEffect
  <2>2. ~SubDue(t, e, 0)
    BY <2>1 DEF SubDue
  <2>3. e \in todo[t] \/ Present(e, fn)
    BY <2>1, <2>2 DEF PresentInv, Due
  <2>4. CASE e = d
    <3> DEFINE C == CallsFor(t, d, HandleTenantEvents(d, headers[t]))
    <3>1. \E j \in DOMAIN C : j > 0 /\ C[j].do = "subscribe" /\ C[j].event = d
      BY <2>1, <2>4, UpdateCallsFacts
    <3> HIDE DEF C
    <3> QED BY <2>1, <2>4, <3>1 DEF Due, SubDue, C
  <2>5. CASE e # d
    BY <1>2, <2>1, <2>3, <2>5 DEF Due
  <2> QED BY <2>4, <2>5
<1>7. CASE BusCall(t)
  <2>1. /\ pc[t] = "loop" /\ calls[t] # <<>> /\ calls'[t] = Tail(calls[t])
        /\ UNCHANGED <<pc, req, prev, todo>>
    BY <1>1, <1>7, BusCallEffect
  <2>2. /\ 1 \in DOMAIN calls[t] /\ Head(calls[t]) = calls[t][1]
        /\ \A i \in DOMAIN calls[t] :
             i = 1 \/ (/\ i \in Nat /\ i > 1
                       /\ i - 1 \in DOMAIN calls'[t]
                       /\ calls'[t][i - 1] = calls[t][i])
    BY <1>1, <2>1, TailFacts
  <2>3. Due(t, e) \/ Present(e, fn)
    BY <2>1 DEF PresentInv
  <2>4. e \in todo[t] => Due(t, e)'
    BY <2>1 DEF Due
  <2>5. ASSUME NEW i \in DOMAIN calls[t], i # 1, calls[t][i].do = "subscribe", calls[t][i].event = e
        PROVE  Due(t, e)'
    <3>1. i - 1 \in DOMAIN calls'[t] /\ i - 1 > 0 /\ calls'[t][i - 1] = calls[t][i]
      BY <2>2, <2>5
    <3> QED BY <2>5, <3>1 DEF Due, SubDue
  <2>6. CASE Subscribe(t)
    <3>1. calls[t][1].event = e => Present(e, fn)'
      BY <1>1, <2>1, <2>6, SubscribeEffect DEF Present, HeadersFor, HeadersOf
    <3>2. Present(e, fn) => Present(e, fn)'
      BY <1>1, <2>6, SubscribeKeeps
    <3> QED BY <2>3, <2>4, <2>5, <3>1, <3>2 DEF Due, SubDue
  <2>7. CASE Unsubscribe(t)
    <3>1. calls[t][1].do = "unsubscribe"
      BY <2>2, <2>7 DEF Unsubscribe
    <3>2. Due(t, e) => Due(t, e)'
      BY <2>4, <2>5, <3>1 DEF Due, SubDue
    <3>3. ASSUME Present(e, fn), prev[t] # EmptyEntry PROVE Due(t, e)' \/ Present(e, fn)'
      <4>1. t \in Ops /\ req[t].kind = "update"
        <5>1. t \in Ops
          BY <1>1, <3>3 DEF Threads
        <5> QED BY <1>1, <2>1, <3>3, <5>1, RunningFacts DEF OInv, Shape
      <4>2. fn # prev[t].fn
        BY <1>1, <2>1, <3>3, <4>1 DEF MInv, PhaseInv, Phase
      <4>3. HeadersOf(fn) = HeadersOf(req[t])
        BY <2>1 DEF HeadersOf, Callback
      <4>4. CASE e # calls[t][1].event \/ HeadersOf(fn) # prev[t].headers
        <5>1. prev[t].headers = HeadersOf(prev[t].fn)
          BY <1>1, <3>3 DEF Fitting
        <5>2. e = calls[t][1].event => e \in Events
          <6>1. PICK c \in Seq(CallType) : c = calls[t]
            BY <1>1 DEF TypeOK
          <6>2. 1 \in DOMAIN c
            BY <2>2, <6>1
          <6>3. c[1] \in CallType
            BY <6>2
          <6>4. c[1].event \in Events
            BY <6>3 DEF CallType, Unsub
          <6> QED BY <6>1, <6>4
        <5>3. e = calls[t][1].event =>
                /\ HeadersFor(e, fn) = HeadersOf(fn)
                /\ HeadersFor(e, prev[t].fn) = HeadersOf(prev[t].fn)
          BY <1>1, <2>1, <4>1, <5>2, PlainHeaders DEF HeadersFor, Plain, Serving
        <5> QED BY <1>1, <2>7, <3>3, <4>2, <4>4, <5>1, <5>3, UnsubscribeKeeps
      <4>5. CASE e = calls[t][1].event /\ HeadersOf(fn) = prev[t].headers
        <5>1. SubDue(t, e, 1)
          BY <2>1, <2>2, <3>1, <4>1, <4>3, <4>5 DEF CallsInv
        <5> QED BY <2>5, <5>1 DEF SubDue
      <4> QED BY <4>4, <4>5
    <3>4. ASSUME Present(e, fn), prev[t] = EmptyEntry PROVE Present(e, fn)'
      BY <1>1, <2>7, <3>4, UnsubscribeKeeps
    <3> QED BY <2>3, <3>2, <3>3, <3>4
  <2> QED BY <1>7, <2>6, <2>7 DEF BusCall
<1> QED BY <1>1, <1>3, <1>4, <1>5, <1>6, <1>7, ThreadStep

LEMMA EntryInvStep ==
  ASSUME MInv, MInv', Quiet, PlainUpdates, HeaderInv, PresentInv, EntryInv, [Next]_vars
  PROVE  EntryInv'
<1> SUFFICES ASSUME NEW s \in Subs, callbacks'[s] # EmptyEntry,
                    NEW fn, fn = callbacks'[s].fn, NEW e \in fn.row.events
             PROVE  \/ Present(e, fn)'
                    \/ \E t \in Threads : /\ pc'[t] = "loop" /\ req'[t].kind # "delete"
                                          /\ Callback(t, req'[t]) = fn
  BY DEF EntryInv, Looping, Present, HeadersFor, HeadersOf, Callback
<1>1. OInv /\ TypeOK /\ PhaseInv /\ prev[Boot] = EmptyEntry /\ EntryFits(s)
  BY DEF MInv, OInv, IInv, HeaderInv
<1>2. ASSUME NEW t \in Threads, LoopEnds(t), req[t].kind # "delete", Callback(t, req[t]) = fn
      PROVE  Present(e, fn)'
  <2>1. /\ pc[t] = "loop" /\ todo[t] = {} /\ calls[t] = <<>>
        /\ UNCHANGED <<handlers, bindings>>
    BY <1>1, <1>2, LoopEndsEffect
  <2>2. fn.row = req[t].row
    BY <1>2, CallbackFields
  <2>3. Present(e, fn)
    BY <1>2, <2>1, <2>2 DEF PresentInv, Due, SubDue
  <2> QED BY <2>1, <2>3 DEF Present, HeadersFor, HeadersOf
<1>3. CASE callbacks'[s] = callbacks[s]
  <2>1. Present(e, fn) \/ Looping(s)
    BY <1>3 DEF EntryInv
  <2>2. CASE Present(e, fn)
    <3>1. ASSUME NEW u \in Threads, Unsubscribe(u) PROVE Present(e, fn)'
      <4>1. pc[u] = "loop" /\ fn.sub = s
        BY <1>1, <1>3, <3>1, BusCallEffect DEF BusCall, EntryFits
      <4>2. req[u].sub # s \/ prev[u] = EmptyEntry
        <5> SUFFICES ASSUME u \in Ops, req[u].sub = s, prev[u] # EmptyEntry PROVE FALSE
          BY <1>1 DEF Threads
        <5>1. req[u].kind \in {"update", "delete"}
          BY <1>1, <4>1, RunningFacts DEF OInv, Shape
        <5>2. callbacks[s] = EmptyEntry
          BY <1>1, <4>1, <5>1 DEF OInv, UpdatingOwns, PhaseInv, Phase, Removes
        <5> QED BY <1>3, <5>2
      <4> QED BY <1>1, <2>2, <3>1, <4>1, <4>2, UnsubscribeKeeps
    <3>2. ASSUME NEW u \in Threads, Subscribe(u) PROVE Present(e, fn)'
      BY <1>1, <2>2, <3>2, SubscribeKeeps
    <3>3. ASSUME UNCHANGED <<handlers, bindings>> PROVE Present(e, fn)'
      BY <2>2, <3>3 DEF Present, HeadersFor, HeadersOf
    <3> QED BY <1>1, <3>1, <3>2, <3>3, OnlyBusCalls DEF BusCall
  <2>3. CASE Looping(s)
    <3>1. PICK t \in Threads : /\ pc[t] = "loop" /\ req[t].kind # "delete"
                               /\ Callback(t, req[t]) = fn
      BY <1>3, <2>3 DEF Looping
    <3>2. CASE pc'[t] = "loop"
      <4>1. req'[t] = req[t]
        BY <1>1, <3>1, <3>2, ThreadStep, InLoopEffect DEF Kept, Outside, Enters
      <4> QED BY <3>1, <3>2, <4>1
    <3>3. CASE pc'[t] # "loop"
      <4>1. LoopEnds(t)
        <5>1. ASSUME NEW u \in Threads, u # t, Others(u) PROVE FALSE
          BY <3>1, <3>3, <5>1 DEF Others, Kept
        <5>2. ASSUME NEW o \in Ops, \/ Requested(o) \/ UpdateFlush(o) \/ Created(o)
                                    \/ Updated(o) \/ Deleted(o) \/ Commit(o)
              PROVE  FALSE
          <6>1. o \in Threads /\ Others(o) /\ pc[o] # "loop"
            BY <1>1, <5>2, RequestedEffect, UpdateFlushEffect, CreatedEffect, UpdatedEffect,
               DeletedEffect, CommitEffect DEF Threads
          <6> QED BY <3>1, <5>1, <6>1
        <5>3. ASSUME \/ (TokenReceived \/ BootList \/ BootEnds)
                     \/ \E b \in backlog : BootRegister(b)
              PROVE  FALSE
          <6>1. Boot \in Threads /\ Others(Boot) /\ pc[Boot] # "loop"
            BY <1>1, <5>3, BootQuietEffect, BootRegisterEffect DEF Threads
          <6> QED BY <3>1, <5>1, <6>1
        <5>4. ASSUME NEW u \in Threads, LoopEnds(u) PROVE u = t
          BY <1>1, <5>1, <5>4, LoopEndsEffect
        <5>5. ASSUME NEW u \in Threads, BusCall(u) \/ \E d \in Events : Turn(u, d) PROVE FALSE
          BY <3>1, <3>3, <5>5, InLoopEffect
        <5>6. CASE UNCHANGED vars
          BY <3>1, <3>3, <5>6 DEF vars
        <5> QED BY <5>2, <5>3, <5>4, <5>5, <5>6, Steps
      <4> QED BY <1>2, <3>1, <4>1
    <3> QED BY <3>2, <3>3
  <2> QED BY <2>1, <2>2, <2>3
<1>4. CASE callbacks'[s] # callbacks[s]
  BY <1>1, <1>2, <1>4, EntryStep
<1> QED BY <1>3, <1>4

LEMMA FInit == Init => FInv
<1> SUFFICES ASSUME Init PROVE FInv
  OBVIOUS
<1>1. MInv
  BY MInit
<1>2. /\ \A t \in Threads : /\ pc[t] # "loop" /\ prev[t] = EmptyEntry /\ calls[t] = <<>>
      /\ \A s \in Subs : callbacks[s] = EmptyEntry
      /\ handlers = {}
  BY DEF Init
<1>3. HeaderInv
  <2>1. \A t \in Threads : pc[t] \in {"waiting", "ready"}
    BY DEF Init
  <2> QED BY <1>2, <2>1 DEF HeaderInv, HandlersFit, EntryFits, Fitting, Plain, Serving, Threads
<1>4. CallsInv /\ PresentInv /\ EntryInv
  BY <1>2 DEF CallsInv, PresentInv, EntryInv
<1> QED BY <1>1, <1>3, <1>4 DEF FInv

LEMMA FStep ==
  ASSUME FInv, Quiet, PlainUpdates, [Next]_vars
  PROVE  FInv'
<1>1. MInv'
  BY MStep DEF FInv
<1> QED BY <1>1, HeaderStep, CallsStep, PresentStep, EntryInvStep DEF FInv

-----------------------------------------------------------------------------
(***************************************************************************)
(* What a message triggers.                                                *)
(***************************************************************************)
\* When nothing runs on a subscription its entry is that of its row, and its
\* handlers are those of the entry.
LEMMA SettledFacts ==
  ASSUME FInv, NEW s \in Subs, Settled(s)
  PROVE  /\ Agree(s)
         /\ \A h \in handlers : h.fn.sub = s =>
              /\ callbacks[s].fn = h.fn /\ callbacks[s] # EmptyEntry
              /\ h.event \in h.fn.row.events /\ h.headers = HeadersFor(h.event, h.fn)
         /\ callbacks[s] # EmptyEntry =>
              \A e \in callbacks[s].fn.row.events : Present(e, callbacks[s].fn)
<1>1. /\ pc[Boot] = "done" /\ \A o \in Ops : req[o].sub = s => pc[o] = "done"
      /\ OInv /\ HeaderInv /\ MirrorInv /\ TypeOK
  BY DEF FInv, MInv, OInv, IInv, Settled
<1>2. Agree(s)
  BY <1>1 DEF MirrorInv, Mirror, Writes, Removes
<1>3. ASSUME NEW h \in handlers, h.fn.sub = s
      PROVE  /\ callbacks[s].fn = h.fn /\ callbacks[s] # EmptyEntry
             /\ h.event \in h.fn.row.events /\ h.headers = HeadersFor(h.event, h.fn)
  <2>1. h.fn # Nil
    BY <1>1, NilAssumption DEF TypeOK, CallbackType
  <2>2. ASSUME NEW o \in Ops, Held(o, h) PROVE FALSE
    <3>1. pc[o] = "loop" /\ req[o].sub # s /\ o \in Threads
      BY <1>1, <2>2 DEF Held, Threads
    <3>2. h.fn # Callback(o, req[o])
      BY <1>3, <3>1, CallbackFields
    <3>3. h.fn = prev[o].fn /\ prev[o] # EmptyEntry
      BY <2>1, <2>2, <3>2 DEF Held, EmptyEntry
    <3> QED BY <1>1, <1>3, <3>1, <3>3 DEF HeaderInv, Fitting
  <2>3. callbacks[s].fn = h.fn
    BY <1>1, <1>3, <2>2 DEF OInv, HandlersOwned, Accounted
  <2> QED BY <1>1, <2>1, <2>3 DEF OInv, HandlersOwned, HeaderInv, HandlersFit, EmptyEntry
<1>4. ASSUME callbacks[s] # EmptyEntry PROVE ~Looping(s)
  <2> SUFFICES ASSUME NEW t \in Threads, pc[t] = "loop", Callback(t, req[t]) = callbacks[s].fn
               PROVE  FALSE
    BY DEF Looping
  <2>1. req[t].sub = s
    BY <1>1, <1>4, CallbackFields DEF HeaderInv, EntryFits
  <2> QED BY <1>1, <2>1 DEF Threads
<1> QED BY <1>2, <1>3, <1>4 DEF FInv, EntryInv

\* Once the requests on a subscription have ended, a message its row asks for
\* triggers exactly one callback, with the data of the row, for any requests
\* that overlapped their like and did not fail.
THEOREM OneCallbackEach ==
  ASSUME Quiet, PlainUpdates PROVE Spec => []OneCallback
<1>1. FInv /\ [Next]_vars => FInv'
  BY FStep
<1>2. FInv => OneCallback
  <2> SUFFICES ASSUME FInv, NEW s \in Subs, NEW m \in Messages, Settled(s), Wanted(m, s)
               PROVE  \E h \in Triggered(m) : TriggeredOf(s, m) = {h} /\ h.fn.row = db[s].row
    BY DEF OneCallback
  <2> DEFINE fn == callbacks[s].fn
             g == HeadersFor(m.event, fn)
             h == [event |-> m.event, fn |-> fn, headers |-> g]
             b == [event |-> m.event, headers |-> g]
  <2>1. /\ db[s] # Nil /\ m.event \in db[s].row.events
        /\ TypeOK /\ HeaderInv
    BY DEF Wanted, FInv, MInv, OInv, IInv
  <2>2. callbacks[s] # EmptyEntry /\ fn.row = db[s].row /\ fn.sub = s
    BY <2>1, SettledFacts DEF Agree, HeaderInv, EntryFits
  <2>3. CheckHeadersMatch(m, g)
    BY <2>1, <2>2 DEF HeadersFor, HeadersOf, Wanted
  <2>4. h \in handlers /\ b \in bindings
    BY <2>1, <2>2, SettledFacts DEF Present
  <2>5. h \in Triggered(m) /\ h.fn = fn
    <3>1. h.event = m.event /\ h.headers = g /\ h.fn = fn
          /\ b.event = m.event /\ b.headers = g
      OBVIOUS
    <3> HIDE DEF h, b, g, fn
    <3> QED BY <2>3, <2>4, <3>1 DEF Triggered, Matching
  <2>6. ASSUME NEW x \in TriggeredOf(s, m) PROVE x = h
    <3>1. x \in handlers /\ x.fn.sub = s /\ x.event = m.event
      BY DEF TriggeredOf, Triggered, Matching
    <3>2. x.fn = fn /\ x.headers = g
      BY <3>1, SettledFacts
    <3>3. x \in [event : Events, fn : CallbackType, headers : HeaderType]
      BY <2>1, <3>1 DEF TypeOK
    <3> HIDE DEF fn, g
    <3> QED BY <3>1, <3>2, <3>3
  <2> HIDE DEF h
  <2>7. TriggeredOf(s, m) = {h}
    BY <2>2, <2>5, <2>6 DEF TriggeredOf
  <2> QED BY <2>2, <2>5, <2>7
<1> QED BY FInit, <1>1, <1>2, PTL DEF Spec

\* And a message its row does not ask for, or any message when it is deleted,
\* triggers none of its callbacks.
THEOREM NoOtherCallbackEach ==
  ASSUME Quiet, PlainUpdates PROVE Spec => []NoOtherCallback
<1>1. FInv /\ [Next]_vars => FInv'
  BY FStep
<1>2. FInv => NoOtherCallback
  <2> SUFFICES ASSUME FInv, NEW s \in Subs, NEW m \in Messages, Settled(s),
                      NEW h \in TriggeredOf(s, m)
               PROVE  Wanted(m, s)
    BY DEF NoOtherCallback
  <2>1. h \in handlers /\ h.fn.sub = s /\ h.event = m.event /\ CheckHeadersMatch(m, h.headers)
    BY DEF TriggeredOf, Triggered, Matching
  <2>2. /\ callbacks[s].fn = h.fn /\ callbacks[s] # EmptyEntry
        /\ h.event \in h.fn.row.events /\ Agree(s)
        /\ h.headers = HeadersFor(m.event, h.fn) /\ h.fn.sub = s
    BY <2>1, SettledFacts
  <2>3. db[s] # Nil /\ h.fn.row = db[s].row
    BY <2>2 DEF Agree
  <2> QED BY <2>1, <2>2, <2>3 DEF HeadersFor, HeadersOf, Wanted
<1> QED BY FInit, <1>1, <1>2, PTL DEF Spec

=============================================================================
