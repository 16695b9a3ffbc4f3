--------------------------- MODULE BusConsumerProofs ---------------------------
(***************************************************************************)
(* What the consumer's exchange is bound to, for any number of clients,    *)
(* events and restarts of RabbitMQ, whatever overlaps.                     *)
(*                                                                         *)
(* The argument: each binding is added to _bindings once, by the client    *)
(* that has the event still to do; so a binding that is new to _bindings   *)
(* is not among those declare has gone through, and those are all bound    *)
(* when declare ends.                                                      *)
(***************************************************************************)
EXTENDS BusConsumer, TLAPS

\* A client subscribes to what it has still to do, and adds it once.
TodoInv ==
  /\ \A c \in Clients : todo[c] \subseteq EventsOf[c]
  /\ \A c \in Clients : Subscribing(c) => event[c] \in todo[c]
  /\ \A b \in known : b.event \notin todo[b.by]

KnownInv ==
  /\ iterated \subseteq known
  /\ \A h \in handlers : Binding(h.by, h.event) \in known

DeclareInv == consumer = "declaring" => \A b \in declared : b.event \in bound

IInv == /\ TypeOK /\ TodoInv /\ KnownInv /\ DeclareInv
        /\ AllBoundByNext /\ BoundIsKept

-----------------------------------------------------------------------------
USE EventsOfAssumption, DeprecatedAssumption, BoundAssumption, NilAssumption

LEMMA InitIInv == Init => IInv
BY DEF Init, IInv, TypeOK, TodoInv, KnownInv, DeclareInv, AllBoundByNext, BoundIsKept,
       Subscribing

\* Nothing happens to the clients or to what they have asked for.
LEMMA ConsumerSide ==
  ASSUME IInv, TypeOK', UNCHANGED <<known, client>>, iterated' \in {iterated, known},
         DeclareInv', AllBoundByNext',
         \A e \in bound' : e \in bound \/ \E b \in known : b.event = e
  PROVE  IInv'
<1>1. TodoInv'
  BY DEF IInv, TodoInv, Subscribing, client
<1>2. KnownInv'
  BY DEF IInv, KnownInv, client
<1>3. BoundIsKept'
  BY DEF IInv, BoundIsKept, client
<1> QED
  BY <1>1, <1>2, <1>3 DEF IInv

LEMMA RabbitStep == ASSUME IInv, Stops \/ Starts PROVE IInv'
<1>1. ASSUME Stops PROVE IInv'
  <2>1. TypeOK'
    <3>1. restarts' \in 0..MaxRestarts
      BY <1>1 DEF IInv, TypeOK, Stops
    <3>2. /\ consumer' \in {"down", "declaring", "consuming", "dead"}
          /\ own' \in {"closed", "open", "stale"}
      BY <1>1 DEF IInv, TypeOK, Stops
    <3> QED
      BY <1>1, <3>1, <3>2 DEF IInv, TypeOK, Stops, client
  <2>2. DeclareInv' /\ AllBoundByNext' /\ bound' = {}
    BY <1>1 DEF Stops, DeclareInv, AllBoundByNext
  <2> QED
    BY <1>1, <2>1, <2>2, ConsumerSide DEF Stops
<1>2. ASSUME Starts PROVE IInv'
  <2>1. TypeOK'
    BY <1>2 DEF IInv, TypeOK, Starts, declare, exchange, client
  <2>2. DeclareInv' /\ AllBoundByNext'
    BY <1>2 DEF IInv, Starts, DeclareInv, AllBoundByNext, declare, exchange, client
  <2> QED
    BY <1>2, <2>1, <2>2, ConsumerSide DEF Starts, declare, exchange
<1> QED
  BY <1>1, <1>2

LEMMA ConsumeStep == ASSUME IInv, Consume PROVE IInv'
<1>1. ASSUME ConnectionError PROVE IInv'
  <2>1. TypeOK' /\ DeclareInv' /\ AllBoundByNext'
    BY <1>1 DEF IInv, TypeOK, DeclareInv, AllBoundByNext, ConnectionError, rabbit, declare, client
  <2> QED
    BY <1>1, <2>1, ConsumerSide DEF ConnectionError, declare
<1>2. ASSUME Connected PROVE IInv'
  <2>1. TypeOK' /\ DeclareInv' /\ AllBoundByNext'
    BY <1>2 DEF IInv, TypeOK, DeclareInv, AllBoundByNext, Connected, rabbit, exchange, client
  <2> QED
    BY <1>2, <2>1, ConsumerSide DEF Connected, exchange
<1>3. ASSUME NEW b \in iterated, DeclareBinding(b) PROVE IInv'
  <2>1. b \in BindingType /\ b \in known
    BY <1>3 DEF IInv, TypeOK, KnownInv
  <2>2. TypeOK'
    BY <1>3, <2>1 DEF IInv, TypeOK, DeclareBinding, rabbit, client, BindingType
  <2>3. DeclareInv' /\ AllBoundByNext'
    BY <1>3 DEF IInv, DeclareInv, AllBoundByNext, DeclareBinding
  <2> QED
    BY <1>3, <2>1, <2>2, <2>3, ConsumerSide DEF DeclareBinding
<1>4. ASSUME DeclareRaises PROVE IInv'
  <2>1. TypeOK' /\ DeclareInv' /\ AllBoundByNext'
    BY <1>4 DEF IInv, TypeOK, DeclareInv, AllBoundByNext, DeclareRaises, rabbit, exchange, client
  <2> QED
    BY <1>4, <2>1, ConsumerSide DEF DeclareRaises, exchange
<1>5. ASSUME DeclareEnds PROVE IInv'
  <2>1. TypeOK' /\ DeclareInv'
    BY <1>5 DEF IInv, TypeOK, DeclareInv, DeclareEnds, rabbit, exchange, client
  <2>2. AllBoundByNext'
    <3>1. \A h \in handlers : Binding(h.by, h.event) \in declared
      BY <1>5 DEF IInv, KnownInv, DeclareEnds, Grown
    <3>2. \A h \in handlers : h.event \in bound
      BY <1>5, <3>1 DEF IInv, DeclareInv, DeclareEnds, Binding
    <3> QED
      BY <1>5, <3>2 DEF AllBoundByNext, DeclareEnds, exchange, client
  <2> QED
    BY <1>5, <2>1, <2>2, ConsumerSide DEF DeclareEnds, exchange
<1> QED
  BY <1>1, <1>2, <1>3, <1>4, <1>5 DEF Consume

-----------------------------------------------------------------------------
\* The events to unsubscribe from, and fewer handlers, bind nothing.
LEMMA UnsubscribeStep ==
  ASSUME IInv, NEW c \in Clients,
         Unsubscribe(c) \/ \E e \in Events : UnsubscribeEvent(c, e)
  PROVE  IInv'
<1>1. /\ UNCHANGED <<up, restarts, consumer, iterated, declared, bound, own, known, event, todo>>
      /\ handlers' \subseteq handlers
  BY DEF Unsubscribe, UnsubscribeEvent, rabbit, declare, exchange
<1>2. /\ left' \in [Clients -> SUBSET Events]
      /\ pc' \in [Clients -> {"ready", "open", "bind", "add", "subscribed", "failed",
                              "unsubscribing", "done"}]
      /\ \A d \in Clients : pc'[d] = pc[d] \/ pc'[d] \in {"unsubscribing", "done"}
      /\ pc[c] \in {"subscribed", "unsubscribing"} /\ \A d \in Clients \ {c} : pc'[d] = pc[d]
  <2>1. CASE Unsubscribe(c)
    BY <2>1 DEF IInv, TypeOK, Unsubscribe, Goto
  <2>2. ASSUME NEW e \in Events, UnsubscribeEvent(c, e)
        PROVE  /\ left' = [left EXCEPT ![c] = @ \ {e}] /\ pc[c] = "unsubscribing"
               /\ \E l \in {"unsubscribing", "done"} : pc' = [pc EXCEPT ![c] = l]
    BY <2>2 DEF UnsubscribeEvent, Goto
  <2> QED
    BY <2>1, <2>2 DEF IInv, TypeOK
<1>3. TypeOK'
  BY <1>1, <1>2 DEF IInv, TypeOK
<1>4. TodoInv'
  BY <1>1, <1>2 DEF IInv, TodoInv, Subscribing
<1>5. KnownInv' /\ DeclareInv' /\ AllBoundByNext'
  BY <1>1 DEF IInv, KnownInv, DeclareInv, AllBoundByNext
<1>6. BoundIsKept'
  BY <1>1, <1>2 DEF IInv, BoundIsKept
<1> QED
  BY <1>3, <1>4, <1>5, <1>6 DEF IInv

LEMMA CallStep == ASSUME IInv, NEW c \in Clients, Call(c) PROVE IInv'
<1>1. ASSUME NEW e \in Events, NotRunning(c, e) \/ Running(c, e) PROVE IInv'
  <2>1. TypeOK' /\ TodoInv'
    BY <1>1 DEF IInv, TypeOK, TodoInv, NotRunning, Running, MayStart, Goto, Subscribing,
                rabbit, declare, exchange
  <2>2. KnownInv' /\ DeclareInv' /\ AllBoundByNext'
    BY <1>1 DEF IInv, KnownInv, DeclareInv, AllBoundByNext, NotRunning, Running,
                declare, exchange
  <2>3. BoundIsKept'
    BY <1>1 DEF IInv, TypeOK, BoundIsKept, NotRunning, Running, MayStart, Goto,
                exchange
  <2> QED
    BY <2>1, <2>2, <2>3 DEF IInv
<1>2. ASSUME Open(c) PROVE IInv'
  <2>1. TypeOK' /\ TodoInv'
    BY <1>2 DEF IInv, TypeOK, TodoInv, Open, Goto, Subscribing, rabbit, declare
  <2>2. KnownInv' /\ DeclareInv' /\ AllBoundByNext'
    BY <1>2 DEF IInv, KnownInv, DeclareInv, AllBoundByNext, Open, declare
  <2>3. BoundIsKept'
    BY <1>2 DEF IInv, TypeOK, BoundIsKept, Open, Goto
  <2> QED
    BY <2>1, <2>2, <2>3 DEF IInv
<1>3. ASSUME Bind(c) PROVE IInv'
  <2>1. event[c] \in Events
    BY <1>3 DEF IInv, TypeOK, TodoInv, Bind, Subscribing
  <2>2. TypeOK' /\ TodoInv'
    BY <1>3, <2>1 DEF IInv, TypeOK, TodoInv, Bind, Goto, Subscribing, rabbit, declare
  <2>3. KnownInv' /\ DeclareInv' /\ AllBoundByNext'
    BY <1>3 DEF IInv, KnownInv, DeclareInv, AllBoundByNext, Bind, declare
  <2>4. BoundIsKept'
    BY <1>3 DEF IInv, TypeOK, BoundIsKept, Bind, Goto
  <2> QED
    BY <2>2, <2>3, <2>4 DEF IInv
<1>4. ASSUME Add(c) PROVE IInv'
  <2> DEFINE b == Binding(c, event[c])
             h == [by |-> c, event |-> event[c], wrapped |-> c \in Deprecated]
  <2>1. event[c] \in todo[c] /\ event[c] \in Events /\ event[c] \in EventsOf[c]
    BY <1>4 DEF IInv, TypeOK, TodoInv, Add, Subscribing
  <2>2. /\ known' = known \cup {b} /\ handlers' = handlers \cup {h}
        /\ todo' = [todo EXCEPT ![c] = @ \ {event[c]}]
        /\ pc'[c] \in {"subscribed", "ready"} /\ \A d \in Clients \ {c} : pc'[d] = pc[d]
        /\ pc' \in [Clients -> {"ready", "open", "bind", "add", "subscribed", "failed",
                                "unsubscribing", "done"}]
    BY <1>4 DEF IInv, TypeOK, Add, Added, Goto
  <2>3. b \in BindingType /\ b \notin known /\ b.by = c /\ b.event = event[c]
    BY <2>1 DEF IInv, TodoInv, BindingType, Binding
  <2>4. TypeOK'
    <3>1. h \in [by : Clients, event : Events, wrapped : BOOLEAN]
      BY <2>1
    <3>2. todo' \in [Clients -> SUBSET Events]
      BY <2>2 DEF IInv, TypeOK
    <3> QED
      BY <1>4, <2>2, <2>3, <3>1, <3>2 DEF IInv, TypeOK, Add, rabbit, declare
  <2>5. TodoInv'
    BY <1>4, <2>2, <2>3 DEF IInv, TypeOK, TodoInv, Add, Subscribing, BindingType
  <2>6. KnownInv' /\ DeclareInv'
    <3>1. Binding(h.by, h.event) = b
      OBVIOUS
    <3> QED
      BY <1>4, <2>2, <3>1 DEF IInv, KnownInv, DeclareInv, Add, declare
  <2>7. AllBoundByNext'
    BY <1>4, <2>2, <2>3 DEF IInv, KnownInv, AllBoundByNext, Add, declare
  <2>8. BoundIsKept'
    BY <1>4, <2>2, <2>3 DEF IInv, BoundIsKept, Add
  <2> QED
    BY <2>4, <2>5, <2>6, <2>7, <2>8 DEF IInv
<1> QED
  BY <1>1, <1>2, <1>3, <1>4, UnsubscribeStep DEF Call

LEMMA NextIInv == ASSUME IInv, [Next]_vars PROVE IInv'
<1>1. ASSUME UNCHANGED vars PROVE IInv'
  <2>1. TypeOK' /\ DeclareInv' /\ AllBoundByNext'
    BY <1>1 DEF IInv, TypeOK, DeclareInv, AllBoundByNext, vars
  <2> QED
    BY <1>1, <2>1, ConsumerSide DEF vars, client
<1> QED
  BY <1>1, RabbitStep, ConsumeStep, CallStep, UnsubscribeStep DEF Next, Idle

LEMMA Invariance == Spec => []IInv
BY InitIInv, NextIInv, PTL DEF Spec

-----------------------------------------------------------------------------
\* Every variable keeps its type; declare binds only what it has found.
THEOREM TypeCorrect == Spec => []TypeOK
<1>1. IInv => TypeOK
  BY DEF IInv
<1> QED
  BY <1>1, Invariance, PTL

\* While the consumer consumes, an event somebody has subscribed to is bound, or
\* the next connection binds it (WebhookdExchange.declare).
THEOREM BoundByNextConnection == Spec => []AllBoundByNext
<1>1. IInv => AllBoundByNext
  BY DEF IInv
<1> QED
  BY <1>1, Invariance, PTL

\* What RabbitMQ routes to the exchange, _bindings keeps (subscribe_connected).
THEOREM BindingsAreKept == Spec => []BoundIsKept
<1>1. IInv => BoundIsKept
  BY DEF IInv
<1> QED
  BY <1>1, Invariance, PTL

=============================================================================
