------------------------------ MODULE BusConsumer ------------------------------
(***************************************************************************)
(* The consumer's side of RabbitMQ (bus.py): WebhookdExchange keeps the    *)
(* events to bind its auto-delete exchange to, binds them again whenever   *)
(* the consumer connects, and binds a new one over a connection of its own *)
(* when the consumer is connected already.  Clients subscribe to events    *)
(* from threads of their own, some through the deprecated wrapper.         *)
(***************************************************************************)
EXTENDS Naturals, FiniteSets

CONSTANTS Clients, Events,
          EventsOf,      \* the events each client subscribes to
          Deprecated,    \* the clients of subscribe_to_event_names
          MaxRestarts,   \* bound on the restarts of RabbitMQ
          Nil

ASSUME EventsOfAssumption   == EventsOf \in [Clients -> SUBSET Events]
ASSUME DeprecatedAssumption == Deprecated \subseteq Clients
ASSUME BoundAssumption      == MaxRestarts \in Nat
ASSUME NilAssumption        == Nil \notin Events

VARIABLES
  up,         \* is RabbitMQ reachable?
  restarts,   \* how many times it went away
  consumer,   \* "down", "declaring", "consuming" or, its thread ended, "dead"
  iterated,   \* _bindings as declare found it
  declared,   \* those it has bound so far
  bound,      \* the events RabbitMQ routes to the auto-delete exchange
  own,        \* _connection: "closed", "open" or, broken unnoticed, "stale"
  known,      \* _bindings: kombu bindings, each equal to itself only
  pc, event,  \* where each client is, and the event it subscribes to
  todo,       \* the events it has still to subscribe to
  left,       \* the events it has still to unsubscribe from
  handlers    \* the consumer's handlers

vars == <<up, restarts, consumer, iterated, declared, bound, own, known, pc,
          event, todo, left, handlers>>
rabbit   == <<up, restarts>>
declare  == <<consumer, iterated, declared>>
exchange == <<bound, own, known>>
client   == <<pc, event, todo, left, handlers>>

Binding(c, e) == [by |-> c, event |-> e]

Init ==
  /\ up \in BOOLEAN /\ restarts = 0
  /\ consumer = "down" /\ iterated = {} /\ declared = {}
  /\ bound = {} /\ own = "closed" /\ known = {}
  /\ pc = [c \in Clients |-> "ready"]
  /\ event = [c \in Clients |-> Nil]
  /\ todo = EventsOf /\ left = [c \in Clients |-> {}]
  /\ handlers = {}

Subscribing(c) == pc[c] \in {"open", "bind", "add"}

-----------------------------------------------------------------------------
(***************************************************************************)
(* RabbitMQ and the consumer's thread.                                     *)
(***************************************************************************)
\* The bindings of an auto-delete exchange are not kept.  The consumer notices;
\* the connection of the exchange does not.
Stops ==
  /\ up /\ restarts < MaxRestarts
  /\ up' = FALSE
  /\ restarts' = restarts + 1
  /\ bound' = {}
  /\ consumer' = IF consumer = "dead" THEN "dead" ELSE "down"
  /\ own' = IF own = "open" THEN "stale" ELSE own
  /\ UNCHANGED <<iterated, declared, known, client>>

Starts == ~up /\ up' = TRUE
          /\ UNCHANGED <<restarts, declare, exchange, client>>

\* on_connection_error: kombu could not connect, and tries again.
ConnectionError ==
  /\ consumer = "down" /\ ~up
  /\ own' = "closed"
  /\ UNCHANGED <<rabbit, declare, bound, known, client>>

\* get_consumers: declare starts to iterate over _bindings.
Connected ==
  /\ consumer = "down" /\ up
  /\ consumer' = "declaring"
  /\ iterated' = known /\ declared' = {}
  /\ UNCHANGED <<rabbit, exchange, client>>

\* Python raises RuntimeError as soon as a set it iterates over has grown.
Grown == known # iterated

DeclareBinding(b) ==
  /\ consumer = "declaring" /\ ~Grown
  /\ b \in iterated \ declared
  /\ declared' = declared \cup {b}
  /\ bound' = bound \cup {b.event}
  /\ UNCHANGED <<rabbit, consumer, iterated, own, known, client>>

DeclareRaises ==
  /\ consumer = "declaring" /\ Grown
  /\ consumer' = "dead"
  /\ UNCHANGED <<rabbit, iterated, declared, exchange, client>>

DeclareEnds ==
  /\ consumer = "declaring" /\ ~Grown /\ declared = iterated
  /\ consumer' = "consuming"
  /\ UNCHANGED <<rabbit, iterated, declared, exchange, client>>

-----------------------------------------------------------------------------
(***************************************************************************)
(* BusConsumer.subscribe and WebhookdExchange, in a client's thread.       *)
(***************************************************************************)
MayStart(c, e) == pc[c] = "ready" /\ e \in todo[c]

Goto(c, label) == pc' = [pc EXCEPT ![c] = label]

\* Mutant: an event bound while connected is not kept in _bindings.
AddedNotKept(c, e) ==
  /\ known' = IF e \in bound THEN known ELSE known \cup {Binding(c, e)}
  /\ handlers' = handlers \cup {[by |-> c, event |-> e, wrapped |-> c \in Deprecated]}
  /\ todo' = [todo EXCEPT ![c] = @ \ {e}]
  /\ Goto(c, IF todo[c] = {e} THEN "subscribed" ELSE "ready")

\* The last step of subscribe: _bindings.add, then ConsumerMixin.subscribe with
\* the callback, which the deprecated wrapper wraps in another function.
Added(c, e) ==
  /\ known' = known \cup {Binding(c, e)}
  /\ handlers' = handlers \cup {[by |-> c, event |-> e, wrapped |-> c \in Deprecated]}
  /\ todo' = [todo EXCEPT ![c] = @ \ {e}]
  /\ Goto(c, IF todo[c] = {e} THEN "subscribed" ELSE "ready")

\* is_running, false.  While the consumer declares it may be either.
NotRunning(c, e) ==
  /\ MayStart(c, e) /\ consumer # "consuming"
  /\ event' = [event EXCEPT ![c] = e]
  /\ Goto(c, "add")
  /\ UNCHANGED <<rabbit, declare, exchange, todo, left, handlers>>

\* Mutant: the event of the turn before.
RunningLateEvent(c, e) ==
  /\ MayStart(c, e) /\ consumer \in {"declaring", "consuming"}
  /\ Goto(c, "open")
  /\ UNCHANGED <<rabbit, declare, exchange, event, todo, left, handlers>>

Running(c, e) ==
  /\ MayStart(c, e) /\ consumer \in {"declaring", "consuming"}
  /\ event' = [event EXCEPT ![c] = e]
  /\ Goto(c, "open")
  /\ UNCHANGED <<rabbit, declare, exchange, todo, left, handlers>>

\* subscribe_connected: connect unless connected; it raises when it cannot.
Open(c) ==
  /\ pc[c] = "open"
  /\ IF own # "closed" THEN Goto(c, "bind") /\ UNCHANGED own
     ELSE IF up        THEN Goto(c, "bind") /\ own' = "open"
     ELSE                   Goto(c, "failed") /\ UNCHANGED own
  /\ UNCHANGED <<rabbit, declare, bound, known, event, todo, left, handlers>>

\* Mutant: a broken connection is tried again and again.
BindAgain(c) ==
  /\ pc[c] = "bind"
  /\ \/ own = "stale" /\ UNCHANGED <<own, pc, bound>>
     \/ /\ own # "stale" /\ up
        /\ own' = "open"
        /\ bound' = bound \cup {event[c]}
        /\ Goto(c, "add")
  /\ UNCHANGED <<rabbit, declare, known, event, todo, left, handlers>>

\* Declare and bind: a broken connection raises, a closed one is opened again.
Bind(c) ==
  /\ pc[c] = "bind"
  /\ \/ own = "stale" /\ own' = "closed" /\ Goto(c, "failed") /\ UNCHANGED bound
     \/ /\ own # "stale" /\ up
        /\ own' = "open"
        /\ bound' = bound \cup {event[c]}
        /\ Goto(c, "add")
  /\ UNCHANGED <<rabbit, declare, known, event, todo, left, handlers>>

Add(c) == /\ pc[c] = "add"
          /\ Added(c, event[c])
          /\ UNCHANGED <<rabbit, declare, bound, own, event, left>>

\* unsubscribe_from_event_names takes the events from _handlers; other clients
\* have them themselves.
Unsubscribe(c) ==
  /\ pc[c] = "subscribed"
  /\ left' = [left EXCEPT ![c] = EventsOf[c]]
  /\ Goto(c, "unsubscribing")
  /\ UNCHANGED <<rabbit, declare, exchange, event, todo, handlers>>

\* unsubscribe of one event, with the callback the client gave: not the function
\* the deprecated wrapper subscribed in its place, which is not found.
UnsubscribeEvent(c, e) ==
  /\ pc[c] = "unsubscribing" /\ e \in left[c]
  /\ handlers' = handlers \ {[by |-> c, event |-> e, wrapped |-> FALSE]}
  /\ left' = [left EXCEPT ![c] = @ \ {e}]
  /\ Goto(c, IF left[c] = {e} THEN "done" ELSE "unsubscribing")
  /\ UNCHANGED <<rabbit, declare, exchange, event, todo>>

-----------------------------------------------------------------------------
Consume == \/ ConnectionError \/ Connected \/ DeclareRaises \/ DeclareEnds
           \/ \E b \in iterated : DeclareBinding(b)

Call(c) == \/ \E e \in Events : NotRunning(c, e) \/ Running(c, e) \/ UnsubscribeEvent(c, e)
           \/ Open(c) \/ Bind(c) \/ Add(c)

\* Nobody subscribes and the consumer waits for messages, or has died.
Idle == /\ consumer \in {"consuming", "dead"} /\ \A c \in Clients : ~Subscribing(c)
        /\ UNCHANGED vars

Next == \/ Stops \/ Starts \/ Consume \/ Idle
        \/ \E c \in Clients : Call(c) \/ Unsubscribe(c)

Spec == Init /\ [][Next]_vars

\* RabbitMQ comes back, and the threads run.
Fairness == /\ WF_vars(Starts) /\ WF_vars(Consume)
            /\ \A c \in Clients : WF_vars(Call(c))

FairSpec == Spec /\ Fairness

-----------------------------------------------------------------------------
BindingType == [by : Clients, event : Events]

\* Types; a subscription in progress is at one of its four steps.
TypeOK ==
  /\ up \in BOOLEAN /\ restarts \in 0..MaxRestarts
  /\ consumer \in {"down", "declaring", "consuming", "dead"}
  /\ iterated \subseteq BindingType /\ declared \subseteq iterated
  /\ bound \subseteq Events
  /\ own \in {"closed", "open", "stale"}
  /\ known \subseteq BindingType
  /\ pc \in [Clients -> {"ready", "open", "bind", "add", "subscribed", "failed",
                          "unsubscribing", "done"}]
  /\ event \in [Clients -> Events \cup {Nil}]
  /\ todo \in [Clients -> SUBSET Events] /\ left \in [Clients -> SUBSET Events]
  /\ handlers \subseteq [by : Clients, event : Events, wrapped : BOOLEAN]

\* While the consumer consumes, each event some client has subscribed to is
\* routed to it (the comment in WebhookdExchange.__init__ says why _bindings
\* exists).
AllBound == consumer = "consuming" => \A h \in handlers : h.event \in bound

\* What holds of it: an event is not routed only if it was added to _bindings
\* while the consumer was connecting, and then the next connection binds it.
AllBoundByNext ==
  consumer = "consuming" =>
    \A h \in handlers : h.event \in bound \/ Binding(h.by, h.event) \in known \ iterated

\* An event bound over the exchange's own connection is in _bindings too, or
\* about to be: nothing is bound that a restart would forget for good.
BoundIsKept ==
  \A e \in bound : \/ \E b \in known : b.event = e
                   \/ \E c \in Clients : pc[c] = "add" /\ event[c] = e

\* Every subscription in progress ends, and the consumer consumes again once
\* RabbitMQ stays up, unless its thread has died.
Reconnects ==
  <>[](consumer \in {"consuming", "dead"} /\ \A c \in Clients : ~Subscribing(c))

=============================================================================
