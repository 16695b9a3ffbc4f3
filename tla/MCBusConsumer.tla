----------------------------- MODULE MCBusConsumer -----------------------------
(***************************************************************************)
(* Small instances of BusConsumer: two clients that share an event, and up *)
(* to two restarts of RabbitMQ.                                            *)
(***************************************************************************)
EXTENDS BusConsumer, TLC

CONSTANTS c1, c2, e1, e2

SharedEvent == (c1 :> {e1, e2}) @@ (c2 :> {e1})

=============================================================================
