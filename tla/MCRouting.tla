----------------------------- MODULE MCRouting ------------------------------
(* A small instance of Routing for TLC: two messages, without client ids. *)
EXTENDS Routing, TLC

CONSTANTS m1, m2

MCKeyOf == [m \in Posts |-> NoKey]
MCSoundsLike == (m1 :> "ops") @@ (m2 :> "tool")
=============================================================================
