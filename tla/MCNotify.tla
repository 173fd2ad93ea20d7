------------------------------ MODULE MCNotify ------------------------------
(* A small instance of Notify for TLC. *)
EXTENDS Notify, TLC

CONSTANTS d1, d2, d3, ios, web, b1, b2

\* the whole user against two devices given by id
MCTargets == (b1 :> Nil) @@ (b2 :> <<d2, d1>>)
MCModes == (b1 :> {"on", "off", "unset"}) @@ (b2 :> {"on"})
MCFaulty == {<<b1, d3>>}

\* two phones and a browser
MCPlatformsOf == (d1 :> {ios}) @@ (d2 :> {ios}) @@ (d3 :> {web})
=============================================================================
