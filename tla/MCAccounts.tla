----------------------------- MODULE MCAccounts -----------------------------
(* A small instance of Accounts for TLC. *)
EXTENDS Accounts, TLC

CONSTANTS g1, g2, f1, f2, u1, u2, m1, m2, k1, k2, bad, utc, east, west

\* both registrations of the device may be its first
MCZone == (g1 :> utc) @@ (g2 :> east)

\* the updates may cross over their metas, one may name an unknown key, and one
\* may send an empty object of options
MCAsks ==
    (u1 :> {[zone |-> east, attach |-> {m1}, detach |-> {m2}, sends |-> TRUE, patch |-> {k1}]})
    @@ (u2 :> {[zone |-> west, attach |-> {m2}, detach |-> {m1}, sends |-> TRUE,
                patch |-> {k1, k2}],
               [zone |-> Nil, attach |-> {m1}, detach |-> {bad}, sends |-> TRUE,
                patch |-> {k2}],
               [zone |-> west, attach |-> {}, detach |-> {}, sends |-> TRUE, patch |-> {}]})
=============================================================================
