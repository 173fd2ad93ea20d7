----------------------------- MODULE MCRealtime -----------------------------
(* A small instance of Realtime for TLC. *)
EXTENDS Realtime

CONSTANTS e1, e2

\* a worker that publishes one event after the other
MCWorker == {<<e1, e2>>}
=============================================================================
