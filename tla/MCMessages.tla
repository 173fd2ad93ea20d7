----------------------------- MODULE MCMessages -----------------------------
EXTENDS Messages, TLC

CONSTANTS p1, p2, p3, p4, k1

\* p1, p2 and p3 are retries of one client message id, p4 carries none
MCKeyOf == (p1 :> k1) @@ (p2 :> k1) @@ (p3 :> k1) @@ (p4 :> NoKey)
=============================================================================
