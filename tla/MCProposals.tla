---------------------------- MODULE MCProposals ----------------------------
EXTENDS Proposals, TLC

CONSTANTS m1, d1, r1, r2

MCKeyOf == [m \in Posts |-> NoKey]

MCCreates == {<<"create", "create">>}

\* an answer, an insert, and a reference that does not resolve
MCShort == {<<>>, <<"create">>, <<"skip">>}
=============================================================================
