------------------------- MODULE MCProposalsHistory -------------------------
EXTENDS ProposalsHistory, TLC

CONSTANTS m1, m2, d1, d2, d3, r1

MCKeyOf == [m \in Posts |-> NoKey]

\* no operation; an insert, a change that commits it and nothing of the rest;
\* a reference that does not resolve before an insert
MCPayloads == {<<>>, <<"create", "change", "create">>, <<"skip", "create">>}

\* an answer, and an insert with a change that commits it
MCAnswers == {<<>>, <<"create", "change">>}
=============================================================================
