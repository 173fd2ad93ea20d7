-------------------------------- MODULE Feed --------------------------------
(***************************************************************************)
(* What a realtime connection is promised: the events of its conversation  *)
(* in the order in which they were published, none of them twice.  Nothing *)
(* is promised about completeness: an event may pass a client by.  Events  *)
(* are named by their position in the channel.                             *)
(***************************************************************************)
EXTENDS Naturals, Sequences

CONSTANT Clients

VARIABLES
    published,  \* how many events the channel has carried
    got         \* got[c]: the events client c has been sent

feedVars == <<published, got>>

FeedInit ==
    /\ published = 0
    /\ got = [c \in Clients |-> <<>>]

Publish ==
    /\ published' = published + 1
    /\ UNCHANGED got

\* the event is later than all that the client has
Hand(c, e) ==
    /\ \A k \in 1..Len(got[c]) : got[c][k] < e
    /\ got' = [got EXCEPT ![c] = Append(@, e)]
    /\ UNCHANGED published

FeedNext ==
    \/ Publish
    \/ \E c \in Clients : \E e \in 1..published : Hand(c, e)

FeedSpec == FeedInit /\ [][FeedNext]_feedVars

-----------------------------------------------------------------------------
\* Every client has a strictly increasing selection of what was published: no
\* event twice, none out of order, none that nobody published.
InOrder ==
    \A c \in Clients :
        /\ \A k \in 1..Len(got[c]) : got[c][k] \in 1..published
        /\ \A k, l \in 1..Len(got[c]) : k < l => got[c][k] < got[c][l]
=============================================================================
