------------------------------- MODULE Ingest -------------------------------
(***************************************************************************)
(* What POST /conversations/{id}/messages promises, for one conversation:  *)
(* a call's transaction starts, the call is accepted in one atomic step    *)
(* that takes the next conversation version, and its processing task is    *)
(* handed to the broker afterwards, or never.  A client message id is      *)
(* accepted once.                                                          *)
(*                                                                         *)
(* A call and the message and proposal it may create share one name, an    *)
(* element of Posts: a call creates at most one message, and the message   *)
(* one proposal.  Conversations share no state on this path.               *)
(***************************************************************************)
EXTENDS Naturals, FiniteSets

CONSTANTS
    Posts,      \* the calls (and the messages they may create)
    KeyOf,      \* the client_message_id each call carries ...
    NoKey       \* ... or NoKey when it carries none

ASSUME PostsFinite == IsFiniteSet(Posts)

VARIABLES
    version,    \* conversations.version, as committed
    stamp,      \* stamp[p]: the version of p's message and proposal, 0: not stored
    began,      \* began[p]: rank of p's transaction start, its created_at; 0: not begun
    sent        \* the messages whose task reached the broker

ingestVars == <<version, stamp, began, sent>>

Stored(p) == stamp[p] > 0
SameKey(p, q) == KeyOf[p] # NoKey /\ KeyOf[p] = KeyOf[q]
Begun == {p \in Posts : began[p] > 0}

IngestInit ==
    /\ version = 0
    /\ stamp = [p \in Posts |-> 0]
    /\ began = [p \in Posts |-> 0]
    /\ sent = {}

Begin(p) ==
    /\ began[p] = 0
    /\ began' = [began EXCEPT ![p] = Cardinality(Begun) + 1]
    /\ UNCHANGED <<version, stamp, sent>>

Accept(p) ==
    /\ began[p] > 0
    /\ ~Stored(p)
    /\ \A q \in Posts : Stored(q) => ~SameKey(p, q)
    /\ version' = version + 1
    /\ stamp' = [stamp EXCEPT ![p] = version + 1]
    /\ UNCHANGED <<began, sent>>

Send(p) ==
    /\ Stored(p)
    /\ p \notin sent
    /\ sent' = sent \union {p}
    /\ UNCHANGED <<version, stamp, began>>

IngestNext == \E p \in Posts : Begin(p) \/ Accept(p) \/ Send(p)

IngestSpec == IngestInit /\ [][IngestNext]_ingestVars
=============================================================================
