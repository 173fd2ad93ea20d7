-------------------------- MODULE ProposalsHistory --------------------------
(***************************************************************************)
(* Proposals, with the memory of what has happened to each proposal.       *)
(* Sessions take no lock on a proposal, a task may be delivered twice and  *)
(* item_repo.update commits in the middle of an apply, so there are ways   *)
(* to unsettle a proposal or to execute an operation again.  The history   *)
(* variables name them, proposal by proposal, and the properties say that  *)
(* there are no others: no session is assumed to be alone, and none to     *)
(* survive.                                                                *)
(***************************************************************************)
EXTENDS Proposals

VARIABLES
    again,      \* the messages whose task was delivered after it had begun
    crowded,    \* the proposals settled while a session was still at work on them
    torn,       \* the proposals that a failing session has executed in part
    abandoned   \* the messages a delivery gave up: killed by the time limit, or
                \* its database session broke; either way the task is acked

history == <<again, crowded, torn, abandoned>>

\* session j may still write the status of proposal p
Holds(j, p) ==
    \/ job[j].own = p /\ job[j].pc \in Busy
    \/ /\ job[j].target = p
       /\ job[j].pc \in {"deciding", "applying", "confirming", "replaced"}

Applies(j, p) == job[j].pc = "applying" /\ job[j].target = p

\* the operations of p that session j has made permanent
Done(j, p) == {c \in items : c.prop = p /\ c.by = j /\ c.kind # "replace"}

\* session j is lost or gives up
Fails(j) ==
    CommitFails(j) \/ RefreshFails(j) \/ SessionBreaks(j) \/ Die(j)
    \/ (j \in Deliveries /\ Kill(j))

InitH ==
    /\ Init
    /\ again = {}
    /\ crowded = {}
    /\ torn = {}
    /\ abandoned = {}

Remember ==
    /\ again' = again \union
          {p \in Posts : status[p] # "queued" /\ \E d \in Deliveries : Deliver(d, p)}
    /\ crowded' = crowded \union
          {p \in Posts : /\ status[p] \notin Terminal /\ status'[p] \in Terminal
                         /\ \E j \in Jobs : Holds(j, p)'}
    /\ torn' = torn \union
          {p \in Posts : \E j \in Jobs : Applies(j, p) /\ Fails(j) /\ Done(j, p)' # {}}
    /\ abandoned' = abandoned \union
          {p \in Posts : \E d \in Deliveries :
              job[d].own = p /\ (Kill(d) \/ SessionBreaks(d))}

\* a step of Proposals, remembered
NextH ==
    \/ \E p \in Posts : Post(p) /\ Remember
    \/ \E d \in Deliveries : Work(d) /\ Remember
    \/ \E d \in Deliveries : Kill(d) /\ Remember
    \/ \E d \in Deliveries : \E m \in Posts : Deliver(d, m) /\ Remember
    \/ \E r \in Requests : Request(r) /\ Remember
    \/ \E j \in Jobs : CommitFails(j) /\ Remember
    \/ \E j \in Jobs : RefreshFails(j) /\ Remember
    \/ \E j \in Jobs : SessionBreaks(j) /\ Remember
    \/ \E j \in Jobs : Die(j) /\ Remember

SpecH == InitH /\ [][NextH]_<<vars, history>>
FairSpecH == SpecH /\ Fairness

-----------------------------------------------------------------------------
\* A message handed to the broker gets its answer, although commits fail and
\* hosts are lost: its proposal leaves the states in which the client shows it
\* as being worked on.  Only a delivery that is killed, or whose session breaks,
\* leaves it there for good.
Settles ==
    \A p \in Posts :
        (p \in sent) ~> (status[p] \notin {"queued", "running"} \/ p \in abandoned)

\* The operations of an APPLIED proposal whose references resolve have all been
\* executed, whoever else was confirming, rejecting or applying it, whatever
\* failed, and whichever worker was lost; only a message delivered again may
\* leave the status of one attempt beside the operations of another.
AppliedIsComplete ==
    \A p \in Posts \ again : status[p] = "applied" =>
        \A i \in 1..Len(ops[p]) : ops[p][i] # "skip" =>
            \E j \in Jobs :
                [prop |-> p, op |-> i, kind |-> ops[p][i], by |-> j] \in items

\* The status checks keep a settled proposal as it was settled from every
\* session that comes later: only one that was at work on it already, or a new
\* delivery of its message, writes over it.
TerminalStays ==
    [][\A p \in Posts \ (again' \union crowded) :
          status[p] \in Terminal => status'[p] = status[p] /\ ops'[p] = ops[p]]_vars

\* Two sessions have executed the same operation only while both apply the
\* proposal at once, or after one of the three has befallen it: a session that
\* finds an apply completed does not repeat it.
AtMostOnce ==
    \A c, e \in items :
        /\ c.kind # "replace" /\ e.kind # "replace"
        /\ c.prop = e.prop /\ c.op = e.op /\ c.by # e.by
        => \/ c.prop \in again \union crowded \union torn
           \/ Applies(c.by, c.prop) /\ Applies(e.by, c.prop)

\* Operations become permanent with the status APPLIED and with all others of
\* the proposal.  The exception is the commit of item_repo.update: what came
\* before it is permanent while its session is still applying.
AllOrNothing ==
    \A c \in items : c.kind # "replace" =>
        \/ c.prop \in again \union crowded \union torn
        \/ /\ Applies(c.by, c.prop)
           /\ \E e \in Done(c.by, c.prop) : e.kind = "change"
        \/ /\ status[c.prop] = "applied"
           /\ \A i \in 1..Len(ops[c.prop]) : ops[c.prop][i] # "skip" =>
                 [prop |-> c.prop, op |-> i, kind |-> ops[c.prop][i], by |-> c.by] \in items
=============================================================================
