----------------------------- MODULE Proposals -----------------------------
(***************************************************************************)
(* The life of the proposals of one conversation: Celery deliveries of     *)
(* process_message (MessageProcessor), the requests POST /proposals/apply  *)
(* and POST /proposals/{id}/confirm (ProposalsService), and the commits by *)
(* which each of them changes proposals, items and audit events.           *)
(*                                                                         *)
(* Messages arrive as Ingest promises.  A proposal has the name of its     *)
(* message.  Every job is one database session: what it has not committed  *)
(* is in its own record, and nobody else sees it.  The LLM's answers are   *)
(* inputs.                                                                 *)
(***************************************************************************)
EXTENDS Ingest, Sequences

CONSTANTS
    Deliveries,     \* deliveries of a task to a worker; each runs once
    Requests,       \* HTTP requests; each runs once
    Payloads,       \* the operation lists the LLM may answer with
    AutoApply,      \* the messages posted with auto_apply=true
    MayDie,         \* jobs whose process or host may be lost: the broker redelivers
    MayBeKilled,    \* deliveries the time limit may kill: the task is acked and lost
    MayFail,        \* jobs whose database statements may fail
    Nil             \* no message

Jobs == Deliveries \union Requests

\* what an operation does to items: CREATE; an op on an item that is found;
\* an op whose reference does not resolve
Kinds == {"create", "change", "skip"}

ASSUME JobsAssumption == Deliveries \intersect Requests = {}
ASSUME PayloadsAssumption == Payloads \subseteq Seq(Kinds)
ASSUME NilAssumption == Nil \notin Posts

Actionable == {"ready", "needs_confirmation"}
Terminal == {"applied", "canceled", "failed", "stale"}
Status == {"queued", "running"} \union Actionable \union Terminal

VARIABLES
    status,     \* proposals.status, as committed
    ops,        \* proposals.ops, as committed
    items,      \* the committed changes of items
    audit,      \* the committed item_events, each named by the change it records
    acked,      \* the messages whose task the broker has forgotten
    job         \* what each session knows and has not committed

proposalVars == <<status, ops, items, audit, acked, job>>
vars == <<ingestVars, proposalVars>>

\* one change of an item by one job: operation op of proposal prop, or the
\* cancellation of an existing item that the create op conflicts with
Changes == [prop : Posts, op : Nat, kind : Kinds \union {"replace"}, by : Jobs]

DeliveryPCs == {"routing", "deciding", "pipeline", "current", "superseded",
                "confirmed", "failing"}
RequestPCs == {"confirming", "replaced"}
Busy == DeliveryPCs \union RequestPCs \union {"applying"}

JobState == [
    pc     : Busy \union {"idle", "done", "ended"},
    own    : Posts \union {Nil},        \* a delivery's message
    target : Posts \union {Nil},        \* the proposal found, applied or confirmed
    plan   : Seq(Kinds),                \* the operations being applied ...
    step   : Nat \ {0},                 \* ... and the next of them
    seen   : Actionable \union {"none"},    \* the status a confirm request loaded
    rows   : SUBSET Changes,            \* uncommitted item inserts
    trail  : SUBSET Changes]            \* uncommitted audit events

Idle == [pc |-> "idle", own |-> Nil, target |-> Nil, plan |-> <<>>, step |-> 1,
         seen |-> "none", rows |-> {}, trail |-> {}]
Ended == [Idle EXCEPT !.pc = "ended"]

Init ==
    /\ IngestInit
    /\ status = [p \in Posts |-> "queued"]
    /\ ops = [p \in Posts |-> <<>>]
    /\ items = {}
    /\ audit = {}
    /\ acked = {}
    /\ job = [j \in Jobs |-> Idle]

At(j, pc) == job[j].pc = pc
Become(j, state) == job' = [job EXCEPT ![j] = state]
Goto(j, pc) == Become(j, [job[j] EXCEPT !.pc = pc])

\* the session closes; a delivery still has to be acked
Return(j) ==
    Become(j, IF j \in Deliveries
              THEN [Idle EXCEPT !.pc = "done", !.own = job[j].own]
              ELSE Ended)

Put(p, s) == status' = [status EXCEPT ![p] = s]
PutOps(p, payload) == ops' = [ops EXCEPT ![p] = payload]

\* session.commit() makes all that is pending in the session permanent
Commit(j) ==
    /\ items' = items \union job[j].rows
    /\ audit' = audit \union job[j].trail

\* item_repo.update commits the session, the change of the item with it; the
\* audit event of the change is flushed after that, and not committed
UpdateCommits(j, c) ==
    /\ items' = items \union job[j].rows \union {c}
    /\ audit' = audit \union job[j].trail

Apply(j, p, payload) ==
    Become(j, [job[j] EXCEPT !.pc = "applying", !.target = p,
                             !.plan = payload, !.step = 1,
                             !.rows = {}, !.trail = {}])

-----------------------------------------------------------------------------
(* A delivery of process_message. *)

\* the broker does not deliver what a living worker still holds
Held(m) == \E d \in Deliveries : job[d].own = m

\* load_context, then update_to_running, whatever the status was
Deliver(d, m) ==
    /\ At(d, "idle")
    /\ m \in sent /\ m \notin acked /\ ~Held(m)
    /\ Put(m, "running")
    /\ Become(d, [job[d] EXCEPT !.pc = "routing", !.own = m])
    /\ UNCHANGED <<ingestVars, ops, items, audit, acked>>

Offered == {p \in Posts : Stored(p) /\ status[p] \in Actionable}

\* get_latest_actionable orders by created_at; of what it finds only a proposal
\* that needs confirmation is active.  The session's own proposal shows the
\* status the session has cached: running.
Active(d, p) ==
    /\ p \in Offered \ {job[d].own}
    /\ status[p] = "needs_confirmation"
    /\ \A q \in Offered : began[q] <= began[p]

FindActive(d) ==
    /\ At(d, "routing")
    /\ \/ \E p \in Posts :
            /\ Active(d, p)
            /\ Become(d, [job[d] EXCEPT !.pc = "deciding", !.target = p])
       \/ /\ \A p \in Posts : ~Active(d, p)
          /\ Goto(d, "deciding")
    /\ UNCHANGED <<ingestVars, status, ops, items, audit, acked>>

\* CONFIRM_PROPOSAL: apply_proposal reads the active proposal anew; when it
\* refuses, the router swallows the exception and the pipeline runs
ConfirmByChat(d) ==
    /\ At(d, "deciding") /\ job[d].target # Nil
    /\ LET p == job[d].target IN
       \/ /\ status[p] \in Actionable /\ ops[p] # <<>>
          /\ Apply(d, p, ops[p])
       \/ /\ status[p] \in Actionable /\ ops[p] = <<>>
          /\ Goto(d, "confirmed")
       \/ /\ status[p] \notin Actionable
          /\ Goto(d, "pipeline")
    /\ UNCHANGED <<ingestVars, status, ops, items, audit, acked>>

\* REJECT_PROPOSAL: both proposals in one commit, no status is looked at
RejectByChat(d) ==
    /\ At(d, "deciding") /\ job[d].target # Nil
    /\ status' = [status EXCEPT ![job[d].target] = "canceled",
                                ![job[d].own] = "canceled"]
    /\ Return(d)
    /\ UNCHANGED <<ingestVars, ops, items, audit, acked>>

\* any other decision, a confirm or reject of nothing, a router error
Continue(d) ==
    /\ At(d, "deciding")
    /\ Goto(d, "pipeline")
    /\ UNCHANGED <<ingestVars, status, ops, items, audit, acked>>

\* mutant: the staleness check commented out, as in apply_proposal
CheckStale_Skipped(d) ==
    /\ At(d, "pipeline")
    /\ Goto(d, "current")
    /\ UNCHANGED <<ingestVars, status, ops, items, audit, acked>>

\* after the LLM call; what follows goes by this one read of the version
CheckStale(d) ==
    /\ At(d, "pipeline")
    /\ Goto(d, IF version = stamp[job[d].own] THEN "current" ELSE "superseded")
    /\ UNCHANGED <<ingestVars, status, ops, items, audit, acked>>

MarkStale(d, payload) ==
    /\ At(d, "superseded")
    /\ Put(job[d].own, "stale")
    /\ PutOps(job[d].own, payload)
    /\ Return(d)
    /\ UNCHANGED <<ingestVars, items, audit, acked>>

AskConfirmation(d, payload) ==
    /\ At(d, "current")
    /\ Put(job[d].own, "needs_confirmation")
    /\ PutOps(job[d].own, payload)
    /\ Return(d)
    /\ UNCHANGED <<ingestVars, items, audit, acked>>

\* tool mode and small talk: nothing to apply is recorded as applied
NoOp(d, payload) ==
    /\ At(d, "current")
    /\ payload = <<>>
    /\ Put(job[d].own, "applied")
    /\ PutOps(job[d].own, payload)
    /\ Return(d)
    /\ UNCHANGED <<ingestVars, items, audit, acked>>

\* apply_proposal, called at once, sees the proposal the session has cached
MakeReady(d, payload) ==
    /\ At(d, "current")
    /\ payload # <<>>
    /\ Put(job[d].own, "ready")
    /\ PutOps(job[d].own, payload)
    /\ IF job[d].own \in AutoApply THEN Apply(d, job[d].own, payload) ELSE Return(d)
    /\ UNCHANGED <<ingestVars, items, audit, acked>>

\* mutant: the status is the one process() returns when loading fails
MarkFailed_Error(d) ==
    /\ job[d].pc \in {"pipeline", "failing"}
    /\ Put(job[d].own, "error")
    /\ Commit(d)
    /\ Return(d)
    /\ UNCHANGED <<ingestVars, ops, acked>>

\* an LLM error, an invalid payload, any other exception of the pipeline
MarkFailed(d) ==
    /\ job[d].pc \in {"pipeline", "failing"}
    /\ Put(job[d].own, "failed")
    /\ Commit(d)
    /\ Return(d)
    /\ UNCHANGED <<ingestVars, ops, acked>>

\* mutant: the confirming message's own proposal is forgotten
AckOwn_Forgotten(d) ==
    /\ At(d, "confirmed")
    /\ Return(d)
    /\ UNCHANGED <<ingestVars, status, ops, items, audit, acked>>

\* after apply_proposal returned: the message "yes" has a proposal of its own
AckOwn(d) ==
    /\ At(d, "confirmed")
    /\ Put(job[d].own, "applied")
    /\ PutOps(job[d].own, <<>>)
    /\ Return(d)
    /\ UNCHANGED <<ingestVars, items, audit, acked>>

\* acks_late: the worker acks when the task has returned
Ack(d) ==
    /\ At(d, "done")
    /\ acked' = acked \union {job[d].own}
    /\ Become(d, Ended)
    /\ UNCHANGED <<ingestVars, status, ops, items, audit>>

-----------------------------------------------------------------------------
(* apply_proposal, in a delivery or in a request. *)

\* mutant: the checks on the status are gone, as the one on the version is
ApplyRequest_Unchecked(r, p) ==
    /\ At(r, "idle")
    /\ Stored(p)
    /\ IF ops[p] = <<>> THEN Return(r) ELSE Apply(r, p, ops[p])
    /\ UNCHANGED <<ingestVars, status, ops, items, audit, acked>>

\* The route and the service read the proposal once.  A refused request
\* changes nothing and is left out.
ApplyRequest(r, p) ==
    /\ At(r, "idle")
    /\ Stored(p) /\ status[p] \in Actionable
    /\ IF ops[p] = <<>> THEN Return(r) ELSE Apply(r, p, ops[p])
    /\ UNCHANGED <<ingestVars, status, ops, items, audit, acked>>

\* the next operation of job j is of this kind
NextOp(j, kind) ==
    /\ At(j, "applying")
    /\ job[j].step <= Len(job[j].plan)
    /\ job[j].plan[job[j].step] = kind

TheChange(j, kind) ==
    [prop |-> job[j].target, op |-> job[j].step, kind |-> kind, by |-> j]

SkipOp(j) ==
    /\ NextOp(j, "skip")
    /\ Become(j, [job[j] EXCEPT !.step = @ + 1])
    /\ UNCHANGED <<ingestVars, status, ops, items, audit, acked>>

\* mutant: item_repo.create commits, as item_repo.update does
CreateOp_Commits(j) ==
    /\ NextOp(j, "create")
    /\ items' = items \union job[j].rows \union {TheChange(j, "create")}
    /\ audit' = audit \union job[j].trail
    /\ Become(j, [job[j] EXCEPT !.step = @ + 1, !.rows = {},
                                !.trail = {TheChange(j, "create")}])
    /\ UNCHANGED <<ingestVars, status, ops, acked>>

\* item and event are flushed, nothing is committed
CreateOp(j) ==
    /\ NextOp(j, "create")
    /\ Become(j, [job[j] EXCEPT !.step = @ + 1,
                                !.rows = @ \union {TheChange(j, "create")},
                                !.trail = @ \union {TheChange(j, "create")}])
    /\ UNCHANGED <<ingestVars, status, ops, items, audit, acked>>

ChangeOp(j) ==
    /\ NextOp(j, "change")
    /\ UpdateCommits(j, TheChange(j, "change"))
    /\ Become(j, [job[j] EXCEPT !.step = @ + 1, !.rows = {},
                                !.trail = {TheChange(j, "change")}])
    /\ UNCHANGED <<ingestVars, status, ops, acked>>

\* after the last operation: where the job goes from here
AfterApply(j) ==
    IF j \in Deliveries /\ job[j].target # job[j].own
    THEN Become(j, [job[j] EXCEPT !.pc = "confirmed", !.rows = {}, !.trail = {}])
    ELSE Return(j)

\* mutant: the loop ends one operation early
FinishApply_Early(j) ==
    /\ At(j, "applying")
    /\ job[j].step >= Len(job[j].plan)
    /\ Put(job[j].target, "applied")
    /\ Commit(j)
    /\ AfterApply(j)
    /\ UNCHANGED <<ingestVars, ops, acked>>

\* mutant: the operations are committed, the status is not written
FinishApply_KeepsStatus(j) ==
    /\ At(j, "applying")
    /\ job[j].step > Len(job[j].plan)
    /\ Commit(j)
    /\ AfterApply(j)
    /\ UNCHANGED <<ingestVars, status, ops, acked>>

\* APPLIED is written over whatever the status has become
FinishApply(j) ==
    /\ At(j, "applying")
    /\ job[j].step > Len(job[j].plan)
    /\ Put(job[j].target, "applied")
    /\ Commit(j)
    /\ AfterApply(j)
    /\ UNCHANGED <<ingestVars, ops, acked>>

Applying(j) ==
    SkipOp(j) \/ CreateOp(j) \/ ChangeOp(j) \/ FinishApply(j)

-----------------------------------------------------------------------------
(* POST /proposals/{id}/confirm: a status check, then one of four actions. *)

ConfirmRequest(r, p) ==
    /\ At(r, "idle")
    /\ Stored(p) /\ status[p] \in Actionable
    /\ Become(r, [job[r] EXCEPT !.pc = "confirming", !.target = p,
                                !.plan = ops[p], !.seen = status[p]])
    /\ UNCHANGED <<ingestVars, status, ops, items, audit, acked>>

CancelNew(r) ==
    /\ At(r, "confirming")
    /\ Put(job[r].target, "canceled")
    /\ Return(r)
    /\ UNCHANGED <<ingestVars, ops, items, audit, acked>>

\* SQLAlchemy writes a column only when it differs from the value loaded
PutIfChanged(r, s) ==
    IF job[r].seen = s THEN UNCHANGED status ELSE Put(job[r].target, s)

\* a create collides with an existing item: new clarifications, new ops
AskAgain(r) ==
    /\ At(r, "confirming")
    /\ \E i \in 1..Len(job[r].plan) : job[r].plan[i] = "create"
    /\ PutIfChanged(r, "needs_confirmation")
    /\ PutOps(job[r].target, job[r].plan)
    /\ Return(r)
    /\ UNCHANGED <<ingestVars, items, audit, acked>>

\* the items that the creates still to be looked at conflict with
Replacements(r) ==
    {c \in [prop : {job[r].target}, op : job[r].step .. Len(job[r].plan),
            kind : {"replace"}, by : {r}] :
        /\ job[r].pc \in {"confirming", "replaced"}
        /\ job[r].plan[c.op] = "create"}

\* the loop cancels one existing item after the other by item_repo.update, so
\* the event of one is committed with the next
ReplaceExisting(r) ==
    \E c \in Replacements(r) :
        /\ UpdateCommits(r, c)
        /\ Become(r, [job[r] EXCEPT !.pc = "replaced", !.step = c.op + 1,
                                    !.trail = {c}])
        /\ UNCHANGED <<ingestVars, status, ops, acked>>

\* ops are written unless clearing the clarifications leaves them as loaded;
\* update_status then refreshes the row, and apply_proposal goes by that
Approve(r) ==
    /\ job[r].pc \in {"confirming", "replaced"}
    /\ PutIfChanged(r, "ready")
    /\ PutOps(job[r].target, job[r].plan) \/ UNCHANGED ops
    /\ Commit(r)
    /\ IF status'[job[r].target] \in Actionable /\ ops'[job[r].target] # <<>>
       THEN Apply(r, job[r].target, ops'[job[r].target])
       ELSE Return(r)
    /\ UNCHANGED <<ingestVars, acked>>

-----------------------------------------------------------------------------
(* What goes wrong. *)

\* item_repo.update rolls the session back, which expires all that was loaded.
\* A delivery ends in update_to_failed: at once when auto-applying, and after a
\* chat confirmation because the pipeline stumbles over the expired objects.
RollBack(j) ==
    IF j \in Deliveries
    THEN Become(j, [job[j] EXCEPT !.pc = "failing", !.rows = {}, !.trail = {}])
    ELSE Return(j)

\* the changes of items that job j may be about to commit
Updates(j) ==
    {c \in {TheChange(j, "change")} : NextOp(j, "change")} \union Replacements(j)

\* mutant: the failed session is not rolled back
CommitFails_KeepsSession(j) ==
    /\ j \in MayFail
    /\ \E c \in Updates(j) :
          IF j \in Deliveries
          THEN Become(j, [job[j] EXCEPT !.pc = "failing", !.trail = @ \union {c}])
          ELSE Return(j)
    /\ UNCHANGED <<ingestVars, status, ops, items, audit, acked>>

\* the commit of item_repo.update fails
CommitFails(j) ==
    /\ j \in MayFail
    /\ Updates(j) # {}
    /\ RollBack(j)
    /\ UNCHANGED <<ingestVars, status, ops, items, audit, acked>>

\* the commit succeeds and the refresh after it fails: the caller sees the same
\* exception, although the change is permanent; its event is lost
RefreshFails(j) ==
    /\ j \in MayFail
    /\ \E c \in Updates(j) : UpdateCommits(j, c)
    /\ RollBack(j)
    /\ UNCHANGED <<ingestVars, status, ops, acked>>

\* Any other statement fails.  A delivery does not roll back, so the clean-up
\* of process() fails as well, is swallowed, and the task returns normally.
SessionBreaks(j) ==
    /\ j \in MayFail
    /\ job[j].pc \in Busy
    /\ Return(j)
    /\ UNCHANGED <<ingestVars, status, ops, items, audit, acked>>

Die(j) ==
    /\ j \in MayDie
    /\ job[j].pc \in Busy \union {"done"}
    /\ Become(j, Ended)
    /\ UNCHANGED <<ingestVars, status, ops, items, audit, acked>>

\* the pool kills the child; without reject_on_worker_lost the task is acked
Kill(d) ==
    /\ d \in MayBeKilled
    /\ job[d].pc \in Busy
    /\ acked' = acked \union {job[d].own}
    /\ Become(d, Ended)
    /\ UNCHANGED <<ingestVars, status, ops, items, audit>>

-----------------------------------------------------------------------------
Post(p) == (Begin(p) \/ Accept(p) \/ Send(p)) /\ UNCHANGED proposalVars

\* a delivery's own steps, once it has begun
Work(d) ==
    \/ FindActive(d)
    \/ ConfirmByChat(d) \/ RejectByChat(d) \/ Continue(d)
    \/ CheckStale(d)
    \/ \E payload \in Payloads :
          MarkStale(d, payload) \/ AskConfirmation(d, payload)
          \/ NoOp(d, payload) \/ MakeReady(d, payload)
    \/ Applying(d) \/ AckOwn(d) \/ MarkFailed(d)
    \/ Ack(d)

Request(r) ==
    \/ \E p \in Posts : ApplyRequest(r, p) \/ ConfirmRequest(r, p)
    \/ CancelNew(r) \/ AskAgain(r) \/ ReplaceExisting(r) \/ Approve(r)
    \/ Applying(r)

Next ==
    \/ \E p \in Posts : Post(p)
    \/ \E d \in Deliveries : Work(d) \/ Kill(d) \/ \E m \in Posts : Deliver(d, m)
    \/ \E r \in Requests : Request(r)
    \/ \E j \in Jobs : CommitFails(j) \/ RefreshFails(j) \/ SessionBreaks(j) \/ Die(j)

\* The broker delivers what it holds while a worker is free, and a worker that
\* has begun runs on (the LLM calls have timeouts).  Users owe us nothing.
Fairness ==
    /\ \A d \in Deliveries : WF_vars(Work(d))
    /\ \A m \in Posts : WF_vars(\E d \in Deliveries : Deliver(d, m))

Spec == Init /\ [][Next]_vars

-----------------------------------------------------------------------------
TypeOK ==
    /\ version \in Nat
    /\ stamp \in [Posts -> Nat]
    /\ began \in [Posts -> Nat]
    /\ sent \subseteq Posts
    /\ status \in [Posts -> Status]
    /\ ops \in [Posts -> Seq(Kinds)]
    /\ items \subseteq Changes
    /\ audit \subseteq Changes
    /\ acked \subseteq Posts
    /\ job \in [Jobs -> JobState]

\* An audit event is there only for a change that has taken place, although the
\* two are committed apart and either commit may fail.
AuditIsTrue == audit \subseteq items

\* An item is never created without its audit event, wherever the session that
\* creates it ends.
CreatedIsAudited == \A c \in items : c.kind = "create" => c \in audit

\* What PROPOSAL_STATUS_FLOW.md says of the status: APPLIED means that at least
\* one operation has been executed on the items.
AppliedAffectsItems ==
    \A p \in Posts : status[p] = "applied" =>
        \E c \in items : c.prop = p /\ c.kind # "replace"

\* What the check at the beginning of apply_proposal is there for: no operation
\* of a proposal is executed twice.
DoneOnce ==
    \A c, e \in items :
        (c.kind # "replace" /\ e.kind # "replace" /\ c.prop = e.prop /\ c.op = e.op)
            => c.by = e.by

\* A message that a later one has overtaken before a worker took it up never
\* offers its operations to the user.
SupersededNeverOffered ==
    \A p \in Posts :
        []((Stored(p) /\ status[p] = "queued" /\ stamp[p] < version)
              => [](status[p] \notin Actionable))
=============================================================================
