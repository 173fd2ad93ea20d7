-------------------------- MODULE ProposalsProofs --------------------------
(***************************************************************************)
(* What every interleaving of deliveries and requests keeps true, for any  *)
(* messages, jobs, payloads, overlaps and failures.  Four invariants:      *)
(*   IInv       the items and their audit events;                          *)
(*   Untouched  (with Passed) that an overtaken message is never offered;  *)
(*   AInv       what an APPLIED proposal has had executed;                 *)
(*   HInv       who may still write a proposal, and what each session has  *)
(*              executed.                                                  *)
(* Each rests on the first, and HInv on AInv as well.                      *)
(*                                                                         *)
(* The argument for the first: an uncommitted event speaks of a change     *)
(* that is committed or in the same session's uncommitted rows, and every  *)
(* uncommitted row has its event in the same session; so one commit keeps  *)
(* the two together.                                                       *)
(***************************************************************************)
EXTENDS ProposalsHistory, TLAPS, FiniteSetTheorems

\* what job j may know and have pending, when the items are as given
JobOK(j, state, theItems) ==
    /\ (j \in Deliveries /\ state.pc \notin {"idle", "ended"}) => state.own \in Posts
    /\ state.pc \in {"applying", "confirming", "replaced"} => state.target \in Posts
    /\ state.pc \in {"idle", "confirming", "replaced"} => state.rows = {}
    /\ state.trail \subseteq theItems \union state.rows
    /\ state.rows \subseteq state.trail

IInv ==
    /\ TypeOK
    /\ AuditIsTrue
    /\ CreatedIsAudited
    /\ \A j \in Jobs : JobOK(j, job[j], items)

-----------------------------------------------------------------------------
LEMMA NilIsNoPost == Nil \notin Posts
BY NilAssumption

LEMMA BegunCount ==
    ASSUME TypeOK
    PROVE  Cardinality(Begun) \in Nat
<1>1. Begun \subseteq Posts
  BY DEF Begun
<1>2. IsFiniteSet(Begun)
  BY <1>1, PostsFinite, FS_Subset
<1> QED
  BY <1>2, FS_CardinalityType

LEMMA IdleState ==
    /\ Idle \in JobState
    /\ Ended \in JobState
    /\ \A j, theItems : JobOK(j, Idle, theItems) /\ JobOK(j, Ended, theItems)
<1>1. <<>> \in Seq(Kinds) /\ 1 \in Nat \ {0}
  OBVIOUS
<1>2. Idle \in JobState
  BY <1>1 DEF Idle, JobState
<1>3. Ended \in JobState
  BY <1>1 DEF Idle, Ended, JobState
<1>4. ASSUME NEW j, NEW theItems PROVE JobOK(j, Idle, theItems) /\ JobOK(j, Ended, theItems)
  BY DEF Idle, Ended, JobOK
<1> QED
  BY <1>2, <1>3, <1>4

\* The state a job moves to is all that has to be looked at: the others keep
\* theirs, and items only grow.
LEMMA JobStep ==
    ASSUME IInv,
           NEW j \in Jobs, NEW state \in JobState,
           Become(j, state),
           items \subseteq items',
           JobOK(j, state, items')
    PROVE  /\ job' \in [Jobs -> JobState]
           /\ \A k \in Jobs : JobOK(k, job'[k], items')
<1>1. job \in [Jobs -> JobState]
  BY DEF IInv, TypeOK
<1>2. job' = [job EXCEPT ![j] = state]
  BY DEF Become
<1>3. ASSUME NEW k \in Jobs PROVE JobOK(k, job'[k], items')
  <2>1. CASE k = j
    BY <1>1, <1>2, <2>1
  <2>2. CASE k # j
    <3>1. job'[k] = job[k] /\ JobOK(k, job[k], items)
      BY <1>1, <1>2, <2>2 DEF IInv
    <3> QED BY <3>1 DEF JobOK
  <2> QED BY <2>1, <2>2
<1> QED
  BY <1>1, <1>2, <1>3

LEMMA ReturnStep ==
    ASSUME IInv,
           NEW j \in Jobs,
           Return(j),
           j \in Deliveries => job[j].own \in Posts,
           items \subseteq items'
    PROVE  /\ job' \in [Jobs -> JobState]
           /\ \A k \in Jobs : JobOK(k, job'[k], items')
<1>1. CASE j \in Deliveries
  <2> DEFINE state == [Idle EXCEPT !.pc = "done", !.own = job[j].own]
  <2>1. Become(j, state)
    BY <1>1 DEF Return
  <2>2. state \in JobState
    BY <1>1, IdleState DEF Idle, JobState
  <2>3. JobOK(j, state, items')
    BY <1>1 DEF JobOK, Idle
  <2> HIDE DEF state
  <2> QED BY <2>1, <2>2, <2>3, JobStep
<1>2. CASE j \notin Deliveries
  BY <1>2, IdleState, JobStep DEF Return
<1> QED BY <1>1, <1>2

LEMMA ApplyStep ==
    ASSUME IInv,
           NEW j \in Jobs, NEW p \in Posts, NEW payload \in Seq(Kinds),
           Apply(j, p, payload),
           j \in Deliveries => job[j].own \in Posts,
           items \subseteq items'
    PROVE  /\ job' \in [Jobs -> JobState]
           /\ \A k \in Jobs : JobOK(k, job'[k], items')
<1> DEFINE state == [job[j] EXCEPT !.pc = "applying", !.target = p,
                                   !.plan = payload, !.step = 1,
                                   !.rows = {}, !.trail = {}]
<1>1. job[j] \in JobState
  BY DEF IInv, TypeOK
<1>2. Become(j, state)
  BY DEF Apply
<1>3. state \in JobState
  <2>1. "applying" \in Busy /\ 1 \in Nat \ {0} /\ {} \subseteq Changes
    BY DEF Busy
  <2> QED BY <1>1, <2>1 DEF JobState
<1>4. JobOK(j, state, items')
  BY <1>1 DEF JobOK, JobState
<1> HIDE DEF state
<1> QED BY <1>2, <1>3, <1>4, JobStep

LEMMA GotoStep ==
    ASSUME IInv,
           NEW j \in Jobs, NEW pc \in DeliveryPCs,
           Goto(j, pc),
           job[j].own \in Posts,
           items' = items
    PROVE  /\ job' \in [Jobs -> JobState]
           /\ \A k \in Jobs : JobOK(k, job'[k], items')
<1> DEFINE state == [job[j] EXCEPT !.pc = pc]
<1>1. job[j] \in JobState /\ JobOK(j, job[j], items)
  BY DEF IInv, TypeOK
<1>2. Become(j, state)
  BY DEF Goto
<1>3. state \in JobState
  BY <1>1 DEF JobState, Busy
<1>4. JobOK(j, state, items')
  BY <1>1 DEF JobOK, JobState, DeliveryPCs
<1> HIDE DEF state
<1> QED BY <1>2, <1>3, <1>4, JobStep

\* what a commit of session j's pending rows and events keeps
LEMMA CommitStep ==
    ASSUME IInv, NEW j \in Jobs, Commit(j)
    PROVE  /\ items' \subseteq Changes /\ audit' \subseteq Changes
           /\ items \subseteq items'
           /\ AuditIsTrue' /\ CreatedIsAudited'
<1>1. /\ items \subseteq Changes /\ audit \subseteq Changes
      /\ job[j].rows \subseteq Changes /\ job[j].trail \subseteq Changes
  BY DEF IInv, TypeOK, JobState
<1>2. /\ job[j].trail \subseteq items \union job[j].rows
      /\ job[j].rows \subseteq job[j].trail
  BY DEF IInv, JobOK
<1>3. items' = items \union job[j].rows /\ audit' = audit \union job[j].trail
  BY DEF Commit
<1>4. AuditIsTrue'
  BY <1>2, <1>3 DEF IInv, AuditIsTrue
<1>5. CreatedIsAudited'
  BY <1>2, <1>3 DEF IInv, CreatedIsAudited
<1> QED
  BY <1>1, <1>3, <1>4, <1>5

\* the operation a job is about to execute
LEMMA NextOpStep ==
    ASSUME IInv, NEW j \in Jobs, NEW kind \in Kinds, NextOp(j, kind)
    PROVE  /\ TheChange(j, kind) \in Changes
           /\ job[j].pc = "applying" /\ job[j].target \in Posts
           /\ j \in Deliveries => job[j].own \in Posts
           /\ job[j].step + 1 \in Nat \ {0}
           /\ job[j] \in JobState
<1>1. job[j] \in JobState /\ JobOK(j, job[j], items) /\ job[j].pc = "applying"
  BY DEF IInv, TypeOK, NextOp, At
<1>2. job[j].target \in Posts /\ (j \in Deliveries => job[j].own \in Posts)
  BY <1>1 DEF JobOK
<1>3. job[j].step \in Nat \ {0}
  BY <1>1 DEF JobState
<1>4. TheChange(j, kind) \in Changes
  BY <1>2, <1>3 DEF TheChange, Changes
<1> QED
  BY <1>1, <1>2, <1>3, <1>4

\* what item_repo.update may be about to commit
LEMMA UpdateFacts ==
    ASSUME IInv, NEW j \in Jobs, NEW c \in Updates(j)
    PROVE  /\ job[j] \in JobState /\ JobOK(j, job[j], items)
           /\ job[j].pc \in {"applying", "confirming", "replaced"}
           /\ job[j].pc # "applying" => c \in Replacements(j)
           /\ job[j].target \in Posts
           /\ j \in Deliveries => job[j].own \in Posts
           /\ c \in Changes /\ c.kind \in {"change", "replace"}
           /\ c.op + 1 \in Nat \ {0}
           /\ c = [prop |-> job[j].target, op |-> c.op, kind |-> c.kind, by |-> j]
<1>1. job[j] \in JobState /\ JobOK(j, job[j], items)
  BY DEF IInv, TypeOK
<1>2. job[j].step \in Nat \ {0} /\ job[j].plan \in Seq(Kinds)
  BY <1>1 DEF JobState
<1>3. CASE c = TheChange(j, "change") /\ NextOp(j, "change")
  <2>1. /\ c \in Changes /\ job[j].pc = "applying" /\ job[j].target \in Posts
        /\ j \in Deliveries => job[j].own \in Posts
    BY <1>3, NextOpStep DEF Kinds
  <2>2. /\ c = [prop |-> job[j].target, op |-> job[j].step, kind |-> "change", by |-> j]
    BY <1>3 DEF TheChange
  <2> QED
    BY <1>1, <1>2, <2>1, <2>2
<1>4. CASE c \in Replacements(j)
  <2>1. PICK i \in job[j].step .. Len(job[j].plan) :
           c = [prop |-> job[j].target, op |-> i, kind |-> "replace", by |-> j]
    BY <1>4 DEF Replacements
  <2>2. job[j].pc \in {"confirming", "replaced"}
    BY <1>4 DEF Replacements
  <2>3. job[j].target \in Posts /\ (j \in Deliveries => job[j].own \in Posts)
    BY <1>1, <2>2 DEF JobOK
  <2>4. i \in Nat /\ i + 1 \in Nat \ {0}
    BY <1>2
  <2>5. c \in Changes
    BY <2>1, <2>3, <2>4 DEF Changes
  <2> QED
    BY <1>1, <1>4, <2>1, <2>2, <2>3, <2>4, <2>5
<1> QED
  BY <1>3, <1>4 DEF Updates

\* the commit of item_repo.update, like any other, keeps items and events together
LEMMA UpdateStep ==
    ASSUME IInv, NEW j \in Jobs, NEW c \in Changes, c.kind # "create",
           UpdateCommits(j, c)
    PROVE  /\ items' \subseteq Changes /\ audit' \subseteq Changes
           /\ items \subseteq items' /\ c \in items'
           /\ AuditIsTrue' /\ CreatedIsAudited'
<1>1. /\ items \subseteq Changes /\ audit \subseteq Changes
      /\ job[j].rows \subseteq Changes /\ job[j].trail \subseteq Changes
  BY DEF IInv, TypeOK, JobState
<1>2. /\ job[j].trail \subseteq items \union job[j].rows
      /\ job[j].rows \subseteq job[j].trail
  BY DEF IInv, JobOK
<1>3. items' = items \union job[j].rows \union {c} /\ audit' = audit \union job[j].trail
  BY DEF UpdateCommits
<1>4. AuditIsTrue'
  BY <1>2, <1>3 DEF IInv, AuditIsTrue
<1>5. CreatedIsAudited'
  BY <1>2, <1>3 DEF IInv, CreatedIsAudited
<1> QED
  BY <1>1, <1>3, <1>4, <1>5

LEMMA AppliedStep ==
    ASSUME IInv, NEW j \in Jobs,
           SkipOp(j) \/ CreateOp(j) \/ ChangeOp(j) \/ FinishApply(j)
    PROVE  /\ job' \in [Jobs -> JobState]
           /\ \A k \in Jobs : JobOK(k, job'[k], items')
           /\ items' \subseteq Changes /\ audit' \subseteq Changes
           /\ status' \in [Posts -> Status]
           /\ AuditIsTrue' /\ CreatedIsAudited'
<1>1. job[j] \in JobState /\ JobOK(j, job[j], items)
  BY DEF IInv, TypeOK
<1>2. /\ items \subseteq Changes /\ audit \subseteq Changes
      /\ status \in [Posts -> Status]
      /\ job[j].rows \subseteq Changes /\ job[j].trail \subseteq Changes
  BY <1>1 DEF IInv, TypeOK, JobState
<1>3. CASE SkipOp(j)
  <2> DEFINE state == [job[j] EXCEPT !.step = @ + 1]
  <2>1. NextOp(j, "skip") /\ Become(j, state)
    BY <1>3 DEF SkipOp
  <2>2. job[j].step + 1 \in Nat \ {0}
    BY <2>1, NextOpStep DEF Kinds
  <2>3. state \in JobState
    BY <1>1, <2>2 DEF JobState
  <2>4. UNCHANGED <<status, items, audit>>
    BY <1>3 DEF SkipOp
  <2>5. JobOK(j, state, items')
    BY <1>1, <2>4 DEF JobOK, JobState
  <2> HIDE DEF state
  <2>6. /\ job' \in [Jobs -> JobState]
        /\ \A k \in Jobs : JobOK(k, job'[k], items')
    BY <2>1, <2>3, <2>4, <2>5, JobStep
  <2> QED
    BY <1>2, <2>4, <2>6 DEF IInv, AuditIsTrue, CreatedIsAudited
<1>4. CASE CreateOp(j)
  <2> DEFINE c == TheChange(j, "create")
  <2> DEFINE state == [job[j] EXCEPT !.step = @ + 1, !.rows = @ \union {c},
                                     !.trail = @ \union {c}]
  <2>1. NextOp(j, "create") /\ Become(j, state)
    BY <1>4 DEF CreateOp
  <2>2. job[j].step + 1 \in Nat \ {0} /\ c \in Changes /\ job[j].pc = "applying"
    BY <2>1, NextOpStep DEF Kinds
  <2> HIDE DEF c
  <2>3. state \in JobState
    BY <1>1, <1>2, <2>2 DEF JobState
  <2>4. UNCHANGED <<status, items, audit>>
    BY <1>4 DEF CreateOp
  <2>5. JobOK(j, state, items')
    BY <1>1, <2>2, <2>4 DEF JobOK, JobState
  <2> HIDE DEF state
  <2>6. /\ job' \in [Jobs -> JobState]
        /\ \A k \in Jobs : JobOK(k, job'[k], items')
    BY <2>1, <2>3, <2>4, <2>5, JobStep
  <2> QED
    BY <1>2, <2>4, <2>6 DEF IInv, AuditIsTrue, CreatedIsAudited
<1>5. CASE ChangeOp(j)
  <2> DEFINE c == TheChange(j, "change")
  <2> DEFINE state == [job[j] EXCEPT !.step = @ + 1, !.rows = {}, !.trail = {c}]
  <2>1. NextOp(j, "change") /\ Become(j, state)
    BY <1>5 DEF ChangeOp
  <2>2. job[j].step + 1 \in Nat \ {0} /\ c \in Changes
    BY <2>1, NextOpStep DEF Kinds
  <2>3. c.kind = "change"
    BY DEF TheChange
  <2>4. UpdateCommits(j, c) /\ UNCHANGED status
    BY <1>5 DEF ChangeOp
  <2> HIDE DEF c
  <2>5. state \in JobState
    <3>1. {c} \subseteq Changes /\ {} \subseteq Changes
      BY <2>2
    <3> QED BY <1>1, <2>2, <3>1 DEF JobState
  <2>6. /\ items' \subseteq Changes /\ audit' \subseteq Changes
        /\ items \subseteq items' /\ c \in items'
        /\ AuditIsTrue' /\ CreatedIsAudited'
    BY <2>2, <2>3, <2>4, UpdateStep
  <2>7. JobOK(j, state, items')
    BY <1>1, <2>6 DEF JobOK, JobState
  <2> HIDE DEF state
  <2>8. /\ job' \in [Jobs -> JobState]
        /\ \A k \in Jobs : JobOK(k, job'[k], items')
    BY <2>1, <2>5, <2>6, <2>7, JobStep
  <2> QED
    BY <1>2, <2>4, <2>6, <2>8
<1>6. CASE FinishApply(j)
  <2>1. job[j].pc = "applying" /\ Commit(j) /\ AfterApply(j)
        /\ Put(job[j].target, "applied")
    BY <1>6 DEF FinishApply, At
  <2>2. j \in Deliveries => job[j].own \in Posts
    BY <1>1, <2>1 DEF JobOK
  <2>3. /\ items' \subseteq Changes /\ audit' \subseteq Changes
        /\ items \subseteq items'
        /\ AuditIsTrue' /\ CreatedIsAudited'
    BY <2>1, CommitStep
  <2>4. /\ job' \in [Jobs -> JobState]
        /\ \A k \in Jobs : JobOK(k, job'[k], items')
    <3>1. CASE j \in Deliveries /\ job[j].target # job[j].own
      <4> DEFINE state == [job[j] EXCEPT !.pc = "confirmed", !.rows = {}, !.trail = {}]
      <4>1. Become(j, state)
        BY <2>1, <3>1 DEF AfterApply
      <4>2. state \in JobState
        <5>1. "confirmed" \in Busy /\ {} \subseteq Changes
          BY DEF Busy, DeliveryPCs
        <5> QED BY <1>1, <5>1 DEF JobState
      <4>3. JobOK(j, state, items')
        BY <1>1, <2>2 DEF JobOK, JobState
      <4> HIDE DEF state
      <4> QED BY <2>3, <4>1, <4>2, <4>3, JobStep
    <3>2. CASE ~(j \in Deliveries /\ job[j].target # job[j].own)
      <4>1. Return(j)
        BY <2>1, <3>2 DEF AfterApply
      <4> QED BY <2>2, <2>3, <4>1, ReturnStep
    <3> QED BY <3>1, <3>2
  <2>5. status' \in [Posts -> Status]
    BY <1>2, <2>1 DEF Put, Status, Terminal
  <2> QED
    BY <2>3, <2>4, <2>5
<1> QED
  BY <1>3, <1>4, <1>5, <1>6

-----------------------------------------------------------------------------
\* the steps that commit no item: only the proposal, the acks and one job move
LEMMA QuietStep ==
    ASSUME IInv,
           UNCHANGED <<ingestVars, items, audit>>,
           status' \in [Posts -> Status],
           ops' \in [Posts -> Seq(Kinds)],
           acked' \subseteq Posts,
           job' \in [Jobs -> JobState],
           \A k \in Jobs : JobOK(k, job'[k], items')
    PROVE  IInv'
<1>1. TypeOK'
  BY DEF IInv, TypeOK, ingestVars
<1>2. AuditIsTrue' /\ CreatedIsAudited'
  BY DEF IInv, AuditIsTrue, CreatedIsAudited
<1> QED
  BY <1>1, <1>2 DEF IInv

LEMMA InitInv == Init => IInv
<1> SUFFICES ASSUME Init PROVE IInv
  OBVIOUS
<1> USE DEF Init, IngestInit
<1>1. <<>> \in Seq(Kinds) /\ "queued" \in Status
  BY DEF Status
<1>2. TypeOK
  BY <1>1, IdleState DEF TypeOK
<1>3. AuditIsTrue /\ CreatedIsAudited
  BY DEF AuditIsTrue, CreatedIsAudited
<1>4. \A j \in Jobs : JobOK(j, job[j], items)
  BY IdleState
<1> QED
  BY <1>2, <1>3, <1>4 DEF IInv

LEMMA PostInv ==
    ASSUME IInv, NEW p \in Posts, Post(p)
    PROVE  IInv'
<1>1. UNCHANGED proposalVars /\ (Begin(p) \/ Accept(p) \/ Send(p))
  BY DEF Post
<1>2. Cardinality(Begun) \in Nat
  BY BegunCount DEF IInv
<1>3. /\ version' \in Nat /\ stamp' \in [Posts -> Nat]
      /\ began' \in [Posts -> Nat] /\ sent' \subseteq Posts
  <2>1. /\ version \in Nat /\ stamp \in [Posts -> Nat]
        /\ began \in [Posts -> Nat] /\ sent \subseteq Posts
    BY DEF IInv, TypeOK
  <2>2. CASE Begin(p)
    BY <1>2, <2>1, <2>2 DEF Begin
  <2>3. CASE Accept(p)
    BY <2>1, <2>3 DEF Accept
  <2>4. CASE Send(p)
    BY <2>1, <2>4 DEF Send
  <2> QED BY <1>1, <2>2, <2>3, <2>4
<1>4. TypeOK'
  BY <1>1, <1>3 DEF IInv, TypeOK, proposalVars
<1> QED
  BY <1>1, <1>4 DEF IInv, AuditIsTrue, CreatedIsAudited, JobOK, proposalVars

\* the steps of a delivery, but for those of apply_proposal
LEMMA DeliveryInv ==
    ASSUME IInv, NEW d \in Deliveries,
           \/ \E m \in Posts : Deliver(d, m)
           \/ FindActive(d)
           \/ ConfirmByChat(d) \/ RejectByChat(d) \/ Continue(d)
           \/ CheckStale(d)
           \/ \E payload \in Payloads :
                 MarkStale(d, payload) \/ AskConfirmation(d, payload)
                 \/ NoOp(d, payload) \/ MakeReady(d, payload)
           \/ AckOwn(d) \/ MarkFailed(d) \/ Ack(d) \/ Kill(d)
    PROVE  IInv'
<1>1. d \in Jobs
  BY DEF Jobs
<1>2. /\ job[d] \in JobState /\ JobOK(d, job[d], items)
      /\ status \in [Posts -> Status] /\ ops \in [Posts -> Seq(Kinds)]
      /\ acked \subseteq Posts
  BY <1>1 DEF IInv, TypeOK
<1>3. Payloads \subseteq Seq(Kinds) /\ <<>> \in Seq(Kinds)
  BY PayloadsAssumption
<1>4. job[d].pc \notin {"idle", "ended"} => job[d].own \in Posts
  BY <1>2 DEF JobOK
<1>5. ASSUME NEW m \in Posts, Deliver(d, m) PROVE IInv'
  <2> DEFINE state == [job[d] EXCEPT !.pc = "routing", !.own = m]
  <2>1. Become(d, state) /\ Put(m, "running")
        /\ UNCHANGED <<ingestVars, ops, items, audit, acked>>
    BY <1>5 DEF Deliver
  <2>2. state \in JobState
    BY <1>2 DEF JobState, Busy, DeliveryPCs
  <2>3. JobOK(d, state, items')
    BY <1>2, <2>1 DEF JobOK, JobState
  <2> HIDE DEF state
  <2>4. /\ job' \in [Jobs -> JobState]
        /\ \A k \in Jobs : JobOK(k, job'[k], items')
    BY <1>1, <2>1, <2>2, <2>3, JobStep
  <2>5. status' \in [Posts -> Status]
    BY <1>2, <2>1 DEF Put, Status
  <2> QED BY <1>2, <2>1, <2>4, <2>5, QuietStep
<1>6. CASE FindActive(d)
  <2>1. UNCHANGED <<ingestVars, status, ops, items, audit, acked>>
        /\ job[d].pc = "routing"
    BY <1>6 DEF FindActive, At
  <2>2. ASSUME NEW p \in Posts,
               Become(d, [job[d] EXCEPT !.pc = "deciding", !.target = p])
        PROVE  IInv'
    <3> DEFINE state == [job[d] EXCEPT !.pc = "deciding", !.target = p]
    <3>1. state \in JobState
      BY <1>2 DEF JobState, Busy, DeliveryPCs
    <3>2. JobOK(d, state, items')
      BY <1>2, <1>4, <2>1 DEF JobOK, JobState
    <3>3. Become(d, state)
      BY <2>2
    <3> HIDE DEF state
    <3>4. /\ job' \in [Jobs -> JobState]
          /\ \A k \in Jobs : JobOK(k, job'[k], items')
      BY <1>1, <2>1, <3>1, <3>2, <3>3, JobStep
    <3> QED BY <1>2, <2>1, <3>4, QuietStep
  <2>3. ASSUME Goto(d, "deciding") PROVE IInv'
    <3>1. /\ job' \in [Jobs -> JobState]
          /\ \A k \in Jobs : JobOK(k, job'[k], items')
      BY <1>1, <1>4, <2>1, <2>3, GotoStep DEF DeliveryPCs
    <3> QED BY <1>2, <2>1, <3>1, QuietStep
  <2> QED BY <1>6, <2>2, <2>3 DEF FindActive
<1>7. CASE ConfirmByChat(d)
  <2> DEFINE p == job[d].target
  <2>1. /\ UNCHANGED <<ingestVars, status, ops, items, audit, acked>>
        /\ job[d].own \in Posts /\ p \in Posts
        /\ Apply(d, p, ops[p]) \/ Goto(d, "confirmed") \/ Goto(d, "pipeline")
    BY <1>2, <1>4, <1>7 DEF ConfirmByChat, At, JobState
  <2>2. ops[p] \in Seq(Kinds)
    BY <1>2, <2>1
  <2> HIDE DEF p
  <2>3. /\ job' \in [Jobs -> JobState]
        /\ \A k \in Jobs : JobOK(k, job'[k], items')
    <3>1. CASE Apply(d, p, ops[p])
      BY <1>1, <2>1, <2>2, <3>1, ApplyStep
    <3>2. CASE Goto(d, "confirmed") \/ Goto(d, "pipeline")
      BY <1>1, <2>1, <3>2, GotoStep DEF DeliveryPCs
    <3> QED BY <2>1, <3>1, <3>2
  <2> QED BY <1>2, <2>1, <2>3, QuietStep
<1>8. CASE RejectByChat(d)
  <2>1. /\ UNCHANGED <<ingestVars, ops, items, audit, acked>>
        /\ job[d].own \in Posts /\ Return(d)
        /\ status' = [status EXCEPT ![job[d].target] = "canceled",
                                    ![job[d].own] = "canceled"]
    BY <1>4, <1>8 DEF RejectByChat, At
  <2>2. status' \in [Posts -> Status]
    BY <1>2, <2>1 DEF Status, Terminal
  <2>3. /\ job' \in [Jobs -> JobState]
        /\ \A k \in Jobs : JobOK(k, job'[k], items')
    BY <1>1, <2>1, ReturnStep
  <2> QED BY <1>2, <2>1, <2>2, <2>3, QuietStep
<1>9. CASE Continue(d) \/ CheckStale(d)
  <2>1. /\ UNCHANGED <<ingestVars, status, ops, items, audit, acked>>
        /\ job[d].own \in Posts
        /\ Goto(d, "pipeline") \/ Goto(d, "current") \/ Goto(d, "superseded")
    BY <1>4, <1>9 DEF Continue, CheckStale, At
  <2>2. /\ job' \in [Jobs -> JobState]
        /\ \A k \in Jobs : JobOK(k, job'[k], items')
    BY <1>1, <2>1, GotoStep DEF DeliveryPCs
  <2> QED BY <1>2, <2>1, <2>2, QuietStep
<1>10. ASSUME NEW payload \in Payloads,
              MarkStale(d, payload) \/ AskConfirmation(d, payload) \/ NoOp(d, payload)
       PROVE  IInv'
  <2>1. /\ UNCHANGED <<ingestVars, items, audit, acked>>
        /\ job[d].own \in Posts /\ Return(d)
        /\ PutOps(job[d].own, payload)
        /\ \/ Put(job[d].own, "stale") \/ Put(job[d].own, "needs_confirmation")
           \/ Put(job[d].own, "applied")
    BY <1>4, <1>10 DEF MarkStale, AskConfirmation, NoOp, At
  <2>2. status' \in [Posts -> Status] /\ ops' \in [Posts -> Seq(Kinds)]
    BY <1>2, <1>3, <2>1 DEF Put, PutOps, Status, Actionable, Terminal
  <2>3. /\ job' \in [Jobs -> JobState]
        /\ \A k \in Jobs : JobOK(k, job'[k], items')
    BY <1>1, <2>1, ReturnStep
  <2> QED BY <1>2, <2>1, <2>2, <2>3, QuietStep
<1>11. ASSUME NEW payload \in Payloads, MakeReady(d, payload) PROVE IInv'
  <2>1. /\ UNCHANGED <<ingestVars, items, audit, acked>>
        /\ job[d].own \in Posts
        /\ Put(job[d].own, "ready") /\ PutOps(job[d].own, payload)
        /\ Apply(d, job[d].own, payload) \/ Return(d)
    BY <1>4, <1>11 DEF MakeReady, At
  <2>2. status' \in [Posts -> Status] /\ ops' \in [Posts -> Seq(Kinds)]
    BY <1>2, <1>3, <2>1 DEF Put, PutOps, Status, Actionable
  <2>3. /\ job' \in [Jobs -> JobState]
        /\ \A k \in Jobs : JobOK(k, job'[k], items')
    BY <1>1, <1>3, <2>1, ReturnStep, ApplyStep
  <2> QED BY <1>2, <2>1, <2>2, <2>3, QuietStep
<1>12. CASE AckOwn(d)
  <2>1. /\ UNCHANGED <<ingestVars, items, audit, acked>>
        /\ job[d].own \in Posts /\ Return(d)
        /\ Put(job[d].own, "applied") /\ PutOps(job[d].own, <<>>)
    BY <1>4, <1>12 DEF AckOwn, At
  <2>2. status' \in [Posts -> Status] /\ ops' \in [Posts -> Seq(Kinds)]
    BY <1>2, <1>3, <2>1 DEF Put, PutOps, Status, Terminal
  <2>3. /\ job' \in [Jobs -> JobState]
        /\ \A k \in Jobs : JobOK(k, job'[k], items')
    BY <1>1, <2>1, ReturnStep
  <2> QED BY <1>2, <2>1, <2>2, <2>3, QuietStep
<1>13. CASE MarkFailed(d)
  <2>1. /\ UNCHANGED <<ingestVars, ops, acked>>
        /\ job[d].own \in Posts /\ Return(d) /\ Commit(d)
        /\ Put(job[d].own, "failed")
    BY <1>4, <1>13 DEF MarkFailed
  <2>2. status' \in [Posts -> Status]
    BY <1>2, <2>1 DEF Put, Status, Terminal
  <2>3. /\ items' \subseteq Changes /\ audit' \subseteq Changes
        /\ items \subseteq items'
        /\ AuditIsTrue' /\ CreatedIsAudited'
    BY <1>1, <2>1, CommitStep
  <2>4. /\ job' \in [Jobs -> JobState]
        /\ \A k \in Jobs : JobOK(k, job'[k], items')
    BY <1>1, <2>1, <2>3, ReturnStep
  <2>5. TypeOK'
    BY <2>1, <2>2, <2>3, <2>4 DEF IInv, TypeOK, ingestVars
  <2> QED BY <2>3, <2>4, <2>5 DEF IInv
<1>14. CASE Ack(d) \/ Kill(d)
  <2>1. /\ UNCHANGED <<ingestVars, status, ops, items, audit>>
        /\ acked' = acked \union {job[d].own} /\ Become(d, Ended)
        /\ job[d].own \in Posts
    BY <1>4, <1>14 DEF Ack, Kill, At, Busy, DeliveryPCs, RequestPCs
  <2>2. /\ job' \in [Jobs -> JobState]
        /\ \A k \in Jobs : JobOK(k, job'[k], items')
    BY <1>1, <2>1, IdleState, JobStep
  <2> QED BY <1>2, <2>1, <2>2, QuietStep
<1> QED
  BY <1>5, <1>6, <1>7, <1>8, <1>9, <1>10, <1>11, <1>12, <1>13, <1>14

\* the steps of the request that apply_proposal does not make
LEMMA RequestInv ==
    ASSUME IInv, NEW r \in Requests,
           \/ \E p \in Posts : ApplyRequest(r, p) \/ ConfirmRequest(r, p)
           \/ CancelNew(r) \/ AskAgain(r) \/ ReplaceExisting(r) \/ Approve(r)
    PROVE  IInv'
<1>1. r \in Jobs /\ r \notin Deliveries
  BY JobsAssumption DEF Jobs
<1>2. /\ job[r] \in JobState /\ JobOK(r, job[r], items)
      /\ status \in [Posts -> Status] /\ ops \in [Posts -> Seq(Kinds)]
      /\ items \subseteq Changes /\ audit \subseteq Changes /\ acked \subseteq Posts
  BY <1>1 DEF IInv, TypeOK
<1>3. job[r].pc \in {"confirming", "replaced"} => job[r].target \in Posts
  BY <1>2 DEF JobOK
<1>4. ASSUME NEW p \in Posts, ApplyRequest(r, p) PROVE IInv'
  <2>1. /\ UNCHANGED <<ingestVars, status, ops, items, audit, acked>>
        /\ Return(r) \/ Apply(r, p, ops[p])
    BY <1>4 DEF ApplyRequest
  <2>2. ops[p] \in Seq(Kinds)
    BY <1>2
  <2>3. /\ job' \in [Jobs -> JobState]
        /\ \A k \in Jobs : JobOK(k, job'[k], items')
    BY <1>1, <2>1, <2>2, ReturnStep, ApplyStep
  <2> QED BY <1>2, <2>1, <2>3, QuietStep
<1>5. ASSUME NEW p \in Posts, ConfirmRequest(r, p) PROVE IInv'
  <2> DEFINE state == [job[r] EXCEPT !.pc = "confirming", !.target = p,
                                     !.plan = ops[p], !.seen = status[p]]
  <2>1. /\ UNCHANGED <<ingestVars, status, ops, items, audit, acked>>
        /\ Become(r, state) /\ status[p] \in Actionable /\ job[r].pc = "idle"
    BY <1>5 DEF ConfirmRequest, At
  <2>2. ops[p] \in Seq(Kinds) /\ "confirming" \in Busy
    BY <1>2 DEF Busy, RequestPCs
  <2>3. state \in JobState
    BY <1>2, <2>1, <2>2 DEF JobState
  <2>4. JobOK(r, state, items')
    BY <1>1, <1>2, <2>1 DEF JobOK, JobState
  <2> HIDE DEF state
  <2>5. /\ job' \in [Jobs -> JobState]
        /\ \A k \in Jobs : JobOK(k, job'[k], items')
    BY <1>1, <2>1, <2>3, <2>4, JobStep
  <2> QED BY <1>2, <2>1, <2>5, QuietStep
<1>6. CASE CancelNew(r)
  <2>1. /\ UNCHANGED <<ingestVars, ops, items, audit, acked>>
        /\ Return(r) /\ Put(job[r].target, "canceled")
    BY <1>6 DEF CancelNew
  <2>2. status' \in [Posts -> Status]
    BY <1>2, <2>1 DEF Put, Status, Terminal
  <2>3. /\ job' \in [Jobs -> JobState]
        /\ \A k \in Jobs : JobOK(k, job'[k], items')
    BY <1>1, <2>1, ReturnStep
  <2> QED BY <1>2, <2>1, <2>2, <2>3, QuietStep
<1>7. CASE AskAgain(r)
  <2>1. /\ UNCHANGED <<ingestVars, items, audit, acked>>
        /\ Return(r) /\ PutOps(job[r].target, job[r].plan)
        /\ UNCHANGED status \/ Put(job[r].target, "needs_confirmation")
    BY <1>7 DEF AskAgain, PutIfChanged
  <2>2. status' \in [Posts -> Status]
    BY <1>2, <2>1 DEF Put, Status, Actionable
  <2>3. ops' \in [Posts -> Seq(Kinds)]
    BY <1>2, <2>1 DEF PutOps, JobState
  <2>4. /\ job' \in [Jobs -> JobState]
        /\ \A k \in Jobs : JobOK(k, job'[k], items')
    BY <1>1, <2>1, ReturnStep
  <2> QED BY <1>2, <2>1, <2>2, <2>3, <2>4, QuietStep
<1>8. CASE ReplaceExisting(r)
  <2>1. PICK c \in Replacements(r) :
           /\ UpdateCommits(r, c)
           /\ Become(r, [job[r] EXCEPT !.pc = "replaced", !.step = c.op + 1,
                                       !.trail = {c}])
           /\ UNCHANGED <<ingestVars, status, ops, acked>>
    BY <1>8 DEF ReplaceExisting
  <2> DEFINE state == [job[r] EXCEPT !.pc = "replaced", !.step = c.op + 1,
                                     !.trail = {c}]
  <2>2. /\ c \in Changes /\ c.kind # "create" /\ c.op + 1 \in Nat \ {0}
        /\ job[r].pc \in {"confirming", "replaced"} /\ job[r].target \in Posts
    <3>1. c \in Updates(r) /\ job[r].pc \in {"confirming", "replaced"}
      BY DEF Updates, Replacements
    <3> QED
      BY <1>1, <3>1, UpdateFacts
  <2>3. state \in JobState
    <3>1. "replaced" \in Busy /\ {c} \subseteq Changes
      BY <2>2 DEF Busy, RequestPCs
    <3> QED BY <1>2, <2>2, <3>1 DEF JobState
  <2>4. /\ items' \subseteq Changes /\ audit' \subseteq Changes
        /\ items \subseteq items' /\ c \in items'
        /\ AuditIsTrue' /\ CreatedIsAudited'
    BY <1>1, <2>1, <2>2, UpdateStep
  <2>5. JobOK(r, state, items')
    BY <1>1, <1>2, <2>2, <2>4 DEF JobOK, JobState
  <2>6. Become(r, state)
    BY <2>1
  <2> HIDE DEF state
  <2>7. /\ job' \in [Jobs -> JobState]
        /\ \A k \in Jobs : JobOK(k, job'[k], items')
    BY <1>1, <2>3, <2>4, <2>5, <2>6, JobStep
  <2>8. TypeOK'
    BY <1>2, <2>1, <2>4, <2>7 DEF IInv, TypeOK, ingestVars
  <2> QED BY <2>4, <2>7, <2>8 DEF IInv
<1>9. CASE Approve(r)
  <2> DEFINE p == job[r].target
  <2>1. /\ UNCHANGED <<ingestVars, acked>> /\ Commit(r)
        /\ p \in Posts
        /\ UNCHANGED status \/ Put(p, "ready")
        /\ PutOps(p, job[r].plan) \/ UNCHANGED ops
        /\ Apply(r, p, ops'[p]) \/ Return(r)
    BY <1>3, <1>9 DEF Approve, PutIfChanged
  <2> HIDE DEF p
  <2>2. status' \in [Posts -> Status]
    BY <1>2, <2>1 DEF Put, Status, Actionable
  <2>3. ops' \in [Posts -> Seq(Kinds)]
    BY <1>2, <2>1 DEF PutOps, JobState
  <2>4. /\ items' \subseteq Changes /\ audit' \subseteq Changes
        /\ items \subseteq items'
        /\ AuditIsTrue' /\ CreatedIsAudited'
    BY <1>1, <2>1, CommitStep
  <2>5. ops'[p] \in Seq(Kinds)
    BY <2>1, <2>3
  <2>6. /\ job' \in [Jobs -> JobState]
        /\ \A k \in Jobs : JobOK(k, job'[k], items')
    BY <1>1, <2>1, <2>4, <2>5, ReturnStep, ApplyStep
  <2>7. TypeOK'
    BY <2>1, <2>2, <2>3, <2>4, <2>6 DEF IInv, TypeOK, ingestVars
  <2> QED BY <2>4, <2>6, <2>7 DEF IInv
<1> QED
  BY <1>4, <1>5, <1>6, <1>7, <1>8, <1>9

\* whatever fails, the session that fails has committed what it has committed
LEMMA FaultInv ==
    ASSUME IInv, NEW j \in Jobs,
           CommitFails(j) \/ RefreshFails(j) \/ SessionBreaks(j) \/ Die(j)
    PROVE  IInv'
<1>1. /\ UNCHANGED <<ingestVars, status, ops, acked>>
      /\ job[j].pc \in Busy \union {"done"}
      /\ Return(j) \/ Become(j, Ended)
         \/ (j \in Deliveries /\ RollBack(j) /\ job[j].pc \in Busy)
  <2>1. ASSUME NEW c \in Updates(j)
        PROVE  job[j].pc \in Busy
    BY UpdateFacts DEF Busy, RequestPCs
  <2>2. CASE CommitFails(j)
    BY <2>1, <2>2 DEF CommitFails, RollBack
  <2>3. CASE RefreshFails(j)
    BY <2>1, <2>3 DEF RefreshFails, RollBack
  <2>4. CASE SessionBreaks(j) \/ Die(j)
    BY <2>4 DEF SessionBreaks, Die
  <2> QED
    BY <2>2, <2>3, <2>4
<1>2. /\ job[j] \in JobState /\ JobOK(j, job[j], items)
      /\ status \in [Posts -> Status] /\ ops \in [Posts -> Seq(Kinds)]
      /\ acked \subseteq Posts
      /\ items \subseteq Changes /\ audit \subseteq Changes
  BY DEF IInv, TypeOK
<1>3. /\ items' \subseteq Changes /\ audit' \subseteq Changes
      /\ items \subseteq items'
      /\ AuditIsTrue' /\ CreatedIsAudited'
  <2>1. CASE UNCHANGED <<items, audit>>
    BY <1>2, <2>1 DEF IInv, AuditIsTrue, CreatedIsAudited
  <2>2. CASE RefreshFails(j)
    <3>1. PICK c \in Updates(j) : UpdateCommits(j, c)
      BY <2>2 DEF RefreshFails
    <3> QED
      BY <3>1, UpdateFacts, UpdateStep
  <2> QED
    BY <2>1, <2>2 DEF CommitFails, SessionBreaks, Die
<1>4. j \in Deliveries => job[j].own \in Posts
  BY <1>1, <1>2 DEF JobOK, Busy, DeliveryPCs, RequestPCs
<1>5. /\ job' \in [Jobs -> JobState]
      /\ \A k \in Jobs : JobOK(k, job'[k], items')
  <2>1. CASE Return(j)
    BY <1>3, <1>4, <2>1, ReturnStep
  <2>2. CASE Become(j, Ended)
    BY <1>3, <2>2, IdleState, JobStep
  <2>3. CASE j \in Deliveries /\ RollBack(j)
    <3> DEFINE state == [job[j] EXCEPT !.pc = "failing", !.rows = {}, !.trail = {}]
    <3>1. Become(j, state)
      BY <2>3 DEF RollBack
    <3>2. state \in JobState
      <4>1. "failing" \in Busy /\ {} \subseteq Changes
        BY DEF Busy, DeliveryPCs
      <4> QED BY <1>2, <4>1 DEF JobState
    <3>3. JobOK(j, state, items')
      BY <1>2, <1>4 DEF JobOK, JobState
    <3> HIDE DEF state
    <3> QED
      BY <1>3, <3>1, <3>2, <3>3, JobStep
  <2> QED
    BY <1>1, <2>1, <2>2, <2>3
<1>6. TypeOK'
  BY <1>1, <1>2, <1>3, <1>5 DEF IInv, TypeOK, ingestVars
<1> QED
  BY <1>3, <1>5, <1>6 DEF IInv

LEMMA NextInv == IInv /\ [Next]_vars => IInv'
<1> SUFFICES ASSUME IInv, [Next]_vars PROVE IInv'
  OBVIOUS
<1>1. ASSUME NEW p \in Posts, Post(p) PROVE IInv'
  BY <1>1, PostInv
<1>2. ASSUME NEW j \in Jobs, Applying(j) PROVE IInv'
  <2>1. /\ UNCHANGED <<ingestVars, ops, acked>>
        /\ SkipOp(j) \/ CreateOp(j) \/ ChangeOp(j) \/ FinishApply(j)
    BY <1>2 DEF Applying, SkipOp, CreateOp, ChangeOp, FinishApply
  <2>2. /\ job' \in [Jobs -> JobState]
        /\ \A k \in Jobs : JobOK(k, job'[k], items')
        /\ items' \subseteq Changes /\ audit' \subseteq Changes
        /\ status' \in [Posts -> Status]
        /\ AuditIsTrue' /\ CreatedIsAudited'
    BY <2>1, AppliedStep
  <2>3. TypeOK'
    BY <2>1, <2>2 DEF IInv, TypeOK, ingestVars
  <2> QED BY <2>2, <2>3 DEF IInv
<1>3. ASSUME NEW d \in Deliveries,
             Work(d) \/ Kill(d) \/ \E m \in Posts : Deliver(d, m)
      PROVE  IInv'
  <2>1. d \in Jobs
    BY DEF Jobs
  <2>2. CASE Applying(d)
    BY <1>2, <2>1, <2>2
  <2>3. CASE ~Applying(d)
    BY <1>3, <2>3, DeliveryInv DEF Work
  <2> QED BY <2>2, <2>3
<1>4. ASSUME NEW r \in Requests, Request(r) PROVE IInv'
  <2>1. r \in Jobs
    BY DEF Jobs
  <2>2. CASE Applying(r)
    BY <1>2, <2>1, <2>2
  <2>3. CASE ~Applying(r)
    BY <1>4, <2>3, RequestInv DEF Request
  <2> QED BY <2>2, <2>3
<1>5. ASSUME NEW j \in Jobs,
             CommitFails(j) \/ RefreshFails(j) \/ SessionBreaks(j) \/ Die(j)
      PROVE  IInv'
  BY <1>5, FaultInv
<1>6. CASE UNCHANGED vars
  BY <1>6 DEF vars, proposalVars, ingestVars, IInv, TypeOK, AuditIsTrue,
              CreatedIsAudited, JobOK
<1> QED
  BY <1>1, <1>3, <1>4, <1>5, <1>6 DEF Next

-----------------------------------------------------------------------------
\* The inductive invariant holds throughout every behaviour.
THEOREM Invariant == Spec => []IInv
<1>1. Init => IInv
  BY InitInv
<1>2. IInv /\ [Next]_vars => IInv'
  BY NextInv
<1> QED
  BY <1>1, <1>2, PTL DEF Spec

\* Deliveries and requests keep proposals, items and audit events well-formed.
THEOREM TypeCorrect == Spec => []TypeOK
<1>1. IInv => TypeOK
  BY DEF IInv
<1> QED
  BY <1>1, Invariant, PTL

\* The audit log records only what has happened: an event that proposals_service
\* writes is committed with its item or after it, whatever fails in between.
THEOREM AuditTrue == Spec => []AuditIsTrue
<1>1. IInv => AuditIsTrue
  BY DEF IInv
<1> QED
  BY <1>1, Invariant, PTL

\* No session leaves a created item behind without its CREATED event.
THEOREM CreationsAudited == Spec => []CreatedIsAudited
<1>1. IInv => CreatedIsAudited
  BY DEF IInv
<1> QED
  BY <1>1, Invariant, PTL

-----------------------------------------------------------------------------
(***************************************************************************)
(* A message that a later one has overtaken in the queue is never offered. *)
(*                                                                         *)
(* The argument: nobody works on a queued proposal, so whoever writes it   *)
(* after that has taken it up after the version had moved on: its own      *)
(* delivery does not pass the staleness check, and a request finds no      *)
(* actionable status to start from.                                        *)
(***************************************************************************)

\* nobody has taken up a queued proposal
Untouched ==
    \A p \in Posts : status[p] = "queued" =>
        \A j \in Jobs : job[j].own # p /\ job[j].target # p

\* overtaken, not offered, and no session is about to offer it
Passed(p) ==
    /\ Stored(p) /\ stamp[p] < version /\ status[p] \notin Actionable
    /\ \A j \in Jobs : /\ job[j].pc = "current" => job[j].own # p
                       /\ job[j].pc \in {"confirming", "replaced"} => job[j].target # p

\* what one step of job j to this state does as far as offers go
Offers(j, state) ==
    /\ Become(j, state) /\ UNCHANGED ingestVars
    /\ state.own \in {job[j].own, Nil} \/ status'[state.own] = "running"
    /\ \/ state.target \in {job[j].target, Nil}
       \/ status[state.target] \in Actionable \/ job[j].own = state.target
    /\ state.pc = "current" => /\ state.own = job[j].own
                               /\ version = stamp[state.own]
    /\ state.pc \in {"confirming", "replaced"} =>
          \/ status[state.target] \in Actionable
          \/ /\ job[j].pc \in {"confirming", "replaced"}
             /\ state.target = job[j].target
    /\ \A m \in Posts :
          /\ status'[m] = "queued" => status[m] = "queued"
          /\ status'[m] \in Actionable =>
                \/ status[m] \in Actionable
                \/ job[j].pc = "current" /\ job[j].own = m
                \/ job[j].pc \in {"confirming", "replaced"} /\ job[j].target = m

LEMMA ReturnOffers ==
    ASSUME NEW j \in Jobs, Return(j)
    PROVE  \E state : /\ Become(j, state) /\ state.target = Nil
                      /\ state.pc \in {"done", "ended"}
                      /\ state.own \in {job[j].own, Nil}
<1>1. CASE j \in Deliveries
  <2> DEFINE state == [Idle EXCEPT !.pc = "done", !.own = job[j].own]
  <2>1. Become(j, state)
    BY <1>1 DEF Return
  <2>2. state.target = Nil /\ state.pc = "done" /\ state.own = job[j].own
    BY DEF Idle
  <2> QED
    BY <2>1, <2>2
<1>2. CASE j \notin Deliveries
  <2>1. Become(j, Ended)
    BY <1>2 DEF Return
  <2>2. Ended.target = Nil /\ Ended.pc = "ended" /\ Ended.own = Nil
    BY DEF Ended, Idle
  <2> QED
    BY <2>1, <2>2
<1> QED
  BY <1>1, <1>2

\* a job that returns offers its own proposal after the staleness check, or
\* the proposal that its request is about
LEMMA ReturnStepOffers ==
    ASSUME NEW j \in Jobs, Return(j), UNCHANGED ingestVars,
           \A m \in Posts : status'[m] # status[m] =>
              /\ status'[m] # "queued"
              /\ status'[m] \in Actionable =>
                    \/ job[j].pc = "current" /\ job[j].own = m
                    \/ job[j].pc \in {"confirming", "replaced"} /\ job[j].target = m
    PROVE  \E state : Offers(j, state)
<1>1. PICK state : /\ Become(j, state) /\ state.target = Nil
                   /\ state.pc \in {"done", "ended"}
                   /\ state.own \in {job[j].own, Nil}
  BY ReturnOffers
<1>2. Offers(j, state)
  BY <1>1 DEF Offers
<1> QED
  BY <1>2

LEMMA ApplyStepOffers ==
    ASSUME IInv, NEW j \in Jobs, NEW p, NEW payload, Apply(j, p, payload),
           UNCHANGED ingestVars,
           p = job[j].target \/ status[p] \in Actionable \/ p = job[j].own,
           \A m \in Posts : status'[m] # status[m] =>
              /\ status'[m] # "queued"
              /\ status'[m] \in Actionable =>
                    \/ job[j].pc = "current" /\ job[j].own = m
                    \/ job[j].pc \in {"confirming", "replaced"} /\ job[j].target = m
    PROVE  \E state : Offers(j, state)
<1> DEFINE state == [job[j] EXCEPT !.pc = "applying", !.target = p,
                                   !.plan = payload, !.step = 1,
                                   !.rows = {}, !.trail = {}]
<1>1. job[j] \in JobState
  BY DEF IInv, TypeOK
<1>2. Become(j, state)
  BY DEF Apply
<1>3. state.pc = "applying" /\ state.target = p /\ state.own = job[j].own
  BY <1>1 DEF JobState
<1> HIDE DEF state
<1>4. Offers(j, state)
  BY <1>2, <1>3 DEF Offers
<1> QED
  BY <1>4

LEMMA GotoOffers ==
    ASSUME IInv, NEW j \in Jobs, NEW pc, Goto(j, pc),
           UNCHANGED <<ingestVars, status>>,
           pc \notin {"confirming", "replaced"},
           pc = "current" => version = stamp[job[j].own]
    PROVE  \E state : Offers(j, state)
<1> DEFINE state == [job[j] EXCEPT !.pc = pc]
<1>1. job[j] \in JobState
  BY DEF IInv, TypeOK
<1>2. Become(j, state)
  BY DEF Goto
<1>3. state.pc = pc /\ state.target = job[j].target /\ state.own = job[j].own
  BY <1>1 DEF JobState
<1> HIDE DEF state
<1>4. Offers(j, state)
  BY <1>2, <1>3 DEF Offers
<1> QED
  BY <1>4

LEMMA ApplyingOffers ==
    ASSUME IInv, NEW j \in Jobs, Applying(j)
    PROVE  \E state : Offers(j, state)
<1>1. job[j] \in JobState /\ JobOK(j, job[j], items) /\ status \in [Posts -> Status]
  BY DEF IInv, TypeOK
<1>2. CASE SkipOp(j) \/ CreateOp(j) \/ ChangeOp(j)
  <2>1. PICK rows, trail :
           Become(j, [job[j] EXCEPT !.step = job[j].step + 1, !.rows = rows, !.trail = trail])
    <3>1. [job[j] EXCEPT !.step = job[j].step + 1]
             = [job[j] EXCEPT !.step = job[j].step + 1, !.rows = job[j].rows,
                              !.trail = job[j].trail]
      BY <1>1 DEF JobState
    <3>2. CASE SkipOp(j)
      BY <3>1, <3>2 DEF SkipOp
    <3>3. CASE CreateOp(j)
      BY <3>3 DEF CreateOp
    <3>4. CASE ChangeOp(j)
      BY <3>4 DEF ChangeOp
    <3> QED
      BY <1>2, <3>2, <3>3, <3>4
  <2> DEFINE state == [job[j] EXCEPT !.step = job[j].step + 1, !.rows = rows, !.trail = trail]
  <2>2. /\ job[j].pc = "applying" /\ UNCHANGED <<ingestVars, status>>
    BY <1>2 DEF SkipOp, CreateOp, ChangeOp, NextOp, At
  <2>3. state.pc = job[j].pc /\ state.target = job[j].target /\ state.own = job[j].own
    BY <1>1 DEF JobState
  <2>4. Become(j, state)
    BY <2>1
  <2> HIDE DEF state
  <2>5. Offers(j, state)
    BY <2>2, <2>3, <2>4 DEF Offers
  <2> QED
    BY <2>5
<1>3. CASE FinishApply(j)
  <2>1. /\ status' = [status EXCEPT ![job[j].target] = "applied"]
        /\ AfterApply(j) /\ UNCHANGED ingestVars
    BY <1>3 DEF FinishApply, Put
  <2>2. \A m \in Posts : status'[m] # status[m] => status'[m] = "applied"
    BY <1>1, <2>1
  <2>3. CASE Return(j)
    BY <2>1, <2>2, <2>3, ReturnStepOffers DEF Actionable
  <2>4. CASE ~Return(j)
    <3> DEFINE state == [job[j] EXCEPT !.pc = "confirmed", !.rows = {}, !.trail = {}]
    <3>1. Become(j, state)
      BY <2>1, <2>4 DEF AfterApply
    <3>2. /\ state.pc = "confirmed" /\ state.target = job[j].target
          /\ state.own = job[j].own
      BY <1>1 DEF JobState
    <3> HIDE DEF state
    <3>3. Offers(j, state)
      BY <2>1, <2>2, <3>1, <3>2 DEF Offers, Actionable
    <3> QED
      BY <3>3
  <2> QED
    BY <2>3, <2>4
<1> QED
  BY <1>2, <1>3 DEF Applying

LEMMA DeliveryOffers ==
    ASSUME IInv, NEW d \in Deliveries,
           \/ \E m \in Posts : Deliver(d, m)
           \/ FindActive(d)
           \/ ConfirmByChat(d) \/ RejectByChat(d) \/ Continue(d)
           \/ CheckStale(d)
           \/ \E payload \in Payloads :
                 MarkStale(d, payload) \/ AskConfirmation(d, payload)
                 \/ NoOp(d, payload) \/ MakeReady(d, payload)
           \/ AckOwn(d) \/ MarkFailed(d) \/ Ack(d) \/ Kill(d)
    PROVE  \E state : Offers(d, state)
<1>1. d \in Jobs
  BY DEF Jobs
<1>2. /\ job[d] \in JobState /\ JobOK(d, job[d], items)
      /\ status \in [Posts -> Status]
      /\ job[d].pc \notin {"idle", "ended"} => job[d].own \in Posts
  BY <1>1 DEF IInv, TypeOK, JobOK
<1>3. ASSUME NEW m \in Posts, Deliver(d, m)
      PROVE  \E state : Offers(d, state)
  <2> DEFINE state == [job[d] EXCEPT !.pc = "routing", !.own = m]
  <2>1. Become(d, state) /\ Put(m, "running") /\ UNCHANGED ingestVars
    BY <1>3 DEF Deliver
  <2>2. state.pc = "routing" /\ state.own = m /\ state.target = job[d].target
    BY <1>2 DEF JobState
  <2> HIDE DEF state
  <2>3. status'[m] = "running" /\ \A q \in Posts : status'[q] # status[q] => status'[q] = "running"
    BY <1>2, <2>1 DEF Put
  <2>4. Offers(d, state)
    BY <2>1, <2>2, <2>3 DEF Offers, Actionable
  <2> QED
    BY <2>4
<1>4. CASE FindActive(d)
  <2>1. UNCHANGED <<ingestVars, status>>
    BY <1>4 DEF FindActive
  <2>2. ASSUME NEW p \in Posts, status[p] = "needs_confirmation",
               Become(d, [job[d] EXCEPT !.pc = "deciding", !.target = p])
        PROVE  \E state : Offers(d, state)
    <3> DEFINE state == [job[d] EXCEPT !.pc = "deciding", !.target = p]
    <3>1. state.pc = "deciding" /\ state.target = p /\ state.own = job[d].own
      BY <1>2 DEF JobState
    <3>2. Become(d, state)
      BY <2>2
    <3> HIDE DEF state
    <3>3. Offers(d, state)
      BY <2>1, <2>2, <3>1, <3>2 DEF Offers, Actionable
    <3> QED
      BY <3>3
  <2>3. CASE Goto(d, "deciding")
    BY <1>1, <2>1, <2>3, GotoOffers
  <2> QED
    BY <1>4, <2>2, <2>3 DEF FindActive, Active
<1>5. CASE ConfirmByChat(d)
  <2>1. /\ UNCHANGED <<ingestVars, status>>
        /\ \/ Apply(d, job[d].target, ops[job[d].target])
           \/ Goto(d, "confirmed") \/ Goto(d, "pipeline")
    BY <1>5 DEF ConfirmByChat
  <2>2. CASE Apply(d, job[d].target, ops[job[d].target])
    BY <1>1, <2>1, <2>2, ApplyStepOffers
  <2>3. CASE Goto(d, "confirmed") \/ Goto(d, "pipeline")
    BY <1>1, <2>1, <2>3, GotoOffers
  <2> QED
    BY <2>1, <2>2, <2>3
<1>6. CASE RejectByChat(d)
  <2>1. /\ status' = [status EXCEPT ![job[d].target] = "canceled",
                                    ![job[d].own] = "canceled"]
        /\ Return(d) /\ UNCHANGED ingestVars
    BY <1>6 DEF RejectByChat
  <2>2. \A m \in Posts : status'[m] # status[m] => status'[m] = "canceled"
    BY <1>2, <2>1
  <2> QED
    BY <1>1, <2>1, <2>2, ReturnStepOffers DEF Actionable
<1>7. CASE Continue(d)
  <2>1. Goto(d, "pipeline") /\ UNCHANGED <<ingestVars, status>>
    BY <1>7 DEF Continue
  <2> QED
    BY <1>1, <2>1, GotoOffers
<1>8. CASE CheckStale(d)
  <2>1. /\ UNCHANGED <<ingestVars, status>>
        /\ \/ Goto(d, "superseded")
           \/ Goto(d, "current") /\ version = stamp[job[d].own]
    BY <1>8 DEF CheckStale
  <2> QED
    BY <1>1, <2>1, GotoOffers
<1>9. ASSUME NEW payload \in Payloads,
             MarkStale(d, payload) \/ AskConfirmation(d, payload)
             \/ NoOp(d, payload) \/ MakeReady(d, payload)
      PROVE  \E state : Offers(d, state)
  <2>1. PICK s \in {"stale", "needs_confirmation", "applied", "ready"} :
           /\ Put(job[d].own, s) /\ UNCHANGED ingestVars
           /\ s \in Actionable => job[d].pc = "current"
           /\ Return(d) \/ Apply(d, job[d].own, payload)
    <3>1. CASE MarkStale(d, payload)
      BY <3>1 DEF MarkStale, Actionable
    <3>2. CASE AskConfirmation(d, payload)
      BY <3>2 DEF AskConfirmation, At
    <3>3. CASE NoOp(d, payload)
      BY <3>3 DEF NoOp, At
    <3>4. CASE MakeReady(d, payload)
      BY <3>4 DEF MakeReady, At
    <3> QED
      BY <1>9, <3>1, <3>2, <3>3, <3>4
  <2>2. \A m \in Posts : status'[m] # status[m] => status'[m] = s /\ m = job[d].own
    BY <1>2, <2>1 DEF Put
  <2>3. CASE Return(d)
    BY <1>1, <2>1, <2>2, <2>3, ReturnStepOffers
  <2>4. CASE Apply(d, job[d].own, payload)
    BY <1>1, <2>1, <2>2, <2>4, ApplyStepOffers
  <2> QED
    BY <2>1, <2>3, <2>4
<1>10. CASE AckOwn(d) \/ MarkFailed(d)
  <2>1. PICK s \in {"applied", "failed"} :
           Put(job[d].own, s) /\ Return(d) /\ UNCHANGED ingestVars
    BY <1>10 DEF AckOwn, MarkFailed
  <2>2. \A m \in Posts : status'[m] # status[m] => status'[m] \in {"applied", "failed"}
    BY <1>2, <2>1 DEF Put
  <2> QED
    BY <1>1, <2>1, <2>2, ReturnStepOffers DEF Actionable
<1>11. CASE Ack(d) \/ Kill(d)
  <2>1. Become(d, Ended) /\ UNCHANGED <<ingestVars, status>>
    BY <1>11 DEF Ack, Kill
  <2>2. Ended.own = Nil /\ Ended.target = Nil /\ Ended.pc = "ended"
    BY DEF Ended, Idle
  <2>3. Offers(d, Ended)
    BY <2>1, <2>2 DEF Offers
  <2> QED
    BY <2>3
<1> QED
  BY <1>3, <1>4, <1>5, <1>6, <1>7, <1>8, <1>9, <1>10, <1>11

LEMMA RequestOffers ==
    ASSUME IInv, NEW r \in Requests,
           \/ \E p \in Posts : ApplyRequest(r, p) \/ ConfirmRequest(r, p)
           \/ CancelNew(r) \/ AskAgain(r) \/ ReplaceExisting(r) \/ Approve(r)
    PROVE  \E state : Offers(r, state)
<1>1. r \in Jobs
  BY DEF Jobs
<1>2. job[r] \in JobState /\ status \in [Posts -> Status]
  BY <1>1 DEF IInv, TypeOK
<1>3. ASSUME NEW p \in Posts, ApplyRequest(r, p)
      PROVE  \E state : Offers(r, state)
  <2>1. /\ status[p] \in Actionable /\ UNCHANGED <<ingestVars, status>>
        /\ Return(r) \/ Apply(r, p, ops[p])
    BY <1>3 DEF ApplyRequest
  <2>2. CASE Return(r)
    BY <1>1, <2>1, <2>2, ReturnStepOffers
  <2>3. CASE Apply(r, p, ops[p])
    BY <1>1, <2>1, <2>3, ApplyStepOffers
  <2> QED
    BY <2>1, <2>2, <2>3
<1>4. ASSUME NEW p \in Posts, ConfirmRequest(r, p)
      PROVE  \E state : Offers(r, state)
  <2> DEFINE state == [job[r] EXCEPT !.pc = "confirming", !.target = p,
                                     !.plan = ops[p], !.seen = status[p]]
  <2>1. /\ status[p] \in Actionable /\ UNCHANGED <<ingestVars, status>>
        /\ Become(r, state)
    BY <1>4 DEF ConfirmRequest
  <2>2. state.pc = "confirming" /\ state.target = p /\ state.own = job[r].own
    BY <1>2 DEF JobState
  <2> HIDE DEF state
  <2>3. Offers(r, state)
    BY <2>1, <2>2 DEF Offers
  <2> QED
    BY <2>3
<1>5. CASE CancelNew(r) \/ AskAgain(r)
  <2>1. /\ job[r].pc = "confirming" /\ Return(r) /\ UNCHANGED ingestVars
        /\ status' \in {status, [status EXCEPT ![job[r].target] = "canceled"],
                        [status EXCEPT ![job[r].target] = "needs_confirmation"]}
    BY <1>5 DEF CancelNew, AskAgain, At, PutIfChanged, Put
  <2>2. \A m \in Posts : status'[m] # status[m] =>
           status'[m] \in {"canceled", "needs_confirmation"} /\ m = job[r].target
    BY <1>2, <2>1
  <2> QED
    BY <1>1, <2>1, <2>2, ReturnStepOffers
<1>6. CASE ReplaceExisting(r)
  <2>1. PICK c \in Replacements(r) :
           /\ UNCHANGED <<ingestVars, status>>
           /\ Become(r, [job[r] EXCEPT !.pc = "replaced", !.step = c.op + 1,
                                       !.trail = {c}])
    BY <1>6 DEF ReplaceExisting
  <2> DEFINE state == [job[r] EXCEPT !.pc = "replaced", !.step = c.op + 1, !.trail = {c}]
  <2>2. /\ state.pc = "replaced" /\ state.target = job[r].target
        /\ state.own = job[r].own
        /\ job[r].pc \in {"confirming", "replaced"}
    BY <1>2 DEF JobState, Replacements
  <2>3. Become(r, state)
    BY <2>1
  <2> HIDE DEF state
  <2>4. Offers(r, state)
    BY <2>1, <2>2, <2>3 DEF Offers
  <2> QED
    BY <2>4
<1>7. CASE Approve(r)
  <2>1. /\ job[r].pc \in {"confirming", "replaced"} /\ UNCHANGED ingestVars
        /\ status' \in {status, [status EXCEPT ![job[r].target] = "ready"]}
        /\ Return(r) \/ Apply(r, job[r].target, ops'[job[r].target])
    BY <1>7 DEF Approve, PutIfChanged, Put
  <2>2. \A m \in Posts : status'[m] # status[m] =>
           status'[m] = "ready" /\ m = job[r].target
    BY <1>2, <2>1
  <2>3. CASE Return(r)
    BY <1>1, <2>1, <2>2, <2>3, ReturnStepOffers
  <2>4. CASE Apply(r, job[r].target, ops'[job[r].target])
    <3>1. PICK payload : payload = ops'[job[r].target]
      OBVIOUS
    <3> QED
      BY <1>1, <2>1, <2>2, <2>4, <3>1, ApplyStepOffers
  <2> QED
    BY <2>1, <2>3, <2>4
<1> QED
  BY <1>3, <1>4, <1>5, <1>6, <1>7

LEMMA FaultOffers ==
    ASSUME IInv, NEW j \in Jobs,
           CommitFails(j) \/ RefreshFails(j) \/ SessionBreaks(j) \/ Die(j)
    PROVE  \E state : Offers(j, state)
<1>1. UNCHANGED <<ingestVars, status>> /\ job[j] \in JobState
  BY DEF CommitFails, RefreshFails, SessionBreaks, Die, IInv, TypeOK
<1>2. CASE Return(j)
  BY <1>1, <1>2, ReturnStepOffers
<1>3. CASE Become(j, Ended)
  <2>1. Ended.own = Nil /\ Ended.target = Nil /\ Ended.pc = "ended"
    BY DEF Ended, Idle
  <2>2. Offers(j, Ended)
    BY <1>1, <1>3, <2>1 DEF Offers
  <2> QED
    BY <2>2
<1>4. CASE j \in Deliveries /\ RollBack(j)
  <2> DEFINE state == [job[j] EXCEPT !.pc = "failing", !.rows = {}, !.trail = {}]
  <2>1. Become(j, state)
    BY <1>4 DEF RollBack
  <2>2. /\ state.pc = "failing" /\ state.own = job[j].own
        /\ state.target = job[j].target
    BY <1>1 DEF JobState
  <2> HIDE DEF state
  <2>3. Offers(j, state)
    BY <1>1, <2>1, <2>2 DEF Offers
  <2> QED
    BY <2>3
<1> QED
  BY <1>2, <1>3, <1>4 DEF CommitFails, RefreshFails, SessionBreaks, Die, RollBack

\* every step is one of a message being posted or of one job
LEMMA StepOffers ==
    ASSUME IInv, Next
    PROVE  \/ UNCHANGED proposalVars /\ \E p \in Posts : Begin(p) \/ Accept(p) \/ Send(p)
           \/ \E j \in Jobs : \E state : Offers(j, state)
<1>1. Deliveries \subseteq Jobs /\ Requests \subseteq Jobs
  BY DEF Jobs
<1>2. ASSUME NEW d \in Deliveries, Work(d) \/ Kill(d) \/ \E m \in Posts : Deliver(d, m)
      PROVE  \E j \in Jobs : \E state : Offers(j, state)
  <2>1. CASE Applying(d)
    BY <1>1, <2>1, ApplyingOffers
  <2>2. CASE ~Applying(d)
    <3>1. \E state : Offers(d, state)
      BY <1>2, <2>2, DeliveryOffers DEF Work
    <3> QED
      BY <1>1, <3>1
  <2> QED
    BY <2>1, <2>2
<1>3. ASSUME NEW r \in Requests, Request(r)
      PROVE  \E j \in Jobs : \E state : Offers(j, state)
  <2>1. CASE Applying(r)
    BY <1>1, <2>1, ApplyingOffers
  <2>2. CASE ~Applying(r)
    <3>1. \E state : Offers(r, state)
      BY <1>3, <2>2, RequestOffers DEF Request
    <3> QED
      BY <1>1, <3>1
  <2> QED
    BY <2>1, <2>2
<1>4. ASSUME NEW j \in Jobs,
             CommitFails(j) \/ RefreshFails(j) \/ SessionBreaks(j) \/ Die(j)
      PROVE  \E k \in Jobs : \E state : Offers(k, state)
  BY <1>4, FaultOffers
<1> QED
  BY <1>2, <1>3, <1>4 DEF Next, Post

LEMMA UntouchedStep ==
    ASSUME IInv, Untouched, [Next]_vars
    PROVE  Untouched'
<1>1. CASE UNCHANGED proposalVars
  BY <1>1 DEF Untouched, proposalVars
<1>2. ASSUME NEW j \in Jobs, NEW state, Offers(j, state)
      PROVE  Untouched'
  <2>1. /\ job \in [Jobs -> JobState] /\ job' = [job EXCEPT ![j] = state]
        /\ status \in [Posts -> Status]
    BY <1>2 DEF IInv, TypeOK, Offers, Become
  <2>2. ASSUME NEW p \in Posts, status'[p] = "queued"
        PROVE  state.own # p /\ state.target # p
    <3>1. status[p] = "queued" /\ job[j].own # p /\ job[j].target # p /\ p # Nil
      BY <1>2, <2>2, NilIsNoPost DEF Offers, Untouched
    <3> QED
      BY <1>2, <2>2, <3>1 DEF Offers, Actionable
  <2>3. \A p \in Posts : status'[p] = "queued" => status[p] = "queued"
    BY <1>2 DEF Offers
  <2> QED
    BY <2>1, <2>2, <2>3 DEF Untouched
<1> QED
  BY <1>1, <1>2, StepOffers DEF vars

LEMMA PassedStep ==
    ASSUME IInv, NEW p \in Posts, Passed(p), [Next]_vars
    PROVE  Passed(p)'
<1>1. version \in Nat /\ stamp \in [Posts -> Nat] /\ job \in [Jobs -> JobState]
  BY DEF IInv, TypeOK
<1>2. CASE UNCHANGED vars
  BY <1>2 DEF Passed, vars, proposalVars, ingestVars, Stored
<1>3. ASSUME UNCHANGED proposalVars, NEW q \in Posts, Begin(q) \/ Accept(q) \/ Send(q)
      PROVE  Passed(p)'
  <2>1. stamp'[p] = stamp[p] /\ version' \in {version, version + 1}
    BY <1>1, <1>3 DEF Begin, Accept, Send, Passed, Stored
  <2>2. Stored(p)' /\ stamp'[p] < version'
    BY <1>1, <2>1 DEF Passed, Stored
  <2> QED
    BY <1>3, <2>2 DEF Passed, proposalVars
<1>4. ASSUME NEW j \in Jobs, NEW state, Offers(j, state)
      PROVE  Passed(p)'
  <2>1. /\ job' = [job EXCEPT ![j] = state] /\ UNCHANGED ingestVars
    BY <1>4 DEF Offers, Become
  <2>2. /\ state.pc = "current" => state.own # p
        /\ state.pc \in {"confirming", "replaced"} => state.target # p
    BY <1>1, <1>4 DEF Offers, Passed
  <2>3. \A k \in Jobs : /\ job'[k].pc = "current" => job'[k].own # p
                        /\ job'[k].pc \in {"confirming", "replaced"} => job'[k].target # p
    BY <1>1, <2>1, <2>2 DEF Passed
  <2>4. status'[p] \notin Actionable
    BY <1>4 DEF Offers, Passed
  <2>5. Stored(p)' /\ stamp'[p] < version'
    BY <2>1 DEF ingestVars, Passed, Stored
  <2> QED
    BY <2>3, <2>4, <2>5 DEF Passed
<1> QED
  BY <1>2, <1>3, <1>4, StepOffers

\* The version that the worker reads after the LLM call, and the check of the
\* status at the start of every request, keep the operations of an overtaken
\* message from the user for good.
THEOREM SupersededStaysHidden == Spec => SupersededNeverOffered
<1>1. Init => Untouched
  BY NilIsNoPost DEF Init, Untouched, Idle
<1>2. Spec => []Untouched
  BY <1>1, UntouchedStep, Invariant, PTL DEF Spec
<1>3. ASSUME NEW p \in Posts
      PROVE  Spec => []((Stored(p) /\ status[p] = "queued" /\ stamp[p] < version)
                            => [](status[p] \notin Actionable))
  <2>1. Untouched /\ Stored(p) /\ status[p] = "queued" /\ stamp[p] < version => Passed(p)
    BY DEF Untouched, Passed, Actionable
  <2>2. IInv /\ Passed(p) /\ [Next]_vars => Passed(p)'
    BY PassedStep
  <2>3. Passed(p) => status[p] \notin Actionable
    BY DEF Passed
  <2> QED
    BY <2>1, <2>2, <2>3, <1>2, Invariant, PTL DEF Spec
<1> QED
  BY <1>3 DEF SupersededNeverOffered

-----------------------------------------------------------------------------
(***************************************************************************)
(* An APPLIED proposal has had all its operations executed, for any        *)
(* messages, jobs, payloads and failures, unless its message was delivered *)
(* again.                                                                  *)
(*                                                                         *)
(* The argument: only a proposal's own delivery writes operations that it  *)
(* has not read, and only while the proposal is running; whoever else      *)
(* works on the proposal found it settled, hence after that.  So what is   *)
(* being applied are the operations as committed.                          *)
(***************************************************************************)

Settled(s) == s \notin {"queued", "running"}

\* a delivery that has yet to write its own proposal
Open(state) ==
    \/ state.pc \in {"routing", "deciding", "pipeline", "current", "superseded", "confirmed"}
    \/ state.pc = "applying" /\ state.target # state.own

Change(p, i, kind, j) == [prop |-> p, op |-> i, kind |-> kind, by |-> j]

\* the operations of p's list before the n-th, executed by j
DoneUpTo(p, plan, n, j, theItems) ==
    \A i \in 1..Len(plan) :
        (i < n /\ plan[i] # "skip") => Change(p, i, plan[i], j) \in theItems

Executed(p, plan, theItems) ==
    \A i \in 1..Len(plan) : plan[i] # "skip" =>
        \E j \in Jobs : Change(p, i, plan[i], j) \in theItems

JobFits(j, state, theStatus, theOps, theItems, theAgain) ==
    /\ state.pc = "idle" => state.own = Nil
    /\ state.target \in Posts \ theAgain => Settled(theStatus[state.target])
    /\ (state.pc \in {"applying", "confirming", "replaced"} /\ state.target \notin theAgain) =>
          state.plan = theOps[state.target]
    /\ state.pc = "applying" =>
          DoneUpTo(state.target, state.plan, state.step, j, theItems \union state.rows)
    /\ (j \in Deliveries /\ Open(state) /\ state.own \notin theAgain) =>
          theStatus[state.own] = "running"

AInv ==
    /\ \A j \in Jobs : JobFits(j, job[j], status, ops, items, again)
    /\ \A d, e \in Deliveries : (d # e /\ job[d].own # Nil) => job[d].own # job[e].own
    /\ \A p \in Posts \ again : status[p] = "applied" => Executed(p, ops[p], items)

-----------------------------------------------------------------------------
LEMMA Facts ==
    ASSUME IInv, AInv, NEW j \in Jobs
    PROVE  /\ job[j] \in JobState /\ JobOK(j, job[j], items)
           /\ JobFits(j, job[j], status, ops, items, again)
           /\ status \in [Posts -> Status] /\ ops \in [Posts -> Seq(Kinds)]
           /\ job \in [Jobs -> JobState]
           /\ j \in Deliveries /\ job[j].pc \notin {"idle", "ended"} => job[j].own \in Posts
BY DEF IInv, TypeOK, AInv, JobOK

\* What one job may do: settle proposals that are its own or settled already,
\* and write operations only of its own, as long as that is not settled.
LEMMA StepKeeps ==
    ASSUME IInv, AInv, NEW j \in Jobs, NEW state, Become(j, state),
           items \subseteq items', UNCHANGED again,
           \A m \in Posts \ again : status'[m] # status[m] =>
              /\ Settled(status'[m])
              /\ Settled(status[m]) \/ (j \in Deliveries /\ m = job[j].own),
           \A m \in Posts \ again : ops'[m] # ops[m] =>
              j \in Deliveries /\ m = job[j].own /\ ~Settled(status[m]),
           \A m \in Posts \ again : status'[m] = "applied" =>
              \/ status[m] = "applied" /\ ops'[m] = ops[m]
              \/ Executed(m, ops'[m], items'),
           JobFits(j, state, status', ops', items', again),
           j \in Deliveries => state.own \in {job[j].own, Nil}
    PROVE  AInv'
<1>1. /\ job'[j] = state
      /\ \A k \in Jobs \ {j} : job'[k] = job[k]
  BY DEF IInv, TypeOK, Become
<1>2. Deliveries \subseteq Jobs
  BY DEF Jobs
<1>3. ASSUME NEW k \in Jobs \ {j}
      PROVE  JobFits(k, job[k], status', ops', items', again)
  <2>1. /\ job[k] \in JobState /\ JobOK(k, job[k], items)
        /\ JobFits(k, job[k], status, ops, items, again)
    BY Facts
  <2>2. job[k].pc \in {"applying", "confirming", "replaced"} => job[k].target \in Posts
    BY <2>1 DEF JobOK
  <2>3. job[k].target \in Posts \ again => Settled(status'[job[k].target])
    BY <2>1 DEF JobFits
  <2>4. (job[k].pc \in {"applying", "confirming", "replaced"} /\ job[k].target \notin again) =>
           job[k].plan = ops'[job[k].target]
    BY <2>1, <2>2 DEF JobFits
  <2>5. job[k].pc = "applying" =>
           DoneUpTo(job[k].target, job[k].plan, job[k].step, k, items' \union job[k].rows)
    BY <2>1 DEF JobFits, DoneUpTo
  <2>6. ASSUME k \in Deliveries, Open(job[k]), job[k].own \notin again
        PROVE  status'[job[k].own] = "running"
    <3>1. status[job[k].own] = "running" /\ ~Settled(status[job[k].own])
      BY <2>1, <2>6 DEF JobFits, Settled
    <3>2. job[k].own \in Posts /\ job[k].own # Nil
      BY <2>1, <2>6, NilIsNoPost DEF JobOK, Open
    <3>3. ~(j \in Deliveries /\ job[k].own = job[j].own)
      BY <2>6, <3>2 DEF AInv
    <3> QED
      BY <2>6, <3>1, <3>2, <3>3
  <2> QED
    BY <2>1, <2>3, <2>4, <2>5, <2>6 DEF JobFits
<1>4. \A k \in Jobs : JobFits(k, job'[k], status', ops', items', again)
  BY <1>1, <1>3
<1>5. \A d, e \in Deliveries : (d # e /\ job'[d].own # Nil) => job'[d].own # job'[e].own
  <2> SUFFICES ASSUME NEW d \in Deliveries, NEW e \in Deliveries, d # e,
                      job'[d].own # Nil, job'[d].own = job'[e].own
               PROVE  FALSE
    OBVIOUS
  <2>1. /\ job'[d].own \in {job[d].own, Nil} /\ job'[e].own \in {job[e].own, Nil}
    BY <1>1, <1>2
  <2> QED
    BY <2>1 DEF AInv
<1>6. ASSUME NEW p \in Posts \ again, status'[p] = "applied"
      PROVE  Executed(p, ops'[p], items')
  BY <1>6 DEF AInv, Executed
<1> QED
  BY <1>4, <1>5, <1>6 DEF AInv

\* a job that does not touch proposals
LEMMA QuietKeeps ==
    ASSUME IInv, AInv, NEW j \in Jobs, NEW state, Become(j, state),
           items \subseteq items', UNCHANGED again,
           UNCHANGED <<status, ops>>,
           JobFits(j, state, status, ops, items', again),
           j \in Deliveries => state.own \in {job[j].own, Nil}
    PROVE  AInv'
<1>1. JobFits(j, state, status', ops', items', again)
  OBVIOUS
<1> QED
  BY <1>1, StepKeeps

LEMMA EndedFits ==
    /\ \A j, s, o, i, g : JobFits(j, Ended, s, o, i, g)
    /\ Ended.own = Nil
BY NilIsNoPost DEF Ended, Idle, JobFits, Open

LEMMA ReturnFits ==
    ASSUME NEW j \in Jobs, Return(j)
    PROVE  \E state : /\ Become(j, state)
                      /\ \A s, o, i, g : JobFits(j, state, s, o, i, g)
                      /\ j \in Deliveries => state.own = job[j].own
<1>1. CASE j \in Deliveries
  <2> DEFINE state == [Idle EXCEPT !.pc = "done", !.own = job[j].own]
  <2>1. state.pc = "done" /\ state.own = job[j].own /\ state.target = Nil
    BY DEF Idle
  <2>2. Become(j, state)
    BY <1>1 DEF Return
  <2> HIDE DEF state
  <2>3. \A s, o, i, g : JobFits(j, state, s, o, i, g)
    BY <2>1, NilIsNoPost DEF JobFits, Open
  <2> QED
    BY <2>1, <2>2, <2>3
<1>2. CASE j \notin Deliveries
  BY <1>2, EndedFits DEF Return
<1> QED
  BY <1>1, <1>2

\* a job that returns, with its proposal settled or with nothing written
LEMMA ReturnKeeps ==
    ASSUME IInv, AInv, NEW j \in Jobs, Return(j),
           items \subseteq items', UNCHANGED again,
           \A m \in Posts \ again : status'[m] # status[m] =>
              /\ Settled(status'[m])
              /\ Settled(status[m]) \/ (j \in Deliveries /\ m = job[j].own),
           \A m \in Posts \ again : ops'[m] # ops[m] =>
              j \in Deliveries /\ m = job[j].own /\ ~Settled(status[m]),
           \A m \in Posts \ again : status'[m] = "applied" =>
              \/ status[m] = "applied" /\ ops'[m] = ops[m]
              \/ Executed(m, ops'[m], items')
    PROVE  AInv'
<1>1. PICK state : /\ Become(j, state)
                   /\ \A s, o, i, g : JobFits(j, state, s, o, i, g)
                   /\ j \in Deliveries => state.own = job[j].own
  BY ReturnFits
<1>2. JobFits(j, state, status', ops', items', again)
  BY <1>1
<1> QED
  BY <1>1, <1>2, StepKeeps

LEMMA ApplyFits ==
    ASSUME IInv, NEW j \in Jobs, NEW p \in Posts, NEW payload \in Seq(Kinds),
           Apply(j, p, payload),
           NEW theStatus, NEW theOps, NEW theItems, NEW theAgain,
           p \notin theAgain => Settled(theStatus[p]) /\ payload = theOps[p],
           (j \in Deliveries /\ p # job[j].own /\ job[j].own \notin theAgain) =>
               theStatus[job[j].own] = "running"
    PROVE  \E state : /\ Become(j, state)
                      /\ JobFits(j, state, theStatus, theOps, theItems, theAgain)
                      /\ state.own = job[j].own
<1> DEFINE state == [job[j] EXCEPT !.pc = "applying", !.target = p,
                                   !.plan = payload, !.step = 1,
                                   !.rows = {}, !.trail = {}]
<1>1. job[j] \in JobState
  BY DEF IInv, TypeOK
<1>2. Become(j, state)
  BY DEF Apply
<1>3. /\ state.pc = "applying" /\ state.target = p /\ state.plan = payload
      /\ state.step = 1 /\ state.own = job[j].own
  BY <1>1 DEF JobState
<1> HIDE DEF state
<1>4. DoneUpTo(p, payload, 1, j, theItems \union state.rows)
  <2>1. \A i \in 1..Len(payload) : ~(i < 1)
    OBVIOUS
  <2> QED
    BY <2>1 DEF DoneUpTo
<1>5. JobFits(j, state, theStatus, theOps, theItems, theAgain)
  BY <1>3, <1>4 DEF JobFits, Open
<1> QED
  BY <1>2, <1>3, <1>5

LEMMA GotoKeeps ==
    ASSUME IInv, AInv, NEW d \in Deliveries, NEW pc \in DeliveryPCs,
           Goto(d, pc), UNCHANGED <<status, ops, items, again>>,
           Open(job[d])
    PROVE  AInv'
<1>1. d \in Jobs
  BY DEF Jobs
<1>2. job[d] \in JobState /\ JobFits(d, job[d], status, ops, items, again)
  BY <1>1, Facts
<1> DEFINE state == [job[d] EXCEPT !.pc = pc]
<1>3. state.pc = pc /\ state.own = job[d].own /\ state.target = job[d].target
  BY <1>2 DEF JobState
<1>4. Become(d, state)
  BY DEF Goto
<1> HIDE DEF state
<1>5. JobFits(d, state, status, ops, items', again)
  BY <1>2, <1>3 DEF JobFits, DeliveryPCs
<1> QED
  BY <1>1, <1>3, <1>4, <1>5, QuietKeeps

-----------------------------------------------------------------------------
(* apply_proposal *)

LEMMA OperationKeeps ==
    ASSUME IInv, AInv, NEW j \in Jobs,
           SkipOp(j) \/ CreateOp(j) \/ ChangeOp(j), UNCHANGED again
    PROVE  AInv'
<1>1. /\ job[j] \in JobState /\ JobOK(j, job[j], items)
      /\ JobFits(j, job[j], status, ops, items, again)
  BY Facts
<1> DEFINE p == job[j].target
           plan == job[j].plan
           n == job[j].step
           kind == job[j].plan[job[j].step]
<1>2. /\ job[j].pc = "applying" /\ n <= Len(plan)
      /\ SkipOp(j) => kind = "skip"
      /\ CreateOp(j) => kind = "create"
      /\ ChangeOp(j) => kind = "change"
  BY DEF SkipOp, CreateOp, ChangeOp, NextOp, At
<1>3. n \in 1..Len(plan) /\ plan \in Seq(Kinds) /\ n \in Nat
  BY <1>1, <1>2 DEF JobState
<1>4. PICK rows, trail : Become(j, [job[j] EXCEPT !.step = n + 1, !.rows = rows, !.trail = trail])
                  /\ items \subseteq items'
                  /\ items \union job[j].rows \subseteq items' \union rows
                  /\ (kind # "skip" => TheChange(j, kind) \in items' \union rows)
  <2>1. CASE SkipOp(j)
    <3>1. [job[j] EXCEPT !.step = n + 1]
             = [job[j] EXCEPT !.step = n + 1, !.rows = job[j].rows, !.trail = job[j].trail]
      BY <1>1 DEF JobState
    <3> QED
      BY <1>2, <2>1, <3>1 DEF SkipOp
  <2>2. CASE CreateOp(j)
    <3> DEFINE c == TheChange(j, "create")
    <3>1. /\ Become(j, [job[j] EXCEPT !.step = n + 1, !.rows = job[j].rows \union {c},
                                     !.trail = job[j].trail \union {c}])
          /\ items' = items
      BY <2>2 DEF CreateOp
    <3>2. c \in job[j].rows \union {c}
      OBVIOUS
    <3> HIDE DEF c
    <3>3. items \union job[j].rows \subseteq items' \union (job[j].rows \union {c})
      BY <3>1
    <3> QED
      BY <1>2, <2>2, <3>1, <3>2, <3>3 DEF c
  <2>3. CASE ChangeOp(j)
    BY <1>2, <2>3 DEF ChangeOp, UpdateCommits
  <2> QED
    BY <2>1, <2>2, <2>3
<1>5. UNCHANGED <<status, ops>>
  BY DEF SkipOp, CreateOp, ChangeOp
<1> DEFINE state == [job[j] EXCEPT !.step = n + 1, !.rows = rows, !.trail = trail]
<1>6. /\ state.pc = "applying" /\ state.own = job[j].own /\ state.target = p
      /\ state.plan = plan /\ state.step = n + 1 /\ state.rows = rows
  BY <1>1, <1>2, <1>3 DEF JobState
<1> HIDE DEF state
<1>7. DoneUpTo(p, plan, n + 1, j, items' \union rows)
  <2> SUFFICES ASSUME NEW i \in 1..Len(plan), i < n + 1, plan[i] # "skip"
               PROVE  Change(p, i, plan[i], j) \in items' \union rows
    BY DEF DoneUpTo
  <2>1. CASE i < n
    BY <1>1, <1>2, <1>4, <2>1 DEF JobFits, DoneUpTo
  <2>2. CASE i = n
    BY <1>3, <1>4, <2>2 DEF TheChange, Change
  <2> QED
    BY <1>3, <2>1, <2>2
<1>8. JobFits(j, state, status, ops, items', again)
  BY <1>1, <1>2, <1>6, <1>7 DEF JobFits, Open
<1> QED
  BY <1>4, <1>5, <1>6, <1>8, QuietKeeps DEF state

LEMMA FinishKeeps ==
    ASSUME IInv, AInv, NEW j \in Jobs, FinishApply(j), UNCHANGED again
    PROVE  AInv'
<1>1. /\ job[j] \in JobState /\ JobOK(j, job[j], items)
      /\ JobFits(j, job[j], status, ops, items, again)
      /\ status \in [Posts -> Status]
  BY Facts
<1> DEFINE p == job[j].target
           plan == job[j].plan
<1>2. /\ job[j].pc = "applying" /\ job[j].step > Len(plan)
      /\ status' = [status EXCEPT ![p] = "applied"]
      /\ items' = items \union job[j].rows
      /\ AfterApply(j) /\ UNCHANGED ops
  BY DEF FinishApply, At, Put, Commit
<1>3. /\ p \in Posts
      /\ p \notin again => Settled(status[p]) /\ plan = ops[p]
      /\ DoneUpTo(p, plan, job[j].step, j, items')
      /\ j \in Deliveries => job[j].own \in Posts
  BY <1>1, <1>2 DEF JobOK, JobFits
<1>4. plan \in Seq(Kinds) /\ job[j].step \in Nat
  BY <1>1 DEF JobState
<1>5. Executed(p, plan, items')
  <2>1. \A i \in 1..Len(plan) : i < job[j].step
    BY <1>2, <1>4
  <2> QED
    BY <1>2, <1>3, <2>1 DEF Executed, DoneUpTo
<1>6. /\ \A m \in Posts \ again :
            status'[m] # status[m] => Settled(status'[m]) /\ Settled(status[m])
      /\ \A m \in Posts \ again : status'[m] = "applied" =>
            \/ status[m] = "applied" /\ ops'[m] = ops[m]
            \/ Executed(m, ops'[m], items')
      /\ Settled(status'[p])
  BY <1>1, <1>2, <1>3, <1>5 DEF Settled
<1>7. CASE j \in Deliveries /\ p # job[j].own
  <2> DEFINE state == [job[j] EXCEPT !.pc = "confirmed", !.rows = {}, !.trail = {}]
  <2>1. Become(j, state)
    BY <1>2, <1>7 DEF AfterApply
  <2>2. state.pc = "confirmed" /\ state.own = job[j].own /\ state.target = p
    BY <1>1 DEF JobState
  <2> HIDE DEF state
  <2>3. job[j].own \notin again => status'[job[j].own] = "running"
    BY <1>1, <1>2, <1>3, <1>7 DEF JobFits, Open
  <2>4. JobFits(j, state, status', ops', items', again)
    BY <1>6, <2>2, <2>3 DEF JobFits
  <2> QED
    BY <1>2, <1>6, <2>1, <2>2, <2>4, StepKeeps
<1>8. CASE ~(j \in Deliveries /\ p # job[j].own)
  <2>1. Return(j)
    BY <1>2, <1>8 DEF AfterApply
  <2> QED
    BY <1>2, <1>6, <2>1, ReturnKeeps
<1> QED
  BY <1>7, <1>8

-----------------------------------------------------------------------------
(* Deliveries *)

\* A message that is delivered for the first time is queued: nobody has settled
\* or taken up its proposal.
LEMMA DeliverKeeps ==
    ASSUME IInv, AInv, NEW d \in Deliveries, NEW m \in Posts, Deliver(d, m),
           again \subseteq again', status[m] # "queued" => m \in again'
    PROVE  AInv'
<1>1. d \in Jobs /\ Deliveries \subseteq Jobs
  BY DEF Jobs
<1>2. /\ job[d] \in JobState /\ JobFits(d, job[d], status, ops, items, again)
      /\ status \in [Posts -> Status] /\ job \in [Jobs -> JobState]
  BY <1>1, Facts
<1> DEFINE state == [job[d] EXCEPT !.pc = "routing", !.own = m]
<1>3. /\ job[d].pc = "idle" /\ ~Held(m)
      /\ status' = [status EXCEPT ![m] = "running"]
      /\ Become(d, state) /\ UNCHANGED <<ops, items>>
  BY DEF Deliver, At, Put
<1>4. state.pc = "routing" /\ state.own = m /\ state.target = job[d].target
  BY <1>2 DEF JobState
<1> HIDE DEF state
<1>5. /\ status'[m] = "running"
      /\ \A p \in Posts : p # m => status'[p] = status[p]
      /\ \A p \in Posts \ again' : Settled(status[p]) => status'[p] = status[p]
  BY <1>2, <1>3 DEF Settled
<1>6. /\ job'[d] = state /\ \A k \in Jobs \ {d} : job'[k] = job[k]
  BY <1>1, <1>2, <1>3 DEF Become
<1>7. JobFits(d, state, status', ops', items', again')
  <2>1. state.target \in Posts \ again' => Settled(status'[state.target])
    BY <1>2, <1>4, <1>5 DEF JobFits
  <2> QED
    BY <1>4, <1>5, <2>1 DEF JobFits
<1>8. ASSUME NEW k \in Jobs \ {d}
      PROVE  JobFits(k, job[k], status', ops', items', again')
  <2>1. /\ job[k] \in JobState /\ JobOK(k, job[k], items)
        /\ JobFits(k, job[k], status, ops, items, again)
    BY Facts
  <2>2. job[k].target \in Posts \ again' => Settled(status'[job[k].target])
    BY <1>5, <2>1 DEF JobFits
  <2>3. ASSUME k \in Deliveries, Open(job[k]), job[k].own \notin again'
        PROVE  status'[job[k].own] = "running"
    <3>1. job[k].own \in Posts /\ job[k].own # m
      BY <1>3, <2>1, <2>3 DEF JobOK, Open, Held
    <3> QED
      BY <1>5, <2>1, <2>3, <3>1 DEF JobFits
  <2> QED
    BY <1>3, <2>1, <2>2, <2>3 DEF JobFits
<1>9. \A k \in Jobs : JobFits(k, job'[k], status', ops', items', again')
  BY <1>6, <1>7, <1>8
<1>10. \A c, e \in Deliveries : (c # e /\ job'[c].own # Nil) => job'[c].own # job'[e].own
  <2>1. \A e \in Deliveries : job[e].own # m
    BY <1>3 DEF Held
  <2> QED
    BY <1>1, <1>4, <1>6, <2>1 DEF AInv
<1>11. \A p \in Posts \ again' : status'[p] = "applied" => Executed(p, ops'[p], items')
  BY <1>3, <1>5 DEF AInv
<1> QED
  BY <1>9, <1>10, <1>11 DEF AInv

\* a delivery that writes its own proposal
LEMMA OwnKeeps ==
    ASSUME IInv, AInv, NEW d \in Deliveries, NEW s, NEW payload \in Seq(Kinds),
           Put(job[d].own, s), PutOps(job[d].own, payload),
           Settled(s), s = "applied" => payload = <<>>,
           job[d].pc \in {"current", "superseded", "confirmed"},
           UNCHANGED <<items, again>>,
           Return(d) \/ (s = "ready" /\ Apply(d, job[d].own, payload))
    PROVE  AInv'
<1>1. d \in Jobs
  BY DEF Jobs
<1>2. /\ job[d].own \in Posts
      /\ job[d].own \notin again => status[job[d].own] = "running"
      /\ status \in [Posts -> Status] /\ ops \in [Posts -> Seq(Kinds)]
  BY <1>1, Facts DEF JobFits, Open
<1>3. PICK p \in Posts : p = job[d].own
  BY <1>2
<1>4. /\ status' = [status EXCEPT ![p] = s] /\ ops' = [ops EXCEPT ![p] = payload]
      /\ status'[p] = s /\ ops'[p] = payload
      /\ p \notin again => status[p] = "running"
      /\ \A m \in Posts : m # p => status'[m] = status[m] /\ ops'[m] = ops[m]
  BY <1>2, <1>3 DEF Put, PutOps
<1>5. /\ \A m \in Posts \ again : status'[m] # status[m] =>
            /\ Settled(status'[m])
            /\ Settled(status[m]) \/ (d \in Deliveries /\ m = job[d].own)
      /\ \A m \in Posts \ again : ops'[m] # ops[m] =>
            d \in Deliveries /\ m = job[d].own /\ ~Settled(status[m])
  BY <1>3, <1>4 DEF Settled
<1>6. \A m \in Posts \ again : status'[m] = "applied" =>
         \/ status[m] = "applied" /\ ops'[m] = ops[m]
         \/ Executed(m, ops'[m], items')
  <2>1. Executed(p, <<>>, items')
    BY DEF Executed
  <2> QED
    BY <1>4, <2>1
<1>7. CASE Return(d)
  BY <1>1, <1>5, <1>6, <1>7, ReturnKeeps
<1>8. CASE s = "ready" /\ Apply(d, job[d].own, payload)
  <2>1. Settled(status'[p]) /\ payload = ops'[p] /\ Apply(d, p, payload)
    BY <1>3, <1>4, <1>8
  <2>2. \E state : /\ Become(d, state)
                   /\ JobFits(d, state, status', ops', items', again)
                   /\ state.own = job[d].own
    <3>1. d \in Deliveries /\ p # job[d].own => status'[job[d].own] = "running"
      BY <1>3
    <3>2. PICK x, y, z, g : x = status' /\ y = ops' /\ z = items' /\ g = again
      OBVIOUS
    <3>3. /\ p \notin g => Settled(x[p]) /\ payload = y[p]
          /\ (d \in Deliveries /\ p # job[d].own /\ job[d].own \notin g) =>
                x[job[d].own] = "running"
      BY <2>1, <3>1, <3>2
    <3>4. \E state : /\ Become(d, state)
                     /\ JobFits(d, state, x, y, z, g)
                     /\ state.own = job[d].own
      BY <1>1, <2>1, <3>3, ApplyFits, Z3T(60)
    <3> QED
      BY <3>2, <3>4
  <2> QED
    BY <1>1, <1>5, <1>6, <2>2, StepKeeps
<1> QED
  BY <1>7, <1>8

LEMMA DeliveryKeeps ==
    ASSUME IInv, AInv, NEW d \in Deliveries,
           \/ FindActive(d)
           \/ ConfirmByChat(d) \/ RejectByChat(d) \/ Continue(d)
           \/ CheckStale(d)
           \/ \E payload \in Payloads :
                 MarkStale(d, payload) \/ AskConfirmation(d, payload)
                 \/ NoOp(d, payload) \/ MakeReady(d, payload)
           \/ AckOwn(d) \/ MarkFailed(d) \/ Ack(d) \/ Kill(d),
           UNCHANGED again
    PROVE  AInv'
<1>1. d \in Jobs
  BY DEF Jobs
<1>2. /\ job[d] \in JobState /\ JobOK(d, job[d], items)
      /\ JobFits(d, job[d], status, ops, items, again)
      /\ status \in [Posts -> Status] /\ ops \in [Posts -> Seq(Kinds)]
      /\ job[d].pc \notin {"idle", "ended"} => job[d].own \in Posts
  BY <1>1, Facts
<1>3. Payloads \subseteq Seq(Kinds) /\ <<>> \in Seq(Kinds)
  BY PayloadsAssumption
<1>4. CASE FindActive(d)
  <2>1. /\ job[d].pc = "routing" /\ UNCHANGED <<status, ops, items>>
    BY <1>4 DEF FindActive, At
  <2>2. /\ Open(job[d])
        /\ job[d].own \notin again => status[job[d].own] = "running"
    BY <1>2, <2>1 DEF Open, JobFits
  <2>3. ASSUME NEW p \in Posts, status[p] = "needs_confirmation",
               Become(d, [job[d] EXCEPT !.pc = "deciding", !.target = p])
        PROVE  AInv'
    <3> DEFINE state == [job[d] EXCEPT !.pc = "deciding", !.target = p]
    <3>1. state.pc = "deciding" /\ state.target = p /\ state.own = job[d].own
      BY <1>2 DEF JobState
    <3>2. Become(d, state)
      BY <2>3
    <3> HIDE DEF state
    <3>3. JobFits(d, state, status, ops, items', again)
      BY <2>2, <2>3, <3>1 DEF JobFits, Settled
    <3> QED
      BY <1>1, <2>1, <3>1, <3>2, <3>3, QuietKeeps
  <2>4. CASE Goto(d, "deciding")
    BY <2>1, <2>2, <2>4, GotoKeeps DEF DeliveryPCs
  <2> QED
    BY <1>4, <2>3, <2>4 DEF FindActive, Active
<1>5. CASE ConfirmByChat(d)
  <2> DEFINE p == job[d].target
  <2>1. /\ job[d].pc = "deciding" /\ p # Nil /\ UNCHANGED <<status, ops, items>>
        /\ \/ status[p] \in Actionable /\ Apply(d, p, ops[p])
           \/ Goto(d, "confirmed") \/ Goto(d, "pipeline")
    BY <1>5 DEF ConfirmByChat, At
  <2>2. p \in Posts /\ ops[p] \in Seq(Kinds)
    BY <1>2, <2>1 DEF JobState
  <2>3. /\ Open(job[d])
        /\ job[d].own \notin again => status[job[d].own] = "running"
    BY <1>2, <2>1 DEF Open, JobFits
  <2> HIDE DEF p
  <2>4. CASE status[p] \in Actionable /\ Apply(d, p, ops[p])
    <3>1. Settled(status[p])
      BY <2>4 DEF Settled, Actionable
    <3>2. \E state : /\ Become(d, state)
                     /\ JobFits(d, state, status, ops, items', again)
                     /\ state.own = job[d].own
      BY <1>1, <2>2, <2>3, <2>4, <3>1, ApplyFits
    <3> QED
      BY <1>1, <2>1, <3>2, QuietKeeps
  <2>5. CASE Goto(d, "confirmed") \/ Goto(d, "pipeline")
    BY <2>1, <2>3, <2>5, GotoKeeps DEF DeliveryPCs
  <2> QED
    BY <2>1, <2>4, <2>5
<1>6. CASE RejectByChat(d)
  <2>1. /\ job[d].pc = "deciding" /\ job[d].target # Nil
        /\ status' = [status EXCEPT ![job[d].target] = "canceled",
                                    ![job[d].own] = "canceled"]
        /\ Return(d) /\ UNCHANGED <<ops, items>>
    BY <1>6 DEF RejectByChat, At
  <2>2. job[d].target \notin again => Settled(status[job[d].target])
    BY <1>2, <2>1 DEF JobFits, JobState
  <2>3. \A m \in Posts \ again : status'[m] # status[m] =>
           /\ status'[m] = "canceled"
           /\ Settled(status[m]) \/ m = job[d].own
    BY <1>2, <2>1, <2>2
  <2>4. \A m \in Posts \ again : status'[m] = "applied" => status[m] = "applied"
    BY <2>3
  <2> QED
    BY <1>1, <2>1, <2>3, <2>4, ReturnKeeps DEF Settled
<1>7. CASE Continue(d) \/ CheckStale(d)
  <2>1. /\ job[d].pc \in {"deciding", "pipeline"} /\ UNCHANGED <<status, ops, items>>
        /\ Goto(d, "pipeline") \/ Goto(d, "current") \/ Goto(d, "superseded")
    BY <1>7 DEF Continue, CheckStale, At
  <2>2. Open(job[d])
    BY <2>1 DEF Open
  <2> QED
    BY <2>1, <2>2, GotoKeeps DEF DeliveryPCs
<1>8. ASSUME NEW payload \in Payloads,
             MarkStale(d, payload) \/ AskConfirmation(d, payload)
             \/ NoOp(d, payload) \/ MakeReady(d, payload)
      PROVE  AInv'
  <2>1. PICK s \in {"stale", "needs_confirmation", "applied", "ready"} :
           /\ Put(job[d].own, s) /\ PutOps(job[d].own, payload)
           /\ s = "applied" => payload = <<>>
           /\ Return(d) \/ (s = "ready" /\ Apply(d, job[d].own, payload))
           /\ job[d].pc \in {"current", "superseded"}
           /\ UNCHANGED items
    <3>1. CASE MarkStale(d, payload)
      BY <3>1 DEF MarkStale, At
    <3>2. CASE AskConfirmation(d, payload)
      BY <3>2 DEF AskConfirmation, At
    <3>3. CASE NoOp(d, payload)
      BY <3>3 DEF NoOp, At
    <3>4. CASE MakeReady(d, payload)
      BY <3>4 DEF MakeReady, At
    <3> QED
      BY <1>8, <3>1, <3>2, <3>3, <3>4
  <2> QED
    BY <1>3, <2>1, OwnKeeps DEF Settled
<1>9. CASE AckOwn(d)
  <2>1. /\ Put(job[d].own, "applied") /\ PutOps(job[d].own, <<>>) /\ Return(d)
        /\ job[d].pc = "confirmed" /\ UNCHANGED items
    BY <1>9 DEF AckOwn, At
  <2>2. Settled("applied")
    BY DEF Settled
  <2> QED
    BY <1>3, <2>1, <2>2, OwnKeeps
<1>10. CASE MarkFailed(d)
  <2>1. /\ status' = [status EXCEPT ![job[d].own] = "failed"]
        /\ Return(d) /\ items \subseteq items' /\ UNCHANGED <<ops>>
    BY <1>10 DEF MarkFailed, Put, Commit
  <2>2. \A m \in Posts \ again : status'[m] # status[m] =>
           status'[m] = "failed" /\ m = job[d].own
    BY <1>2, <2>1
  <2>3. \A m \in Posts \ again : status'[m] = "applied" => status[m] = "applied"
    BY <2>2
  <2> QED
    BY <1>1, <2>1, <2>2, <2>3, ReturnKeeps DEF Settled
<1>11. CASE Ack(d) \/ Kill(d)
  <2>1. Become(d, Ended) /\ UNCHANGED <<status, ops, items>>
    BY <1>11 DEF Ack, Kill
  <2> QED
    BY <1>1, <2>1, EndedFits, QuietKeeps
<1> QED
  BY <1>4, <1>5, <1>6, <1>7, <1>8, <1>9, <1>10, <1>11

-----------------------------------------------------------------------------
(* Requests, and what goes wrong *)

LEMMA RequestKeeps ==
    ASSUME IInv, AInv, NEW r \in Requests,
           \/ \E p \in Posts : ApplyRequest(r, p) \/ ConfirmRequest(r, p)
           \/ CancelNew(r) \/ AskAgain(r) \/ ReplaceExisting(r) \/ Approve(r),
           UNCHANGED again
    PROVE  AInv'
<1>1. r \in Jobs /\ r \notin Deliveries
  BY JobsAssumption DEF Jobs
<1>2. /\ job[r] \in JobState /\ JobOK(r, job[r], items)
      /\ JobFits(r, job[r], status, ops, items, again)
      /\ status \in [Posts -> Status] /\ ops \in [Posts -> Seq(Kinds)]
  BY <1>1, Facts
<1> DEFINE t == job[r].target
<1>3. job[r].pc \in {"confirming", "replaced"} =>
         /\ t \in Posts /\ job[r].plan \in Seq(Kinds)
         /\ t \notin again => Settled(status[t]) /\ job[r].plan = ops[t]
  BY <1>2 DEF JobOK, JobFits, JobState
<1>4. ASSUME NEW p \in Posts, ApplyRequest(r, p)
      PROVE  AInv'
  <2>1. /\ status[p] \in Actionable /\ UNCHANGED <<status, ops, items>>
        /\ Return(r) \/ Apply(r, p, ops[p])
    BY <1>4 DEF ApplyRequest
  <2>2. CASE Return(r)
    BY <1>1, <2>1, <2>2, ReturnKeeps
  <2>3. CASE Apply(r, p, ops[p])
    <3>1. Settled(status[p]) /\ ops[p] \in Seq(Kinds)
      BY <1>2, <2>1 DEF Settled, Actionable
    <3>2. \E state : /\ Become(r, state)
                     /\ JobFits(r, state, status, ops, items', again)
                     /\ state.own = job[r].own
      BY <1>1, <2>1, <2>3, <3>1, ApplyFits, Z3T(60)
    <3> QED
      BY <1>1, <2>1, <3>2, QuietKeeps
  <2> QED
    BY <2>1, <2>2, <2>3
<1>5. ASSUME NEW p \in Posts, ConfirmRequest(r, p)
      PROVE  AInv'
  <2> DEFINE state == [job[r] EXCEPT !.pc = "confirming", !.target = p,
                                     !.plan = ops[p], !.seen = status[p]]
  <2>1. /\ status[p] \in Actionable /\ UNCHANGED <<status, ops, items>>
        /\ Become(r, state)
    BY <1>5 DEF ConfirmRequest
  <2>2. state.pc = "confirming" /\ state.target = p /\ state.plan = ops[p]
    BY <1>2 DEF JobState
  <2> HIDE DEF state
  <2>3. JobFits(r, state, status, ops, items', again)
    BY <1>1, <2>1, <2>2 DEF JobFits, Settled, Actionable
  <2> QED
    BY <1>1, <2>1, <2>3, QuietKeeps
<1>6. CASE CancelNew(r)
  <2>1. /\ job[r].pc = "confirming" /\ status' = [status EXCEPT ![t] = "canceled"]
        /\ Return(r) /\ UNCHANGED <<ops, items>>
    BY <1>6 DEF CancelNew, At, Put
  <2>2. \A m \in Posts \ again : status'[m] # status[m] =>
           status'[m] = "canceled" /\ Settled(status[m])
    BY <1>2, <1>3, <2>1
  <2>3. \A m \in Posts \ again : status'[m] = "applied" => status[m] = "applied"
    BY <2>2
  <2> QED
    BY <1>1, <2>1, <2>2, <2>3, ReturnKeeps DEF Settled
<1>7. CASE AskAgain(r)
  <2>1. /\ job[r].pc = "confirming"
        /\ status' \in {status, [status EXCEPT ![t] = "needs_confirmation"]}
        /\ ops' = [ops EXCEPT ![t] = job[r].plan]
        /\ Return(r) /\ UNCHANGED items
    BY <1>7 DEF AskAgain, At, PutIfChanged, Put, PutOps
  <2>2. \A m \in Posts \ again : ops'[m] = ops[m]
    BY <1>2, <1>3, <2>1
  <2>3. \A m \in Posts \ again : status'[m] # status[m] =>
           status'[m] = "needs_confirmation" /\ Settled(status[m])
    BY <1>2, <1>3, <2>1
  <2>4. \A m \in Posts \ again : status'[m] = "applied" => status[m] = "applied"
    BY <2>3
  <2> QED
    BY <1>1, <2>1, <2>2, <2>3, <2>4, ReturnKeeps DEF Settled
<1>8. CASE ReplaceExisting(r)
  <2>1. PICK c \in Replacements(r) :
           /\ UpdateCommits(r, c)
           /\ Become(r, [job[r] EXCEPT !.pc = "replaced", !.step = c.op + 1, !.trail = {c}])
           /\ UNCHANGED <<status, ops>>
    BY <1>8 DEF ReplaceExisting
  <2> DEFINE state == [job[r] EXCEPT !.pc = "replaced", !.step = c.op + 1, !.trail = {c}]
  <2>2. state.pc = "replaced" /\ state.target = t /\ state.plan = job[r].plan
    BY <1>2 DEF JobState
  <2>3. Become(r, state)
    BY <2>1
  <2>4. job[r].pc \in {"confirming", "replaced"} /\ items \subseteq items'
    BY <2>1 DEF Replacements, UpdateCommits
  <2> HIDE DEF state
  <2>5. JobFits(r, state, status, ops, items', again)
    BY <1>1, <1>2, <2>2, <2>4 DEF JobFits
  <2> QED
    BY <1>1, <2>1, <2>3, <2>4, <2>5, QuietKeeps
<1>9. CASE Approve(r)
  <2>1. /\ job[r].pc \in {"confirming", "replaced"}
        /\ status' \in {status, [status EXCEPT ![t] = "ready"]}
        /\ ops' \in {ops, [ops EXCEPT ![t] = job[r].plan]}
        /\ items \subseteq items'
        /\ Return(r) \/ Apply(r, t, ops'[t])
    BY <1>9 DEF Approve, PutIfChanged, Put, PutOps, Commit
  <2>2. /\ \A m \in Posts \ again : ops'[m] = ops[m]
        /\ t \in Posts /\ ops'[t] \in Seq(Kinds)
    BY <1>2, <1>3, <2>1
  <2>3. /\ \A m \in Posts \ again : status'[m] # status[m] =>
              status'[m] = "ready" /\ Settled(status[m])
        /\ t \notin again => Settled(status'[t])
    BY <1>2, <1>3, <2>1 DEF Settled
  <2>4. \A m \in Posts \ again : status'[m] = "applied" => status[m] = "applied"
    BY <2>3
  <2>5. \A m \in Posts \ again : status'[m] # status[m] => Settled(status'[m]) /\ Settled(status[m])
    BY <2>3 DEF Settled
  <2>6. CASE Return(r)
    BY <1>1, <2>1, <2>2, <2>4, <2>5, <2>6, ReturnKeeps
  <2>7. CASE Apply(r, t, ops'[t])
    <3>1. PICK x, y, z, g : x = status' /\ y = ops' /\ z = items' /\ g = again
      OBVIOUS
    <3>2. PICK p \in Posts, payload \in Seq(Kinds) : p = t /\ payload = ops'[t]
      BY <2>2
    <3>3. /\ p \notin g => Settled(x[p]) /\ payload = y[p]
          /\ Apply(r, p, payload)
          /\ (r \in Deliveries /\ p # job[r].own /\ job[r].own \notin g) =>
                x[job[r].own] = "running"
      BY <1>1, <2>2, <2>3, <2>7, <3>1, <3>2
    <3>4. \E state : /\ Become(r, state)
                     /\ JobFits(r, state, x, y, z, g)
                     /\ state.own = job[r].own
      BY <1>1, <3>3, ApplyFits, Z3T(60)
    <3>5. PICK state : Become(r, state) /\ JobFits(r, state, status', ops', items', again)
      BY <3>1, <3>4
    <3> QED
      BY <1>1, <2>1, <2>2, <2>4, <2>5, <3>5, StepKeeps
  <2> QED
    BY <2>1, <2>6, <2>7
<1> QED
  BY <1>4, <1>5, <1>6, <1>7, <1>8, <1>9

LEMMA FaultKeeps ==
    ASSUME IInv, AInv, NEW j \in Jobs,
           CommitFails(j) \/ RefreshFails(j) \/ SessionBreaks(j) \/ Die(j),
           UNCHANGED again
    PROVE  AInv'
<1>1. UNCHANGED <<status, ops>> /\ items \subseteq items'
  BY DEF CommitFails, RefreshFails, UpdateCommits, SessionBreaks, Die
<1>2. job[j] \in JobState /\ JobFits(j, job[j], status, ops, items, again)
  BY Facts
<1>3. CASE Return(j)
  <2>1. \A m \in Posts : status'[m] = status[m] /\ ops'[m] = ops[m]
    BY <1>1
  <2> QED
    BY <1>1, <1>3, <2>1, ReturnKeeps
<1>4. CASE Die(j)
  <2>1. Become(j, Ended)
    BY <1>4 DEF Die
  <2> QED
    BY <1>1, <2>1, EndedFits, QuietKeeps
<1>5. CASE j \in Deliveries /\ RollBack(j)
  <2> DEFINE state == [job[j] EXCEPT !.pc = "failing", !.rows = {}, !.trail = {}]
  <2>1. Become(j, state)
    BY <1>5 DEF RollBack
  <2>2. state.pc = "failing" /\ state.own = job[j].own /\ state.target = job[j].target
    BY <1>2 DEF JobState
  <2> HIDE DEF state
  <2>3. JobFits(j, state, status, ops, items', again)
    BY <1>2, <2>2 DEF JobFits, Open
  <2> QED
    BY <1>1, <2>1, <2>2, <2>3, QuietKeeps
<1> QED
  BY <1>3, <1>4, <1>5 DEF CommitFails, RefreshFails, RollBack, SessionBreaks

LEMMA AInvStart == InitH => AInv
<1> SUFFICES ASSUME InitH PROVE AInv
  OBVIOUS
<1>1. \A j \in Jobs : job[j] = Idle
  BY DEF InitH, Init
<1>2. Idle.pc = "idle" /\ Idle.own = Nil /\ Idle.target = Nil
  BY DEF Idle
<1>3. \A j \in Jobs : JobFits(j, job[j], status, ops, items, again)
  BY <1>1, <1>2, NilIsNoPost DEF JobFits, Open
<1>4. \A d \in Deliveries : job[d].own = Nil
  BY <1>1, <1>2 DEF Jobs
<1>5. \A p \in Posts : status[p] = "queued"
  BY DEF InitH, Init
<1> QED
  BY <1>3, <1>4, <1>5 DEF AInv

LEMMA Remembered == NextH => Next /\ Remember
BY DEF NextH, Next

\* A second delivery is the one step that adds to again.
LEMMA AgainGrows ==
    ASSUME Remember
    PROVE  /\ again \subseteq again'
           /\ \A m \in Posts : (\E d \in Deliveries : Deliver(d, m)) /\ status[m] # "queued"
                 => m \in again'
           /\ (\A d \in Deliveries, m \in Posts : ~Deliver(d, m)) => again' = again
BY DEF Remember

LEMMA AInvStep ==
    ASSUME IInv, AInv, [NextH]_<<vars, history>>
    PROVE  AInv'
<1>1. CASE UNCHANGED <<proposalVars, again>>
  BY <1>1 DEF proposalVars, AInv
<1>2. CASE UNCHANGED <<vars, history>>
  BY <1>1, <1>2 DEF vars, history, proposalVars
<1>3. CASE Next /\ Remember
  <2>1. CASE \E d \in Deliveries, m \in Posts : Deliver(d, m)
    BY <1>3, <2>1, AgainGrows, DeliverKeeps
  <2>2. CASE \A d \in Deliveries, m \in Posts : ~Deliver(d, m)
    <3>1. UNCHANGED again
      BY <1>3, <2>2, AgainGrows
    <3>2. Deliveries \subseteq Jobs /\ Requests \subseteq Jobs
      BY DEF Jobs
    <3>3. ASSUME NEW j \in Jobs, Applying(j)
          PROVE  AInv'
      BY <3>1, <3>3, OperationKeeps, FinishKeeps DEF Applying
    <3>4. ASSUME NEW p \in Posts, Post(p)
          PROVE  AInv'
      BY <1>1, <3>1, <3>4 DEF Post
    <3>5. ASSUME NEW d \in Deliveries, Work(d) \/ Kill(d)
          PROVE  AInv'
      BY <3>1, <3>2, <3>3, <3>5, DeliveryKeeps DEF Work
    <3>6. ASSUME NEW r \in Requests, Request(r)
          PROVE  AInv'
      BY <3>1, <3>2, <3>3, <3>6, RequestKeeps DEF Request
    <3>7. ASSUME NEW j \in Jobs, CommitFails(j) \/ RefreshFails(j) \/ SessionBreaks(j) \/ Die(j)
          PROVE  AInv'
      BY <3>1, <3>7, FaultKeeps
    <3> QED
      BY <1>3, <2>2, <3>4, <3>5, <3>6, <3>7 DEF Next
  <2> QED
    BY <2>1, <2>2
<1> QED
  BY <1>2, <1>3, Remembered

\* Remembering changes nothing for what the sessions do.
LEMMA InvariantH == SpecH => []IInv
<1>1. InitH => IInv
  BY InitInv DEF InitH
<1>2. IInv /\ [NextH]_<<vars, history>> => IInv'
  BY NextInv, Remembered DEF vars, history
<1> QED
  BY <1>1, <1>2, PTL DEF SpecH

LEMMA FitsInvariant == SpecH => []AInv
<1>1. IInv /\ AInv /\ [NextH]_<<vars, history>> => AInv'
  BY AInvStep
<1> QED
  BY <1>1, AInvStart, InvariantH, PTL DEF SpecH

\* The operations of an APPLIED proposal whose references resolve have all been
\* executed, whatever overlaps, fails or is lost (FinishApply and ChangeOp are
\* _apply_proposal's), unless its message was delivered again.
THEOREM AppliedIsExecuted == SpecH => []AppliedIsComplete
<1>1. AInv => AppliedIsComplete
  BY DEF AInv, AppliedIsComplete, Executed, Change
<1> QED
  BY <1>1, FitsInvariant, PTL

-----------------------------------------------------------------------------
(***************************************************************************)
(* What the sessions may do to each other.                                 *)
(*                                                                         *)
(* The argument: whoever writes a proposal holds it, and a session takes   *)
(* hold only of what it has read to be actionable, or of its own message.  *)
(* So a proposal settled while nobody held it is out of everybody's reach  *)
(* (SInv), but for a second delivery.  A session executes operations of    *)
(* the one proposal it applies, and stops applying it when they are all    *)
(* permanent or when it fails (DInv); if no other held the proposal at     *)
(* that moment, nobody takes it up after that (CInv).                      *)
(***************************************************************************)

HoldsIn(state, p) ==
    \/ state.own = p /\ state.pc \in Busy
    \/ /\ state.target = p
       /\ state.pc \in {"deciding", "applying", "confirming", "replaced"}

\* a job that has not begun to apply
Before == {"idle", "routing", "deciding", "pipeline", "current", "superseded",
           "confirming", "replaced"}

\* what job j has executed, and has yet to commit
Did(j, state, theItems) ==
    /\ state.pc \in {"idle", "routing"} => state.target = Nil
    /\ state.pc # "applying" => state.rows = {}
    /\ \A c \in state.rows : c.by = j /\ c.prop = state.target /\ c.kind = "create"
    /\ state.pc \in Before => \A c \in theItems : c.by = j => c.kind = "replace"
    /\ state.pc = "applying" =>
          \A c \in theItems : (c.by = j /\ c.kind # "replace") =>
              /\ c.prop = state.target
              /\ \E e \in theItems : e.by = j /\ e.prop = state.target /\ e.kind = "change"

DInv == \A j \in Jobs : Did(j, job[j], items)

Spoiled == again \union crowded \union torn

SInv ==
    \A p \in Posts \ (again \union crowded) :
        status[p] \in Terminal => \A j \in Jobs : ~Holds(j, p)

\* all of p's operations are permanent, and are those that j has executed
Settlement(p, j) ==
    /\ status[p] = "applied"
    /\ \A i \in 1..Len(ops[p]) : ops[p][i] # "skip" => Change(p, i, ops[p][i], j) \in items
    /\ \A c \in items : (c.prop = p /\ c.kind # "replace") => c.by = j

CInv ==
    \A c \in items : c.kind # "replace" =>
        \/ c.prop \in Spoiled
        \/ Applies(c.by, c.prop)
        \/ Settlement(c.prop, c.by)

\* what a step of job j may do to proposals and items
Writes(j) ==
    \A m \in Posts : (status'[m] # status[m] \/ ops'[m] # ops[m]) =>
        Holds(j, m) \/ (j \in Deliveries /\ Deliver(j, m))

Grows(j) ==
    /\ items \subseteq items'
    /\ \A c \in items' \ items :
          c.by = j /\ (c.kind = "replace" \/ Applies(j, c.prop))

Leaves(j) == FinishApply(j) \/ Fails(j)

Effects(j, state) ==
    /\ Become(j, state)
    /\ Writes(j)
    /\ Grows(j)
    /\ \A p \in Posts : HoldsIn(state, p) =>
          Holds(j, p) \/ status[p] \in Actionable \/ (j \in Deliveries /\ Deliver(j, p))
    /\ \A p \in Posts : Applies(j, p) =>
          (state.pc = "applying" /\ state.target = p) \/ Leaves(j)
    /\ Did(j, state, items')

-----------------------------------------------------------------------------
LEMMA EndedDid ==
    /\ \A j, theItems : Did(j, Ended, theItems)
    /\ \A p \in Posts : ~HoldsIn(Ended, p)
    /\ Ended.pc = "ended"
BY DEF Ended, Idle, Did, Before, HoldsIn, Busy, DeliveryPCs, RequestPCs

LEMMA EndedEffects ==
    ASSUME NEW j \in Jobs, Become(j, Ended), Writes(j), Grows(j),
           job[j].pc # "applying" \/ Leaves(j)
    PROVE  \E state : Effects(j, state)
BY EndedDid DEF Effects, Applies

LEMMA ReturnEffects ==
    ASSUME NEW j \in Jobs, Return(j), Writes(j), Grows(j),
           job[j].pc # "applying" \/ Leaves(j)
    PROVE  \E state : Effects(j, state)
<1>1. CASE j \in Deliveries
  <2> DEFINE state == [Idle EXCEPT !.pc = "done", !.own = job[j].own]
  <2>1. Become(j, state)
    BY <1>1 DEF Return
  <2>2. state.pc = "done" /\ state.rows = {} /\ state.target = Nil
    BY DEF Idle
  <2> HIDE DEF state
  <2>3. Did(j, state, items')
    BY <2>2 DEF Did, Before
  <2>4. \A p \in Posts : ~HoldsIn(state, p)
    BY <2>2 DEF HoldsIn, Busy, DeliveryPCs, RequestPCs
  <2> QED
    BY <2>1, <2>3, <2>4 DEF Effects, Applies
<1>2. CASE j \notin Deliveries
  BY <1>2, EndedEffects DEF Return
<1> QED
  BY <1>1, <1>2

\* a delivery that only moves on
LEMMA GotoEffects ==
    ASSUME IInv, DInv, NEW d \in Deliveries, NEW pc \in DeliveryPCs \ {"routing"},
           Goto(d, pc), UNCHANGED <<status, ops, items>>,
           job[d].pc \in {"routing", "deciding", "pipeline"},
           pc # "deciding" \/ job[d].pc = "routing"
    PROVE  \E state : Effects(d, state)
<1>1. d \in Jobs
  BY DEF Jobs
<1>2. job[d] \in JobState /\ Did(d, job[d], items)
  BY <1>1 DEF IInv, TypeOK, DInv
<1> DEFINE state == [job[d] EXCEPT !.pc = pc]
<1>3. /\ state.pc = pc /\ state.own = job[d].own /\ state.target = job[d].target
      /\ state.rows = job[d].rows
  BY <1>2 DEF JobState
<1>4. Become(d, state)
  BY DEF Goto
<1> HIDE DEF state
<1>5. Did(d, state, items')
  BY <1>2, <1>3 DEF Did, Before, DeliveryPCs
<1>6. \A p \in Posts : HoldsIn(state, p) => Holds(d, p)
  BY <1>2, <1>3, NilIsNoPost DEF HoldsIn, Holds, Did, Busy, DeliveryPCs
<1>7. Writes(d) /\ Grows(d)
  BY DEF Writes, Grows
<1>8. \A p \in Posts : ~Applies(d, p)
  BY DEF Applies
<1> QED
  BY <1>4, <1>5, <1>6, <1>7, <1>8 DEF Effects

\* a job that starts to apply a proposal
LEMMA ApplyEffects ==
    ASSUME IInv, AInv, DInv, NEW j \in Jobs, NEW p \in Posts, NEW payload,
           Apply(j, p, payload),
           job[j].pc \in Before, Writes(j), items' = items,
           Holds(j, p) \/ status[p] \in Actionable
    PROVE  \E state : Effects(j, state)
<1> DEFINE state == [job[j] EXCEPT !.pc = "applying", !.target = p,
                                   !.plan = payload, !.step = 1,
                                   !.rows = {}, !.trail = {}]
<1>1. /\ job[j] \in JobState /\ Did(j, job[j], items)
      /\ JobFits(j, job[j], status, ops, items, again)
  BY DEF IInv, TypeOK, DInv, AInv
<1>2. Become(j, state)
  BY DEF Apply
<1>3. /\ state.pc = "applying" /\ state.target = p /\ state.rows = {}
      /\ state.own = job[j].own
  BY <1>1 DEF JobState
<1> HIDE DEF state
<1>4. Did(j, state, items')
  BY <1>1, <1>3 DEF Did, Before
<1>5. \A q \in Posts : HoldsIn(state, q) => Holds(j, q) \/ status[q] \in Actionable
  <2>1. CASE job[j].pc = "idle"
    BY <1>1, <1>3, <2>1, NilIsNoPost DEF JobFits, HoldsIn
  <2>2. CASE job[j].pc # "idle"
    BY <1>3, <2>2 DEF HoldsIn, Holds, Busy, Before, DeliveryPCs, RequestPCs
  <2> QED
    BY <2>1, <2>2
<1>6. Grows(j)
  BY DEF Grows
<1>7. \A q \in Posts : ~Applies(j, q)
  BY DEF Applies, Before
<1> QED
  BY <1>2, <1>4, <1>5, <1>6, <1>7 DEF Effects

-----------------------------------------------------------------------------
LEMMA OperationEffects ==
    ASSUME IInv, DInv, NEW j \in Jobs, SkipOp(j) \/ CreateOp(j) \/ ChangeOp(j)
    PROVE  \E state : Effects(j, state)
<1>1. job[j] \in JobState /\ Did(j, job[j], items)
  BY DEF IInv, TypeOK, DInv
<1> DEFINE c == TheChange(j, IF CreateOp(j) THEN "create" ELSE "change")
           t == job[j].target
<1>2. job[j].pc = "applying" /\ UNCHANGED <<status, ops>>
  BY DEF SkipOp, CreateOp, ChangeOp, NextOp, At
<1>3. PICK rows, trail :
         /\ Become(j, [job[j] EXCEPT !.step = @ + 1, !.rows = rows, !.trail = trail])
         /\ \A e \in rows : e.by = j /\ e.prop = t /\ e.kind = "create"
         /\ items \subseteq items'
         /\ \A e \in items' \ items :
               /\ e.by = j /\ e.prop = t
               /\ \E f \in items' : f.by = j /\ f.prop = t /\ f.kind = "change"
  <2>1. CASE SkipOp(j)
    <3>1. [job[j] EXCEPT !.step = @ + 1]
             = [job[j] EXCEPT !.step = @ + 1, !.rows = job[j].rows, !.trail = job[j].trail]
      BY <1>1 DEF JobState
    <3> QED
      BY <1>1, <2>1, <3>1 DEF SkipOp, Did
  <2>2. CASE CreateOp(j)
    <3>1. \A e \in job[j].rows \union {TheChange(j, "create")} :
             e.by = j /\ e.prop = t /\ e.kind = "create"
      BY <1>1 DEF Did, TheChange
    <3> QED
      BY <2>2, <3>1 DEF CreateOp
  <2>3. CASE ChangeOp(j)
    <3>1. /\ items' = items \union job[j].rows \union {TheChange(j, "change")}
          /\ Become(j, [job[j] EXCEPT !.step = @ + 1, !.rows = {},
                                      !.trail = {TheChange(j, "change")}])
      BY <2>3 DEF ChangeOp, UpdateCommits
    <3>2. /\ TheChange(j, "change").by = j /\ TheChange(j, "change").prop = t
          /\ TheChange(j, "change").kind = "change"
      BY DEF TheChange
    <3>3. \A e \in job[j].rows : e.by = j /\ e.prop = t
      BY <1>1 DEF Did
    <3>4. \A e \in items' \ items : e.by = j /\ e.prop = t
      BY <3>1, <3>2, <3>3
    <3>5. \E f \in items' : f.by = j /\ f.prop = t /\ f.kind = "change"
      BY <3>1, <3>2
    <3>6. PICK rows, trail : rows = {} /\ trail = {TheChange(j, "change")}
      OBVIOUS
    <3>7. Become(j, [job[j] EXCEPT !.step = @ + 1, !.rows = rows, !.trail = trail])
      BY <3>1, <3>6
    <3>8. items \subseteq items' /\ \A e \in rows : e.by = j /\ e.prop = t /\ e.kind = "create"
      BY <3>1, <3>6
    <3> HIDE DEF t
    <3> QED
      BY <3>4, <3>5, <3>7, <3>8
  <2> QED
    BY <2>1, <2>2, <2>3
<1> DEFINE state == [job[j] EXCEPT !.step = @ + 1, !.rows = rows, !.trail = trail]
<1>4. /\ state.pc = "applying" /\ state.target = t /\ state.own = job[j].own
      /\ state.rows = rows
  BY <1>1, <1>2 DEF JobState
<1>5. Become(j, state)
  BY <1>3
<1> HIDE DEF state
<1>6. Did(j, state, items')
  <2>1. ASSUME NEW e \in items', e.by = j, e.kind # "replace"
        PROVE  /\ e.prop = t
               /\ \E f \in items' : f.by = j /\ f.prop = t /\ f.kind = "change"
    BY <1>1, <1>2, <1>3, <2>1 DEF Did
  <2> QED
    BY <1>3, <1>4, <2>1 DEF Did, Before
<1>7. Writes(j)
  BY <1>2 DEF Writes
<1>8. Grows(j)
  BY <1>2, <1>3 DEF Grows, Applies
<1>9. \A p \in Posts : HoldsIn(state, p) => Holds(j, p)
  BY <1>2, <1>4 DEF HoldsIn, Holds
<1>10. \A p \in Posts : Applies(j, p) => state.pc = "applying" /\ state.target = p
  BY <1>4 DEF Applies
<1> QED
  BY <1>5, <1>6, <1>7, <1>8, <1>9, <1>10 DEF Effects

LEMMA FinishEffects ==
    ASSUME IInv, DInv, NEW j \in Jobs, FinishApply(j)
    PROVE  \E state : Effects(j, state)
<1>1. /\ job[j] \in JobState /\ Did(j, job[j], items)
      /\ status \in [Posts -> Status]
  BY DEF IInv, TypeOK, DInv
<1> DEFINE t == job[j].target
<1>2. /\ job[j].pc = "applying" /\ UNCHANGED ops /\ AfterApply(j)
      /\ status' = [status EXCEPT ![t] = "applied"]
      /\ items' = items \union job[j].rows
  BY DEF FinishApply, At, Put, Commit
<1>3. Writes(j)
  BY <1>1, <1>2 DEF Writes, Holds
<1>4. Grows(j)
  BY <1>1, <1>2 DEF Grows, Applies, Did
<1>5. Leaves(j)
  BY DEF Leaves
<1>6. CASE j \in Deliveries /\ t # job[j].own
  <2> DEFINE state == [job[j] EXCEPT !.pc = "confirmed", !.rows = {}, !.trail = {}]
  <2>1. Become(j, state)
    BY <1>2, <1>6 DEF AfterApply
  <2>2. state.pc = "confirmed" /\ state.own = job[j].own /\ state.rows = {}
    BY <1>1 DEF JobState
  <2> HIDE DEF state
  <2>3. Did(j, state, items')
    BY <2>2 DEF Did, Before
  <2>4. \A p \in Posts : HoldsIn(state, p) => Holds(j, p)
    BY <1>2, <2>2 DEF HoldsIn, Holds, Busy
  <2> QED
    BY <1>3, <1>4, <1>5, <2>1, <2>3, <2>4 DEF Effects
<1>7. CASE ~(j \in Deliveries /\ t # job[j].own)
  <2>1. Return(j)
    BY <1>2, <1>7 DEF AfterApply
  <2> QED
    BY <1>3, <1>4, <1>5, <2>1, ReturnEffects
<1> QED
  BY <1>6, <1>7

-----------------------------------------------------------------------------
(* Deliveries *)

LEMMA DeliverEffects ==
    ASSUME IInv, DInv, NEW d \in Deliveries, NEW m \in Posts, Deliver(d, m)
    PROVE  \E state : Effects(d, state)
<1>1. d \in Jobs
  BY DEF Jobs
<1>2. /\ job[d] \in JobState /\ Did(d, job[d], items)
      /\ status \in [Posts -> Status]
  BY <1>1 DEF IInv, TypeOK, DInv
<1> DEFINE state == [job[d] EXCEPT !.pc = "routing", !.own = m]
<1>3. /\ job[d].pc = "idle" /\ status' = [status EXCEPT ![m] = "running"]
      /\ Become(d, state) /\ UNCHANGED <<ops, items>>
  BY DEF Deliver, At, Put
<1>4. /\ state.pc = "routing" /\ state.own = m /\ state.target = job[d].target
      /\ state.rows = job[d].rows
  BY <1>2 DEF JobState
<1> HIDE DEF state
<1>5. Did(d, state, items')
  BY <1>2, <1>3, <1>4 DEF Did, Before
<1>6. \A p \in Posts : HoldsIn(state, p) => p = m
  BY <1>4 DEF HoldsIn
<1>7. Writes(d)
  BY <1>2, <1>3 DEF Writes
<1>8. Grows(d) /\ \A p \in Posts : ~Applies(d, p)
  BY <1>3 DEF Grows, Applies
<1> QED
  BY <1>3, <1>5, <1>6, <1>7, <1>8 DEF Effects

\* a delivery that writes its own proposal
LEMMA OwnEffects ==
    ASSUME IInv, AInv, DInv, NEW d \in Deliveries, NEW s, NEW payload \in Seq(Kinds),
           Put(job[d].own, s), PutOps(job[d].own, payload),
           job[d].pc \in {"current", "superseded", "confirmed"},
           UNCHANGED items,
           Return(d) \/ (job[d].pc = "current" /\ Apply(d, job[d].own, payload))
    PROVE  \E state : Effects(d, state)
<1>1. d \in Jobs
  BY DEF Jobs
<1>2. /\ job[d].own \in Posts
      /\ status \in [Posts -> Status] /\ ops \in [Posts -> Seq(Kinds)]
  BY <1>1, Facts
<1>3. Holds(d, job[d].own)
  BY DEF Holds, Busy, DeliveryPCs
<1>4. Writes(d)
  BY <1>2, <1>3 DEF Writes, Put, PutOps
<1>5. Grows(d)
  BY DEF Grows
<1>6. CASE Return(d)
  BY <1>1, <1>4, <1>5, <1>6, ReturnEffects
<1>7. CASE job[d].pc = "current" /\ Apply(d, job[d].own, payload)
  <2>1. job[d].pc \in Before
    BY <1>7 DEF Before
  <2>2. PICK p \in Posts : p = job[d].own
    BY <1>2
  <2> QED
    BY <1>1, <1>3, <1>4, <1>7, <2>1, <2>2, ApplyEffects
<1> QED
  BY <1>6, <1>7

LEMMA DeliveryEffects ==
    ASSUME IInv, AInv, DInv, NEW d \in Deliveries,
           \/ FindActive(d)
           \/ ConfirmByChat(d) \/ RejectByChat(d) \/ Continue(d)
           \/ CheckStale(d)
           \/ \E payload \in Payloads :
                 MarkStale(d, payload) \/ AskConfirmation(d, payload)
                 \/ NoOp(d, payload) \/ MakeReady(d, payload)
           \/ AckOwn(d) \/ MarkFailed(d) \/ Ack(d) \/ Kill(d)
    PROVE  \E state : Effects(d, state)
<1>1. d \in Jobs
  BY DEF Jobs
<1>2. /\ job[d] \in JobState /\ Did(d, job[d], items)
      /\ status \in [Posts -> Status] /\ ops \in [Posts -> Seq(Kinds)]
      /\ job[d].pc \notin {"idle", "ended"} => job[d].own \in Posts
  BY <1>1, Facts DEF DInv
<1>3. Payloads \subseteq Seq(Kinds) /\ <<>> \in Seq(Kinds)
  BY PayloadsAssumption
<1>4. CASE FindActive(d)
  <2>1. job[d].pc = "routing" /\ UNCHANGED <<status, ops, items>>
    BY <1>4 DEF FindActive, At
  <2>2. ASSUME NEW p \in Posts, status[p] = "needs_confirmation",
               Become(d, [job[d] EXCEPT !.pc = "deciding", !.target = p])
        PROVE  \E state : Effects(d, state)
    <3> DEFINE state == [job[d] EXCEPT !.pc = "deciding", !.target = p]
    <3>1. /\ state.pc = "deciding" /\ state.target = p /\ state.own = job[d].own
          /\ state.rows = job[d].rows
      BY <1>2 DEF JobState
    <3>2. Become(d, state)
      BY <2>2
    <3> HIDE DEF state
    <3>3. Did(d, state, items')
      BY <1>2, <2>1, <3>1 DEF Did, Before
    <3>4. \A q \in Posts : HoldsIn(state, q) => Holds(d, q) \/ status[q] \in Actionable
      BY <2>1, <2>2, <3>1 DEF HoldsIn, Holds, Busy, DeliveryPCs, Actionable
    <3>5. Writes(d) /\ Grows(d) /\ \A q \in Posts : ~Applies(d, q)
      BY <2>1 DEF Writes, Grows, Applies
    <3> QED
      BY <3>2, <3>3, <3>4, <3>5 DEF Effects
  <2>3. CASE Goto(d, "deciding")
    BY <2>1, <2>3, GotoEffects DEF DeliveryPCs
  <2> QED
    BY <1>4, <2>2, <2>3 DEF FindActive, Active
<1>5. CASE ConfirmByChat(d)
  <2> DEFINE p == job[d].target
  <2>1. /\ job[d].pc = "deciding" /\ p # Nil /\ UNCHANGED <<status, ops, items>>
        /\ \/ Apply(d, p, ops[p])
           \/ Goto(d, "confirmed") \/ Goto(d, "pipeline")
    BY <1>5 DEF ConfirmByChat, At
  <2>2. CASE Apply(d, p, ops[p])
    <3>1. PICK q, payload : q \in Posts /\ q = p /\ payload = ops[p]
      BY <1>2, <2>1 DEF JobState
    <3>2. Holds(d, q) /\ Writes(d) /\ job[d].pc \in Before
      BY <2>1, <3>1 DEF Holds, Writes, Before
    <3> QED
      BY <1>1, <2>1, <2>2, <3>1, <3>2, ApplyEffects
  <2>3. CASE Goto(d, "confirmed") \/ Goto(d, "pipeline")
    BY <2>1, <2>3, GotoEffects DEF DeliveryPCs
  <2> QED
    BY <2>1, <2>2, <2>3
<1>6. CASE RejectByChat(d)
  <2>1. /\ job[d].pc = "deciding"
        /\ status' = [status EXCEPT ![job[d].target] = "canceled",
                                    ![job[d].own] = "canceled"]
        /\ Return(d) /\ UNCHANGED <<ops, items>>
    BY <1>6 DEF RejectByChat, At
  <2>2. Writes(d)
    BY <1>2, <2>1 DEF Writes, Holds, Busy, DeliveryPCs
  <2> QED
    BY <1>1, <2>1, <2>2, ReturnEffects DEF Grows
<1>7. CASE Continue(d) \/ CheckStale(d)
  <2>1. /\ job[d].pc \in {"deciding", "pipeline"} /\ UNCHANGED <<status, ops, items>>
        /\ Goto(d, "pipeline") \/ Goto(d, "current") \/ Goto(d, "superseded")
    BY <1>7 DEF Continue, CheckStale, At
  <2> QED
    BY <2>1, GotoEffects DEF DeliveryPCs
<1>8. ASSUME NEW payload \in Payloads,
             MarkStale(d, payload) \/ AskConfirmation(d, payload)
             \/ NoOp(d, payload) \/ MakeReady(d, payload)
      PROVE  \E state : Effects(d, state)
  <2>1. PICK s \in {"stale", "needs_confirmation", "applied", "ready"} :
           /\ Put(job[d].own, s) /\ PutOps(job[d].own, payload)
           /\ Return(d) \/ (job[d].pc = "current" /\ Apply(d, job[d].own, payload))
           /\ job[d].pc \in {"current", "superseded"}
           /\ UNCHANGED items
    <3>1. CASE MarkStale(d, payload)
      BY <3>1 DEF MarkStale, At
    <3>2. CASE AskConfirmation(d, payload)
      BY <3>2 DEF AskConfirmation, At
    <3>3. CASE NoOp(d, payload)
      BY <3>3 DEF NoOp, At
    <3>4. CASE MakeReady(d, payload)
      BY <3>4 DEF MakeReady, At
    <3> QED
      BY <1>8, <3>1, <3>2, <3>3, <3>4
  <2> QED
    BY <1>3, <2>1, OwnEffects
<1>9. CASE AckOwn(d)
  BY <1>3, <1>9, OwnEffects DEF AckOwn, At
<1>10. CASE MarkFailed(d)
  <2>1. /\ job[d].pc \in {"pipeline", "failing"}
        /\ status' = [status EXCEPT ![job[d].own] = "failed"]
        /\ Return(d) /\ items' = items \union job[d].rows /\ UNCHANGED ops
    BY <1>10 DEF MarkFailed, Put, Commit
  <2>2. Writes(d)
    BY <1>2, <2>1 DEF Writes, Holds, Busy, DeliveryPCs
  <2>3. Grows(d)
    BY <1>2, <2>1 DEF Grows, Did
  <2> QED
    BY <1>1, <2>1, <2>2, <2>3, ReturnEffects
<1>11. CASE Ack(d) \/ Kill(d)
  <2>1. /\ Become(d, Ended) /\ UNCHANGED <<status, ops, items>>
        /\ job[d].pc # "applying" \/ Leaves(d)
    BY <1>11 DEF Ack, Kill, At, Leaves, Fails
  <2> QED
    BY <1>1, <2>1, EndedEffects DEF Writes, Grows
<1> QED
  BY <1>4, <1>5, <1>6, <1>7, <1>8, <1>9, <1>10, <1>11

-----------------------------------------------------------------------------
(* Requests, and what goes wrong *)

LEMMA RequestEffects ==
    ASSUME IInv, AInv, DInv, NEW r \in Requests,
           \/ \E p \in Posts : ApplyRequest(r, p) \/ ConfirmRequest(r, p)
           \/ CancelNew(r) \/ AskAgain(r) \/ ReplaceExisting(r) \/ Approve(r)
    PROVE  \E state : Effects(r, state)
<1>1. r \in Jobs /\ r \notin Deliveries
  BY JobsAssumption DEF Jobs
<1>2. /\ job[r] \in JobState /\ JobOK(r, job[r], items) /\ Did(r, job[r], items)
      /\ JobFits(r, job[r], status, ops, items, again)
      /\ status \in [Posts -> Status] /\ ops \in [Posts -> Seq(Kinds)]
  BY <1>1, Facts DEF DInv
<1> DEFINE t == job[r].target
<1>3. job[r].pc \in {"confirming", "replaced"} =>
         t \in Posts /\ Holds(r, t) /\ job[r].rows = {}
  BY <1>2 DEF JobOK, Holds
<1>4. ASSUME NEW p \in Posts, ApplyRequest(r, p)
      PROVE  \E state : Effects(r, state)
  <2>1. /\ job[r].pc = "idle" /\ status[p] \in Actionable /\ UNCHANGED <<status, ops, items>>
        /\ Return(r) \/ Apply(r, p, ops[p])
    BY <1>4 DEF ApplyRequest, At
  <2>2. Writes(r) /\ Grows(r) /\ job[r].pc \in Before
    BY <2>1 DEF Writes, Grows, Before
  <2> QED
    BY <1>1, <2>1, <2>2, ReturnEffects, ApplyEffects
<1>5. ASSUME NEW p \in Posts, ConfirmRequest(r, p)
      PROVE  \E state : Effects(r, state)
  <2> DEFINE state == [job[r] EXCEPT !.pc = "confirming", !.target = p,
                                     !.plan = ops[p], !.seen = status[p]]
  <2>1. /\ job[r].pc = "idle" /\ status[p] \in Actionable /\ UNCHANGED <<status, ops, items>>
        /\ Become(r, state)
    BY <1>5 DEF ConfirmRequest, At
  <2>2. /\ state.pc = "confirming" /\ state.target = p /\ state.own = job[r].own
        /\ state.rows = job[r].rows
    BY <1>2 DEF JobState
  <2> HIDE DEF state
  <2>3. Did(r, state, items')
    BY <1>2, <2>1, <2>2 DEF Did, Before
  <2>4. \A q \in Posts : HoldsIn(state, q) => status[q] \in Actionable
    BY <1>2, <2>1, <2>2, NilIsNoPost DEF HoldsIn, JobFits
  <2>5. Writes(r) /\ Grows(r) /\ \A q \in Posts : ~Applies(r, q)
    BY <2>1 DEF Writes, Grows, Applies
  <2> QED
    BY <2>1, <2>3, <2>4, <2>5 DEF Effects
<1>6. CASE CancelNew(r) \/ AskAgain(r)
  <2>1. /\ job[r].pc = "confirming" /\ Return(r) /\ UNCHANGED items
        /\ \E s : status' \in {status, [status EXCEPT ![t] = s]}
        /\ ops' \in {ops, [ops EXCEPT ![t] = job[r].plan]}
    BY <1>6 DEF CancelNew, AskAgain, At, PutIfChanged, Put, PutOps
  <2>2. Writes(r)
    BY <1>2, <1>3, <2>1 DEF Writes
  <2> QED
    BY <1>1, <2>1, <2>2, ReturnEffects DEF Grows
<1>7. CASE ReplaceExisting(r)
  <2>1. PICK c \in Replacements(r) :
           /\ UpdateCommits(r, c)
           /\ Become(r, [job[r] EXCEPT !.pc = "replaced", !.step = c.op + 1, !.trail = {c}])
           /\ UNCHANGED <<status, ops>>
    BY <1>7 DEF ReplaceExisting
  <2>2. job[r].pc \in {"confirming", "replaced"} /\ c.kind = "replace" /\ c.by = r
    BY DEF Replacements
  <2>3. items' = items \union {c}
    BY <1>3, <2>1, <2>2 DEF UpdateCommits
  <2> DEFINE state == [job[r] EXCEPT !.pc = "replaced", !.step = c.op + 1, !.trail = {c}]
  <2>4. /\ state.pc = "replaced" /\ state.target = t /\ state.own = job[r].own
        /\ state.rows = {}
    BY <1>2, <1>3, <2>2 DEF JobState
  <2>5. Become(r, state)
    BY <2>1
  <2> HIDE DEF state
  <2>6. Did(r, state, items')
    BY <1>2, <2>2, <2>3, <2>4 DEF Did, Before
  <2>7. \A q \in Posts : HoldsIn(state, q) => Holds(r, q)
    BY <2>2, <2>4 DEF HoldsIn, Holds, Busy, RequestPCs
  <2>8. Writes(r) /\ Grows(r) /\ \A q \in Posts : ~Applies(r, q)
    BY <2>1, <2>2, <2>3 DEF Writes, Grows, Applies
  <2> QED
    BY <2>5, <2>6, <2>7, <2>8 DEF Effects
<1>8. CASE Approve(r)
  <2>1. /\ job[r].pc \in {"confirming", "replaced"}
        /\ status' \in {status, [status EXCEPT ![t] = "ready"]}
        /\ ops' \in {ops, [ops EXCEPT ![t] = job[r].plan]}
        /\ items' = items \union job[r].rows
        /\ Return(r) \/ Apply(r, t, ops'[t])
    BY <1>8 DEF Approve, PutIfChanged, Put, PutOps, Commit
  <2>2. items' = items /\ t \in Posts /\ Holds(r, t)
    BY <1>3, <2>1
  <2>3. Writes(r)
    BY <1>2, <2>1, <2>2 DEF Writes
  <2>4. CASE Return(r)
    BY <1>1, <2>1, <2>2, <2>3, <2>4, ReturnEffects DEF Grows
  <2>5. CASE Apply(r, t, ops'[t])
    <3>1. PICK p, payload : p \in Posts /\ p = t /\ payload = ops'[t]
      BY <2>2
    <3>2. job[r].pc \in Before
      BY <2>1 DEF Before
    <3> QED
      BY <1>1, <2>2, <2>3, <2>5, <3>1, <3>2, ApplyEffects
  <2> QED
    BY <2>1, <2>4, <2>5
<1> QED
  BY <1>4, <1>5, <1>6, <1>7, <1>8

LEMMA FaultEffects ==
    ASSUME IInv, DInv, NEW j \in Jobs,
           CommitFails(j) \/ RefreshFails(j) \/ SessionBreaks(j) \/ Die(j)
    PROVE  \E state : Effects(j, state)
<1>1. /\ job[j] \in JobState /\ JobOK(j, job[j], items) /\ Did(j, job[j], items)
  BY DEF IInv, TypeOK, DInv
<1>2. Leaves(j)
  BY DEF Leaves, Fails
<1>3. Writes(j)
  BY DEF Writes, CommitFails, RefreshFails, SessionBreaks, Die
<1>4. Grows(j)
  <2>1. CASE RefreshFails(j)
    <3>1. PICK c \in Updates(j) : UpdateCommits(j, c)
      BY <2>1 DEF RefreshFails
    <3>2. /\ c.by = j
          /\ c.kind = "replace" \/ Applies(j, c.prop)
      BY DEF Updates, Replacements, TheChange, NextOp, At, Applies
    <3>3. \A e \in job[j].rows : e.by = j /\ Applies(j, e.prop)
      BY <1>1 DEF Did, Applies
    <3> QED
      BY <3>1, <3>2, <3>3 DEF Grows, UpdateCommits
  <2>2. CASE UNCHANGED items
    BY <2>2 DEF Grows
  <2> QED
    BY <2>1, <2>2 DEF CommitFails, SessionBreaks, Die
<1>5. CASE Return(j)
  BY <1>2, <1>3, <1>4, <1>5, ReturnEffects
<1>6. CASE Die(j)
  <2>1. Become(j, Ended)
    BY <1>6 DEF Die
  <2> QED
    BY <1>2, <1>3, <1>4, <2>1, EndedEffects
<1>7. CASE j \in Deliveries /\ RollBack(j) /\ Updates(j) # {}
  <2> DEFINE state == [job[j] EXCEPT !.pc = "failing", !.rows = {}, !.trail = {}]
  <2>1. Become(j, state)
    BY <1>7 DEF RollBack
  <2>2. state.pc = "failing" /\ state.own = job[j].own /\ state.rows = {}
    BY <1>1 DEF JobState
  <2> HIDE DEF state
  <2>3. Did(j, state, items')
    BY <2>2 DEF Did, Before
  <2>4. job[j].pc \in Busy
    BY <1>7 DEF Updates, Replacements, NextOp, At, Busy, RequestPCs
  <2>5. \A p \in Posts : HoldsIn(state, p) => Holds(j, p)
    BY <2>2, <2>4 DEF HoldsIn, Holds
  <2> QED
    BY <1>2, <1>3, <1>4, <2>1, <2>3, <2>5 DEF Effects
<1> QED
  BY <1>5, <1>6, <1>7 DEF CommitFails, RefreshFails, RollBack, SessionBreaks

LEMMA StepEffects ==
    ASSUME IInv, AInv, DInv, Next
    PROVE  UNCHANGED proposalVars \/ \E j \in Jobs : \E state : Effects(j, state)
<1>1. Deliveries \subseteq Jobs /\ Requests \subseteq Jobs
  BY DEF Jobs
<1>2. ASSUME NEW j \in Jobs, Applying(j)
      PROVE  \E state : Effects(j, state)
  BY <1>2, OperationEffects, FinishEffects DEF Applying
<1>3. ASSUME NEW d \in Deliveries, Work(d) \/ Kill(d) \/ \E m \in Posts : Deliver(d, m)
      PROVE  \E state : Effects(d, state)
  BY <1>1, <1>2, <1>3, DeliverEffects, DeliveryEffects DEF Work
<1>4. ASSUME NEW r \in Requests, Request(r)
      PROVE  \E state : Effects(r, state)
  BY <1>1, <1>2, <1>4, RequestEffects DEF Request
<1>5. ASSUME NEW j \in Jobs, CommitFails(j) \/ RefreshFails(j) \/ SessionBreaks(j) \/ Die(j)
      PROVE  \E state : Effects(j, state)
  BY <1>5, FaultEffects
<1>6. (\E p \in Posts : Post(p)) => UNCHANGED proposalVars
  BY DEF Post
<1> QED
  BY <1>1, <1>3, <1>4, <1>5, <1>6 DEF Next

-----------------------------------------------------------------------------
(* What follows of a step's effects, and of what is remembered of it. *)

HInv == SInv /\ DInv /\ CInv

LEMMA Moved ==
    ASSUME IInv, NEW j \in Jobs, NEW state, Effects(j, state)
    PROVE  /\ job'[j] = state
           /\ \A k \in Jobs \ {j} : job'[k] = job[k]
           /\ \A k \in Jobs \ {j} : \A p : Holds(k, p)' <=> Holds(k, p)
           /\ \A k \in Jobs \ {j} : \A p : Applies(k, p)' <=> Applies(k, p)
           /\ \A p : Holds(j, p)' <=> HoldsIn(state, p)
           /\ \A p : Applies(j, p)' <=> (state.pc = "applying" /\ state.target = p)
<1>1. job'[j] = state /\ \A k \in Jobs \ {j} : job'[k] = job[k]
  BY DEF IInv, TypeOK, Effects, Become
<1> QED
  BY <1>1 DEF Holds, HoldsIn, Applies

LEMMA DidStep ==
    ASSUME IInv, DInv, NEW j \in Jobs, NEW state, Effects(j, state)
    PROVE  DInv'
<1>1. /\ job'[j] = state /\ Did(j, state, items') /\ Grows(j)
      /\ \A k \in Jobs \ {j} : job'[k] = job[k]
  BY Moved DEF Effects
<1>2. ASSUME NEW k \in Jobs \ {j}
      PROVE  Did(k, job[k], items')
  <2>1. Did(k, job[k], items)
    BY DEF DInv
  <2>2. items \subseteq items' /\ \A c \in items' : c.by = k => c \in items
    BY <1>1 DEF Grows
  <2> QED
    BY <2>1, <2>2 DEF Did
<1> QED
  BY <1>1, <1>2 DEF DInv

\* A settled proposal out of reach is written only by a new delivery.
LEMMA SettledStep ==
    ASSUME SInv, Remember, NEW j \in Jobs, NEW state, Effects(j, state),
           NEW p \in Posts \ (again' \union crowded), status[p] \in Terminal
    PROVE  /\ status'[p] = status[p] /\ ops'[p] = ops[p]
           /\ ~Holds(j, p)
           /\ ~(j \in Deliveries /\ Deliver(j, p))
<1>1. ~(j \in Deliveries /\ Deliver(j, p))
  BY DEF Remember, Terminal
<1>2. p \notin again /\ ~Holds(j, p)
  BY DEF Remember, SInv
<1> QED
  BY <1>1, <1>2 DEF Effects, Writes

LEMMA SInvStep ==
    ASSUME IInv, SInv, Remember, NEW j \in Jobs, NEW state, Effects(j, state)
    PROVE  SInv'
<1> SUFFICES ASSUME NEW p \in Posts, p \notin again' \union crowded',
                    status'[p] \in Terminal, NEW k \in Jobs, Holds(k, p)'
             PROVE  FALSE
  BY DEF SInv
<1>1. p \notin again \union crowded
  BY DEF Remember
<1>2. status[p] \in Terminal
  BY DEF Remember
<1>3. ~(j \in Deliveries /\ Deliver(j, p)) /\ status[p] \notin Actionable
  BY <1>1, <1>2, SettledStep DEF Terminal, Actionable
<1>4. ~Holds(k, p) /\ ~Holds(j, p)
  BY <1>1, <1>2 DEF SInv
<1> QED
  BY <1>3, <1>4, Moved DEF Effects

\* A session that completes an apply while no other is at the proposal settles
\* it alone.
LEMMA FinishSettles ==
    ASSUME IInv, AInv, SInv, DInv, CInv, Remember, NEW j \in Jobs, NEW state, Effects(j, state),
           NEW p \in Posts \ Spoiled', Applies(j, p), FinishApply(j)
    PROVE  Settlement(p, j)'
<1>1. /\ job[j] \in JobState /\ JobFits(j, job[j], status, ops, items, again)
      /\ Did(j, job[j], items) /\ status \in [Posts -> Status]
  BY Facts DEF DInv
<1>2. p \notin again /\ p \notin crowded /\ p \notin torn /\ p \notin crowded'
  BY DEF Spoiled, Remember
<1>3. /\ job[j].pc = "applying" /\ job[j].target = p
      /\ job[j].step > Len(job[j].plan)
      /\ status' = [status EXCEPT ![p] = "applied"]
      /\ items' = items \union job[j].rows /\ UNCHANGED ops
  BY DEF Applies, FinishApply, Put, Commit
<1>4. status'[p] = "applied"
  BY <1>1, <1>3
<1>5. Holds(j, p) /\ status[p] \notin Terminal
  BY <1>2, <1>3 DEF Holds, SInv
<1>6. \A k \in Jobs : ~Holds(k, p)'
  BY <1>2, <1>4, <1>5 DEF Remember, Terminal
<1>7. ASSUME NEW i \in 1..Len(ops'[p]), ops'[p][i] # "skip"
      PROVE  Change(p, i, ops'[p][i], j) \in items'
  <2>1. job[j].plan = ops[p] /\ DoneUpTo(p, job[j].plan, job[j].step, j, items')
    BY <1>1, <1>2, <1>3 DEF JobFits
  <2>2. job[j].plan \in Seq(Kinds) /\ job[j].step \in Nat
    BY <1>1 DEF JobState
  <2>3. i < job[j].step
    BY <1>3, <1>7, <2>1, <2>2
  <2> QED
    BY <1>3, <1>7, <2>1, <2>3 DEF DoneUpTo
<1>8. ASSUME NEW c \in items', c.prop = p, c.kind # "replace", c.by # j
      PROVE  FALSE
  <2>1. c \in items
    BY <1>8 DEF Effects, Grows
  <2>2. c.by \in Jobs
    BY <2>1 DEF IInv, TypeOK, Changes
  <2>3. ~Applies(c.by, p)
    <3>1. Applies(c.by, p) => Holds(c.by, p)'
      BY <1>8, <2>2, Moved DEF Applies, Holds
    <3> QED
      BY <1>6, <2>2, <3>1
  <2>4. status[p] # "applied"
    BY <1>5 DEF Terminal
  <2> QED
    BY <1>2, <1>8, <2>1, <2>3, <2>4 DEF CInv, Spoiled, Settlement
<1> QED
  BY <1>4, <1>7, <1>8 DEF Settlement

LEMMA CInvStep ==
    ASSUME IInv, AInv, SInv, DInv, CInv, Remember,
           NEW j \in Jobs, NEW state, Effects(j, state)
    PROVE  CInv'
<1> SUFFICES ASSUME NEW c \in items', c.kind # "replace", c.prop \notin Spoiled'
             PROVE  Applies(c.by, c.prop)' \/ Settlement(c.prop, c.by)'
  BY DEF CInv
<1> DEFINE p == c.prop
<1>1. items \subseteq items' /\ (c \in items \/ (c.by = j /\ Applies(j, p)))
  BY DEF Effects, Grows
<1>2. p \in Posts /\ c.by \in Jobs
  <2>1. CASE c \in items
    BY <2>1 DEF IInv, TypeOK, Changes
  <2>2. CASE c.by = j /\ Applies(j, p)
    <3>1. JobOK(j, job[j], items)
      BY DEF IInv
    <3> QED
      BY <2>2, <3>1 DEF JobOK, Applies
  <2> QED
    BY <1>1, <2>1, <2>2
<1> HIDE DEF p
<1>3. p \notin Spoiled /\ p \notin again' \union crowded /\ p \notin torn'
  BY DEF Spoiled, Remember, p
<1>4. CASE Applies(c.by, p)
  <2>1. CASE c.by # j \/ Applies(j, p)'
    BY <1>2, <1>4, <2>1, Moved DEF p
  <2>2. CASE c.by = j /\ ~Applies(j, p)' /\ FinishApply(j)
    <3>1. p \in Posts \ Spoiled'
      BY <1>2 DEF p
    <3> QED
      BY <1>4, <2>2, <3>1, FinishSettles DEF p
  <2>3. CASE c.by = j /\ ~Applies(j, p)' /\ Fails(j)
    <3>1. c \in Done(j, p)'
      BY <2>3 DEF Done, p
    <3>2. p \in torn'
      BY <1>2, <1>4, <2>3, <3>1 DEF Remember
    <3> QED
      BY <1>3, <3>2
  <2> QED
    BY <1>2, <1>4, <2>1, <2>2, <2>3, Moved DEF Effects, Leaves
<1>5. CASE c \in items /\ ~Applies(c.by, p)
  <2>1. Settlement(p, c.by)
    BY <1>3, <1>5 DEF CInv, p
  <2>2. /\ status'[p] = "applied" /\ ops'[p] = ops[p] /\ ~Holds(j, p)
    BY <1>2, <1>3, <2>1, SettledStep DEF Settlement, Terminal
  <2>3. ~Applies(j, p)
    BY <2>2 DEF Applies, Holds
  <2>4. \A e \in items' : (e.prop = p /\ e.kind # "replace") => e \in items
    BY <2>3 DEF Effects, Grows
  <2>5. Settlement(p, c.by)'
    BY <1>1, <2>1, <2>2, <2>4 DEF Settlement
  <2> QED
    BY <2>5 DEF p
<1> QED
  BY <1>1, <1>4, <1>5

\* A step that does not touch proposals, remembered or not.
LEMMA QuietHInv ==
    ASSUME HInv, UNCHANGED proposalVars, Remember \/ UNCHANGED history
    PROVE  HInv'
<1>1. again \subseteq again' /\ crowded \subseteq crowded' /\ torn \subseteq torn'
  BY DEF Remember, history
<1>2. UNCHANGED <<status, ops, items, job>>
  BY DEF proposalVars
<1>3. SInv'
  BY <1>1, <1>2 DEF HInv, SInv, Holds
<1>4. DInv'
  BY <1>2 DEF HInv, DInv
<1>5. CInv'
  BY <1>1, <1>2 DEF HInv, CInv, Spoiled, Applies, Settlement
<1> QED
  BY <1>3, <1>4, <1>5 DEF HInv

LEMMA HInvStart == InitH => HInv
<1> SUFFICES ASSUME InitH PROVE HInv
  OBVIOUS
<1>1. /\ \A j \in Jobs : job[j] = Idle
      /\ \A p \in Posts : status[p] = "queued"
      /\ items = {}
  BY DEF InitH, Init
<1>2. Idle.pc = "idle" /\ Idle.target = Nil /\ Idle.rows = {}
  BY DEF Idle
<1> QED
  BY <1>1, <1>2 DEF HInv, SInv, DInv, CInv, Did, Terminal

LEMMA HInvStep ==
    ASSUME IInv, AInv, HInv, [NextH]_<<vars, history>>
    PROVE  HInv'
<1>1. CASE UNCHANGED <<vars, history>>
  BY <1>1, QuietHInv DEF vars, history, proposalVars
<1>2. CASE Next /\ Remember
  <2>1. CASE UNCHANGED proposalVars
    BY <1>2, <2>1, QuietHInv
  <2>2. ASSUME NEW j \in Jobs, NEW state, Effects(j, state)
        PROVE  HInv'
    <3>1. SInv'
      BY <1>2, <2>2, SInvStep DEF HInv
    <3>2. DInv'
      BY <2>2, DidStep DEF HInv
    <3>3. CInv'
      BY <1>2, <2>2, CInvStep DEF HInv
    <3> QED
      BY <3>1, <3>2, <3>3 DEF HInv
  <2> QED
    BY <1>2, <2>1, <2>2, StepEffects DEF HInv
<1> QED
  BY <1>1, <1>2, Remembered

LEMMA HistoryInvariant == SpecH => []HInv
<1>1. IInv /\ AInv /\ HInv /\ [NextH]_<<vars, history>> => HInv'
  BY HInvStep
<1> QED
  BY <1>1, HInvStart, InvariantH, FitsInvariant, PTL DEF SpecH

-----------------------------------------------------------------------------
\* A settled proposal stays as it was settled (the checks at the beginning of
\* apply_proposal and of confirm), unless a session was at work on it when it
\* was settled, or its message is delivered again.
THEOREM SettledStays == SpecH => TerminalStays
<1> DEFINE Stays == \A p \in Posts \ (again' \union crowded) :
              status[p] \in Terminal => status'[p] = status[p] /\ ops'[p] = ops[p]
<1>1. IInv /\ AInv /\ HInv /\ [NextH]_<<vars, history>> => [Stays]_vars
  <2> SUFFICES ASSUME IInv, AInv, HInv, Next, Remember
               PROVE  Stays
    BY Remembered DEF vars, history
  <2>1. CASE UNCHANGED proposalVars
    BY <2>1 DEF proposalVars
  <2>2. ASSUME NEW j \in Jobs, NEW state, Effects(j, state)
        PROVE  Stays
    BY <2>2, SettledStep DEF HInv
  <2> QED
    BY <2>1, <2>2, StepEffects DEF HInv
<1> QED
  BY <1>1, InvariantH, FitsInvariant, HistoryInvariant, PTL DEF SpecH, TerminalStays

\* Two sessions execute the same operation (_apply_proposal) only while both
\* apply the proposal at once, or after what again, crowded and torn name.
THEOREM OperationsOnce == SpecH => []AtMostOnce
<1>1. HInv => AtMostOnce
  BY DEF HInv, CInv, Spoiled, Settlement, AtMostOnce
<1> QED
  BY <1>1, HistoryInvariant, PTL

\* The operations that are permanent are all of their proposal's, and it is
\* APPLIED; or item_repo.update has committed some of them on the way.
THEOREM OperationsTogether == SpecH => []AllOrNothing
<1>1. ASSUME IInv, HInv PROVE AllOrNothing
  <2> SUFFICES ASSUME NEW c \in items, c.kind # "replace", c.prop \notin Spoiled
               PROVE  \/ /\ Applies(c.by, c.prop)
                         /\ \E e \in Done(c.by, c.prop) : e.kind = "change"
                      \/ /\ status[c.prop] = "applied"
                         /\ \A i \in 1..Len(ops[c.prop]) : ops[c.prop][i] # "skip" =>
                               [prop |-> c.prop, op |-> i, kind |-> ops[c.prop][i], by |-> c.by] \in items
    BY DEF AllOrNothing, Spoiled
  <2>1. c \in Changes /\ c.by \in Jobs
    BY <1>1 DEF IInv, TypeOK, Changes
  <2>2. CASE Applies(c.by, c.prop)
    <3>1. Did(c.by, job[c.by], items)
      BY <1>1, <2>1 DEF HInv, DInv
    <3>2. \E e \in items : e.by = c.by /\ e.prop = c.prop /\ e.kind = "change"
      BY <2>2, <3>1 DEF Did, Applies
    <3> QED
      BY <2>2, <3>2 DEF Done
  <2>3. CASE Settlement(c.prop, c.by)
    BY <2>3 DEF Settlement, Change
  <2> QED
    BY <1>1, <2>2, <2>3 DEF HInv, CInv
<1> QED
  BY <1>1, InvariantH, HistoryInvariant, PTL
=============================================================================
