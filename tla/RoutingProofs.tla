--------------------------- MODULE RoutingProofs ----------------------------
(***************************************************************************)
(* Safety of Routing for any messages, any router and provider answers and *)
(* either provider.  Starts of transactions and versions are two orders of *)
(* the same messages.  What is said last when a context is loaded began no *)
(* earlier than the message itself; a message that passes the comparison   *)
(* of versions was accepted last of all.  If the two differ, the message   *)
(* began first and was accepted last, which is what OwnWords excepts.      *)
(***************************************************************************)
EXTENDS Routing, TLAPS, FiniteSetTheorems

\* ranks are drawn in the order of the beginnings, versions in that of the commits
RanksInv ==
    /\ \A p \in Posts : began[p] <= Cardinality(Begun)
    /\ \A p, q \in Posts : (began[p] > 0 /\ began[p] = began[q]) => p = q
    /\ \A p, q \in Posts : (Stored(p) /\ stamp[p] = stamp[q]) => p = q
    /\ \A p \in Posts : Stored(p) => began[p] > 0

\* a delivery is about a stored message, and so is its context
JobOK(m, j) ==
    /\ j.pc # "idle" => Stored(m)
    /\ j.last # Nil => Stored(m) /\ Stored(j.last) /\ began[m] <= began[j.last]
    /\ j.pc \in {"asking", "checking"} => j.last # Nil
    /\ j.attempts < RetryAttempts
    /\ j.pc # "done" => j.outcome = Nil
    /\ j.outcome \in {"offered", "no_op"} =>
          j.last # Nil /\ (j.last = m \/ Overtook(j.last, m))

ContextInv ==
    /\ \A m \in sent : Stored(m)
    /\ \A m \in Posts : JobOK(m, job[m])

IInv == TypeOK /\ RanksInv /\ ContextInv

-----------------------------------------------------------------------------
LEMMA BegunCount ==
    ASSUME TypeOK
    PROVE  /\ IsFiniteSet(Begun)
           /\ Cardinality(Begun) \in Nat
<1>1. Begun \subseteq Posts
  BY DEF Begun
<1>2. IsFiniteSet(Begun)
  BY <1>1, PostsFinite, FS_Subset
<1> QED
  BY <1>2, FS_CardinalityType

LEMMA NilIsNoName ==
    /\ Nil \notin Posts
    /\ Nil \notin {"ops", "tool"}
    /\ Nil \notin Outcomes
BY RoutingAssumption DEF Outcomes

LEMMA LastIsPost ==
    ASSUME TypeOK, NEW m \in Posts, job[m].last # Nil
    PROVE  job[m].last \in Posts
BY DEF TypeOK, Job

\* the record of a delivery that has not begun
IdleJob == [pc |-> "idle", active |-> FALSE, mode |-> Nil, last |-> Nil,
            attempts |-> 0, outcome |-> Nil]

LEMMA InitInv == Init => IInv
<1> SUFFICES ASSUME Init PROVE IInv
  OBVIOUS
<1> USE DEF Init, IngestInit
<1>1. \A m \in Posts : job[m] = IdleJob
  BY DEF IdleJob
<1>2. IdleJob \in Job
  BY DEF IdleJob, Job, RetryAttempts
<1>3. TypeOK
  <2>1. job \in [Posts -> Job]
    BY <1>1, <1>2
  <2>2. \A m \in Posts : job[m].outcome = "failed" => job[m].attempts < RetryAttempts
    BY <1>1 DEF IdleJob, RetryAttempts
  <2>3. /\ version \in Nat /\ sent \subseteq Posts /\ bridge \in BOOLEAN
        /\ stamp \in [Posts -> 0..version] /\ began \in [Posts -> Nat]
    OBVIOUS
  <2> HIDE DEF Init, IngestInit
  <2> QED
    BY <2>1, <2>2, <2>3 DEF TypeOK
<1>4. RanksInv
  BY <1>3, BegunCount DEF RanksInv, Stored
<1>5. ContextInv
  BY <1>1, NilIsNoName DEF ContextInv, JobOK, IdleJob, RetryAttempts, Outcomes
<1> QED
  BY <1>3, <1>4, <1>5 DEF IInv

-----------------------------------------------------------------------------
(* POST messages *)

\* What a delivery knows stays true while the messages it knows stay as they are.
LEMMA JobsStay ==
    ASSUME IInv, UNCHANGED job,
           \A p \in Posts : Stored(p) => stamp'[p] = stamp[p] /\ began'[p] = began[p]
    PROVE  \A m \in Posts : JobOK(m, job[m])'
<1> SUFFICES ASSUME NEW m \in Posts
             PROVE  JobOK(m, job[m])'
  OBVIOUS
<1>1. JobOK(m, job[m])
  BY DEF IInv, ContextInv
<1>2. job[m].last # Nil => job[m].last \in Posts
  BY LastIsPost DEF IInv
<1> QED
  BY <1>1, <1>2 DEF JobOK, Stored, Overtook

LEMMA BeginInv ==
    ASSUME IInv, NEW p \in Posts, Begin(p), UNCHANGED <<bridge, job>>
    PROVE  IInv'
<1> USE DEF IInv, Begin
<1> DEFINE n == Cardinality(Begun)
<1>1. n \in Nat /\ IsFiniteSet(Begun)
  BY BegunCount
<1>2. /\ began' \in [Posts -> Nat]
      /\ began'[p] = n + 1
      /\ \A q \in Posts \ {p} : began'[q] = began[q]
  BY <1>1 DEF TypeOK
<1>3. Begun' = Begun \union {p}
  <2>1. began'[p] > 0
    BY <1>1, <1>2
  <2> HIDE DEF IInv, Begin
  <2> QED
    BY <1>2, <2>1 DEF Begun
<1>4. Cardinality(Begun') = n + 1
  BY <1>1, <1>3, FS_AddElement DEF Begun
<1>5. TypeOK'
  BY <1>2 DEF TypeOK
<1>6. RanksInv'
  <2>1. \A q \in Posts : began[q] \in Nat /\ began[q] <= n
    BY DEF RanksInv, TypeOK
  <2>2. \A q \in Posts : began'[q] <= Cardinality(Begun')
    BY <1>1, <1>2, <1>4, <2>1
  <2>3. \A q, r \in Posts : (began'[q] > 0 /\ began'[q] = began'[r]) => q = r
    BY <1>1, <1>2, <2>1 DEF RanksInv
  <2>4. \A q \in Posts : Stored(q)' => began'[q] > 0
    BY <1>1, <1>2 DEF RanksInv, Stored
  <2> QED
    BY <2>2, <2>3, <2>4 DEF RanksInv, Stored
<1>7. \A q \in Posts : Stored(q) => q # p
  BY DEF RanksInv
<1>8. ContextInv'
  <2>1. \A m \in Posts : JobOK(m, job[m])'
    BY <1>2, <1>7, JobsStay
  <2>2. \A m \in sent' : Stored(m)'
    BY DEF ContextInv, Stored
  <2> QED
    BY <2>1, <2>2 DEF ContextInv
<1> QED
  BY <1>5, <1>6, <1>8

LEMMA AcceptInv ==
    ASSUME IInv, NEW p \in Posts, Accept(p), UNCHANGED <<bridge, job>>
    PROVE  IInv'
<1> USE DEF IInv, Accept
<1>1. /\ version \in Nat
      /\ \A q \in Posts : stamp[q] \in 0..version
  BY DEF TypeOK
<1>2. /\ stamp'[p] = version + 1
      /\ \A q \in Posts \ {p} : stamp'[q] = stamp[q]
      /\ stamp' \in [Posts -> 0..version']
  BY <1>1 DEF TypeOK
<1>3. TypeOK'
  BY <1>1, <1>2 DEF TypeOK
<1>4. RanksInv'
  <2>1. \A q, r \in Posts : (Stored(q)' /\ stamp'[q] = stamp'[r]) => q = r
    BY <1>1, <1>2 DEF RanksInv, Stored
  <2>2. \A q \in Posts : Stored(q)' => began'[q] > 0
    BY <1>1, <1>2 DEF RanksInv, Stored
  <2>3. Begun' = Begun
    BY DEF Begun
  <2> QED
    BY <2>1, <2>2, <2>3 DEF RanksInv
<1>5. ContextInv'
  <2>1. \A m \in Posts : JobOK(m, job[m])'
    BY <1>2, JobsStay
  <2>2. \A m \in sent' : Stored(m)'
    BY <1>1, <1>2 DEF ContextInv, Stored, TypeOK
  <2> QED
    BY <2>1, <2>2 DEF ContextInv
<1> QED
  BY <1>3, <1>4, <1>5

LEMMA SendInv ==
    ASSUME IInv, NEW p \in Posts, Send(p), UNCHANGED <<bridge, job>>
    PROVE  IInv'
<1> USE DEF IInv, Send
<1>1. TypeOK'
  BY DEF TypeOK
<1>2. RanksInv'
  BY DEF RanksInv, Stored, Begun
<1>3. ContextInv'
  BY JobsStay DEF ContextInv, Stored
<1> QED
  BY <1>1, <1>2, <1>3

-----------------------------------------------------------------------------
(* Deliveries *)

\* Every step of a delivery replaces its record by one that is in order.
LEMMA JobStep ==
    ASSUME IInv, NEW m \in Posts, NEW new \in Job, Become(m, new), JobOK(m, new),
           UNCHANGED <<ingestVars, bridge>>
    PROVE  IInv'
<1> USE DEF IInv, Become, ingestVars
<1>1. /\ job' \in [Posts -> Job]
      /\ job'[m] = new
      /\ \A other \in Posts \ {m} : job'[other] = job[other]
  BY DEF TypeOK
<1>2. \A other \in Posts : JobOK(other, job'[other])
  BY <1>1 DEF ContextInv
<1>3. \A other \in Posts : JobOK(other, job[other])'
  BY <1>2 DEF JobOK, Stored, Overtook
<1>4. TypeOK'
  BY <1>1, <1>2 DEF TypeOK, JobOK
<1>5. RanksInv'
  BY DEF RanksInv, Stored, Begun
<1>6. ContextInv'
  BY <1>3 DEF ContextInv, Stored
<1> QED
  BY <1>4, <1>5, <1>6

LEMMA JobFacts ==
    ASSUME IInv, NEW m \in Posts
    PROVE  job[m] \in Job /\ JobOK(m, job[m])
BY DEF IInv, TypeOK, ContextInv

LEMMA DeliverInv ==
    ASSUME IInv, NEW m \in Posts, Deliver(m)
    PROVE  IInv'
<1>0. job[m] \in Job /\ JobOK(m, job[m])
  BY JobFacts
<1>1. PICK active \in BOOLEAN : Become(m, [job[m] EXCEPT !.pc = "routing", !.active = active])
  BY DEF Deliver
<1> DEFINE new == [job[m] EXCEPT !.pc = "routing", !.active = active]
<1>2. Stored(m) /\ job[m].pc = "idle"
  BY DEF Deliver, At, IInv, ContextInv
<1>3. new \in Job /\ JobOK(m, new)
  BY <1>2, <1>0 DEF Job, JobOK
<1> QED
  BY <1>1, <1>3, JobStep DEF Deliver

LEMMA RouteInv ==
    ASSUME IInv, NEW m \in Posts, Route(m)
    PROVE  IInv'
<1>0. job[m] \in Job /\ JobOK(m, job[m])
  BY JobFacts
<1>1. PICK answer \in RouterAnswers :
        \/ Become(m, [job[m] EXCEPT !.pc = "settling"])
        \/ Become(m, [job[m] EXCEPT !.pc = "loading", !.mode = ModeOf(answer)])
  BY DEF Route
<1>2. Stored(m) /\ job[m].pc = "routing"
  BY <1>0 DEF Route, At, JobOK
<1> DEFINE settling == [job[m] EXCEPT !.pc = "settling"]
           loading == [job[m] EXCEPT !.pc = "loading", !.mode = ModeOf(answer)]
<1>3. settling \in Job /\ JobOK(m, settling)
  BY <1>2, <1>0 DEF Job, JobOK
<1>4. ModeOf(answer) \in {"ops", "tool", Nil}
  BY DEF ModeOf
<1>5. loading \in Job /\ JobOK(m, loading)
  <2> HIDE DEF loading
  <2>1. loading = [job[m] EXCEPT !.pc = "loading", !.mode = ModeOf(answer)]
    BY DEF loading
  <2> QED
    BY <1>2, <1>4, <2>1, <1>0 DEF Job, JobOK
<1> QED
  BY <1>1, <1>3, <1>5, JobStep DEF Route

LEMMA SettleInv ==
    ASSUME IInv, NEW m \in Posts, Settle(m)
    PROVE  IInv'
<1>0. job[m] \in Job /\ JobOK(m, job[m])
  BY JobFacts
<1> DEFINE settled == [job[m] EXCEPT !.pc = "done", !.outcome = "settled"]
           loading == [job[m] EXCEPT !.pc = "loading"]
<1>1. Become(m, settled) \/ Become(m, loading)
  BY DEF Settle, Finish
<1>2. Stored(m) /\ job[m].pc = "settling"
  BY <1>0 DEF Settle, At, JobOK
<1>3. settled \in Job /\ JobOK(m, settled)
  BY <1>2, <1>0 DEF Job, JobOK, Outcomes
<1>4. loading \in Job /\ JobOK(m, loading)
  BY <1>2, <1>0 DEF Job, JobOK
<1> QED
  BY <1>1, <1>3, <1>4, JobStep DEF Settle

\* what was said last began no earlier than the message
LEMMA LoadContextInv ==
    ASSUME IInv, NEW m \in Posts, LoadContext(m)
    PROVE  IInv'
<1>0. job[m] \in Job /\ JobOK(m, job[m])
  BY JobFacts
<1>1. PICK last \in Posts :
        /\ SaidLast(last)
        /\ Become(m, [job[m] EXCEPT !.pc = "asking", !.last = last,
                                    !.mode = IF @ = Nil THEN Classified(last) ELSE @])
  BY DEF LoadContext
<1> DEFINE mode == IF job[m].mode = Nil THEN Classified(last) ELSE job[m].mode
           new == [job[m] EXCEPT !.pc = "asking", !.last = last, !.mode = mode]
<1>2. Stored(m) /\ Stored(last) /\ began[m] <= began[last]
  BY <1>1, <1>0 DEF LoadContext, At, JobOK, SaidLast
<1>3. mode \in {"ops", "tool", Nil}
  BY <1>0 DEF Classified, Job
<1>4. new \in Job
  <2> HIDE DEF mode
  <2> QED
    BY <1>3, <1>0 DEF Job
<1>5. JobOK(m, new)
  <2>1. /\ new.pc = "asking" /\ new.last = last
        /\ new.attempts = job[m].attempts /\ new.outcome = job[m].outcome
    BY <1>0 DEF Job
  <2>2. job[m].outcome = Nil
    BY <1>0 DEF LoadContext, At, JobOK
  <2> QED
    BY <1>2, <2>1, <2>2, NilIsNoName, <1>0 DEF JobOK, Outcomes
<1>6. Become(m, new)
  BY <1>1
<1> QED
  BY <1>4, <1>5, <1>6, JobStep DEF LoadContext

LEMMA ProposeInv ==
    ASSUME IInv, NEW m \in Posts, Propose(m)
    PROVE  IInv'
<1>0. job[m] \in Job /\ JobOK(m, job[m])
  BY JobFacts
<1> DEFINE checking == [job[m] EXCEPT !.pc = "checking"]
           again == [job[m] EXCEPT !.attempts = @ + 1]
           failed == [job[m] EXCEPT !.pc = "done", !.outcome = "failed"]
<1>1. \/ Become(m, checking)
      \/ job[m].attempts + 1 < RetryAttempts /\ Become(m, again)
      \/ Become(m, failed)
  BY DEF Propose, Finish
<1>2. At(m, "asking")
  BY DEF Propose
<1>3. checking \in Job /\ JobOK(m, checking)
  BY <1>2, <1>0 DEF Job, JobOK, At
<1>4. job[m].attempts + 1 < RetryAttempts => again \in Job /\ JobOK(m, again)
  BY <1>2, <1>0 DEF Job, JobOK, At, RetryAttempts
<1>5. failed \in Job /\ JobOK(m, failed)
  BY <1>2, <1>0 DEF Job, JobOK, At, Outcomes
<1> QED
  BY <1>1, <1>3, <1>4, <1>5, JobStep DEF Propose

LEMMA UseToolsInv ==
    ASSUME IInv, NEW m \in Posts, UseTools(m)
    PROVE  IInv'
<1>0. job[m] \in Job /\ JobOK(m, job[m])
  BY JobFacts
<1> DEFINE checking == [job[m] EXCEPT !.pc = "checking"]
           failed == [job[m] EXCEPT !.pc = "done", !.outcome = "failed"]
<1>1. Become(m, checking) \/ Become(m, failed)
  BY DEF UseTools, Finish
<1>2. At(m, "asking")
  BY DEF UseTools
<1>3. checking \in Job /\ JobOK(m, checking)
  BY <1>2, <1>0 DEF Job, JobOK, At
<1>4. failed \in Job /\ JobOK(m, failed)
  BY <1>2, <1>0 DEF Job, JobOK, At, Outcomes
<1> QED
  BY <1>1, <1>3, <1>4, JobStep DEF UseTools

\* what passes the comparison was accepted last
LEMMA CheckStaleInv ==
    ASSUME IInv, NEW m \in Posts, CheckStale(m)
    PROVE  IInv'
<1>0. job[m] \in Job /\ JobOK(m, job[m])
  BY JobFacts
<1> DEFINE done(outcome) == [job[m] EXCEPT !.pc = "done", !.outcome = outcome]
<1>1. \/ Become(m, done("stale"))
      \/ stamp[m] = version /\ Become(m, done("no_op"))
      \/ stamp[m] = version /\ Become(m, done("offered"))
  BY DEF CheckStale, Finish
<1>2. Stored(m) /\ job[m].last # Nil
  BY <1>0 DEF CheckStale, At, JobOK
<1>3. \A outcome \in Outcomes : done(outcome) \in Job
  BY <1>0 DEF Job
<1>4. JobOK(m, done("stale"))
  BY <1>2, <1>0 DEF Job, JobOK
<1>5. stamp[m] = version => job[m].last = m \/ Overtook(job[m].last, m)
  <2> SUFFICES ASSUME stamp[m] = version, job[m].last # m
               PROVE  Overtook(job[m].last, m)
    OBVIOUS
  <2> DEFINE last == job[m].last
  <2>1. last \in Posts
    BY <1>2, LastIsPost DEF IInv
  <2>2. Stored(last) /\ began[m] <= began[last]
    BY <1>2, <1>0 DEF JobOK
  <2>3. began[m] # began[last] /\ stamp[m] # stamp[last]
    BY <1>2, <2>1, <2>2 DEF IInv, RanksInv
  <2>4. stamp[last] <= version
    BY <2>1 DEF IInv, TypeOK
  <2>5. /\ began[m] \in Nat /\ began[last] \in Nat
        /\ stamp[m] \in Nat /\ stamp[last] \in Nat
    BY <2>1 DEF IInv, TypeOK
  <2> HIDE DEF last
  <2>6. Overtook(last, m)
    BY <2>2, <2>3, <2>4, <2>5 DEF Overtook
  <2> QED
    BY <2>6 DEF last
<1>6. stamp[m] = version => JobOK(m, done("no_op")) /\ JobOK(m, done("offered"))
  BY <1>2, <1>5, <1>0 DEF Job, JobOK
<1> QED
  BY <1>1, <1>3, <1>4, <1>6, JobStep DEF CheckStale, Outcomes

-----------------------------------------------------------------------------
LEMMA NextInv == IInv /\ [Next]_vars => IInv'
<1> SUFFICES ASSUME IInv, [Next]_vars
             PROVE  IInv'
  OBVIOUS
<1>1. CASE PostMessages
  BY <1>1, BeginInv, AcceptInv, SendInv DEF PostMessages, IngestNext
<1>2. CASE BridgeTurns
  <2>1. TypeOK'
    BY <1>2 DEF BridgeTurns, ingestVars, IInv, TypeOK
  <2>2. RanksInv' /\ ContextInv'
    BY <1>2 DEF BridgeTurns, ingestVars, IInv, RanksInv, ContextInv, JobOK, Stored, Overtook, Begun
  <2> QED
    BY <2>1, <2>2 DEF IInv
<1>3. ASSUME NEW m \in Posts,
             \/ Deliver(m) \/ Route(m) \/ Settle(m)
             \/ LoadContext(m) \/ Propose(m) \/ UseTools(m) \/ CheckStale(m)
      PROVE  IInv'
  BY <1>3, DeliverInv, RouteInv, SettleInv, LoadContextInv, ProposeInv, UseToolsInv, CheckStaleInv
<1>4. CASE UNCHANGED vars
  BY <1>4 DEF vars, ingestVars, IInv, TypeOK, RanksInv, ContextInv, JobOK, Stored, Overtook, Begun
<1> QED
  BY <1>1, <1>2, <1>3, <1>4 DEF Next

LEMMA Invariance == Spec => []IInv
BY InitInv, NextInv, PTL DEF Spec

\* Deliveries are well-formed, and no call of a provider is made more than
\* RetryAttempts times, whatever the routers and providers answer.
THEOREM TypeCorrect == Spec => []TypeOK
<1>1. IInv => TypeOK
  BY DEF IInv
<1> QED
  BY <1>1, Invariance, PTL

\* However many messages overlap, what one of them offers or answers was made
\* from its own words, unless its request overlapped the other's and was
\* accepted after it.
THEOREM OwnWordsOnly == Spec => []OwnWords
<1>1. IInv => OwnWords
  BY DEF IInv, ContextInv, JobOK, OwnWords
<1> QED
  BY <1>1, Invariance, PTL
=============================================================================
