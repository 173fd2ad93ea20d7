--------------------------- MODULE MessagesProofs ---------------------------
(***************************************************************************)
(* Safety of the message handler for any set of calls, any assignment of   *)
(* client message ids and any set of calls that fail.  The argument rests  *)
(* on the row lock: its holder is the one call between the UPDATE and the  *)
(* COMMIT, so the version it has drawn is still the next one when it       *)
(* commits.                                                                *)
(***************************************************************************)
EXTENDS Messages, TLAPS, FiniteSetTheorems

Unborn == {"new", "lookup", "known", "fresh", "locked"}

\* the lock is held exactly between the UPDATE and the end of the transaction,
\* and protects the version drawn
LockInv ==
    \A p \in Posts :
        /\ pc[p] = "locked" <=> lock = p
        /\ pc[p] = "locked" => drawn[p] = version + 1

\* what a call has done, by how far it is
ProgressInv ==
    \A p \in Posts :
        /\ pc[p] \in Unborn => stamp[p] = 0
        /\ pc[p] = "new" <=> began[p] = 0
        /\ pc[p] = "stored" => Stored(p) /\ stamp[p] = drawn[p] /\ p \notin sent
        /\ pc[p] = "enqueued" => Stored(p) /\ stamp[p] = drawn[p] /\ p \in sent
        /\ pc[p] = "known" => /\ found[p] \in Posts
                              /\ Stored(found[p])
                              /\ SameKey(p, found[p])
        /\ p \in sent => Stored(p)

IInv ==
    /\ TypeOK
    /\ LockInv
    /\ ProgressInv
    /\ VersionsIdentify
    /\ OneMessagePerKey
    /\ ReplyIsTruthful

-----------------------------------------------------------------------------
LEMMA BegunCount ==
    ASSUME TypeOK
    PROVE  Cardinality(Begun) \in Nat
<1>1. Begun \subseteq Posts
  BY DEF Begun
<1>2. IsFiniteSet(Begun)
  BY <1>1, PostsFinite, FS_Subset
<1> QED
  BY <1>2, FS_CardinalityType

LEMMA InitInv == Init => IInv
<1> SUFFICES ASSUME Init PROVE IInv
  OBVIOUS
<1> USE DEF Init, IngestInit
<1>1. TypeOK
  BY DEF TypeOK, Running, Final, Reply, NoReply
<1>2. LockInv /\ ProgressInv
  BY NobodyAssumption DEF LockInv, ProgressInv, Unborn
<1>3. VersionsIdentify /\ OneMessagePerKey /\ ReplyIsTruthful
  BY DEF VersionsIdentify, OneMessagePerKey, ReplyIsTruthful, Stored
<1> QED
  BY <1>1, <1>2, <1>3 DEF IInv

LEMMA NextInv == IInv /\ [Next]_vars => IInv'
<1> SUFFICES ASSUME IInv, [Next]_vars PROVE IInv'
  OBVIOUS
<1> USE NobodyAssumption DEF IInv
<1>1. ASSUME NEW p \in Posts, Open(p) PROVE IInv'
  <2> USE <1>1, BegunCount DEF Open, Begin, Goto
  <2>1. TypeOK'
    BY DEF TypeOK, Running, Final
  <2>2. LockInv' /\ ProgressInv'
    BY DEF TypeOK, LockInv, ProgressInv, Unborn, Stored, SameKey
  <2>3. VersionsIdentify' /\ OneMessagePerKey' /\ ReplyIsTruthful'
    BY DEF VersionsIdentify, OneMessagePerKey, ReplyIsTruthful, Stored, SameKey
  <2> QED BY <2>1, <2>2, <2>3
<1>2. ASSUME NEW p \in Posts, Lookup(p) PROVE IInv'
  <2> USE <1>2 DEF Lookup, Goto
  <2>1. TypeOK'
    BY DEF TypeOK, Running, Final
  <2>2. LockInv' /\ ProgressInv'
    BY DEF TypeOK, LockInv, ProgressInv, Unborn, Stored, SameKey
  <2>3. VersionsIdentify' /\ OneMessagePerKey' /\ ReplyIsTruthful'
    BY DEF VersionsIdentify, OneMessagePerKey, ReplyIsTruthful, Stored, SameKey
  <2> QED BY <2>1, <2>2, <2>3
<1>3. ASSUME NEW p \in Posts, Replay(p) PROVE IInv'
  <2> USE <1>3 DEF Replay, Goto, Answer
  <2>1. found[p] \in Posts /\ Stored(found[p]) /\ SameKey(p, found[p]) /\ ~Stored(p)
    BY DEF TypeOK, ProgressInv, Unborn, Stored
  <2>2. TypeOK'
    BY <2>1 DEF TypeOK, Running, Final, Reply
  <2>3. LockInv' /\ ProgressInv'
    BY DEF TypeOK, LockInv, ProgressInv, Unborn, Stored, SameKey
  <2>4. VersionsIdentify' /\ OneMessagePerKey'
    BY DEF VersionsIdentify, OneMessagePerKey, Stored, SameKey
  <2>5. ReplyIsTruthful'
    BY <2>1 DEF TypeOK, ReplyIsTruthful, VersionsIdentify, Stored, SameKey
  <2> QED BY <2>2, <2>3, <2>4, <2>5
<1>4. ASSUME NEW p \in Posts, Increment(p) PROVE IInv'
  <2> USE <1>4 DEF Increment, Goto
  <2>1. TypeOK'
    BY DEF TypeOK, Running, Final
  <2>2. LockInv' /\ ProgressInv'
    BY DEF TypeOK, LockInv, ProgressInv, Unborn, Stored, SameKey
  <2>3. VersionsIdentify' /\ OneMessagePerKey' /\ ReplyIsTruthful'
    BY DEF VersionsIdentify, OneMessagePerKey, ReplyIsTruthful, Stored, SameKey
  <2> QED BY <2>1, <2>2, <2>3
<1>5. ASSUME NEW p \in Posts, Store(p) PROVE IInv'
  <2> USE <1>5 DEF Store, Goto, Unique
  <2>1. drawn[p] = version + 1 /\ version \in Nat /\ ~Stored(p) /\ p \notin sent
    BY DEF TypeOK, LockInv, ProgressInv, Unborn, Stored
  <2>2. TypeOK'
    BY DEF TypeOK, Running, Final
  <2>3. LockInv'
    BY DEF TypeOK, LockInv
  <2>4. ProgressInv'
    BY <2>1 DEF TypeOK, ProgressInv, Unborn, Stored, SameKey
  <2>5. VersionsIdentify'
    <3>1. \A q \in Posts : stamp[q] <= version /\ stamp[q] \in Nat
      BY DEF VersionsIdentify, TypeOK
    <3>2. \A q \in Posts : stamp'[q] = IF q = p THEN version + 1 ELSE stamp[q]
      BY <2>1 DEF TypeOK
    <3>3. \A v \in 1..version' : \E q \in Posts : stamp'[q] = v
      <4> SUFFICES ASSUME NEW v \in 1..version' PROVE \E q \in Posts : stamp'[q] = v
        OBVIOUS
      <4>1. CASE v = version + 1
        BY <4>1, <3>2
      <4>2. CASE v # version + 1
        <5>1. v \in 1..version
          BY <4>2, <2>1
        <5>2. PICK q \in Posts : stamp[q] = v
          BY <5>1 DEF VersionsIdentify
        <5>3. q # p
          BY <5>1, <5>2, <2>1 DEF Stored
        <5> QED BY <5>2, <5>3, <3>2
      <4> QED BY <4>1, <4>2
    <3> QED
      BY <2>1, <3>1, <3>2, <3>3 DEF VersionsIdentify, Stored
  <2>6. OneMessagePerKey'
    BY <2>1 DEF TypeOK, OneMessagePerKey, Stored, SameKey
  <2>7. ReplyIsTruthful'
    <3>1. ASSUME NEW q \in Posts, Stored(q)
          PROVE  stamp'[q] = stamp[q] /\ Stored(q)'
      BY <3>1, <2>1 DEF TypeOK, Stored
    <3> QED
      BY <3>1 DEF ReplyIsTruthful, SameKey
  <2> QED BY <2>2, <2>3, <2>4, <2>5, <2>6, <2>7
<1>6. ASSUME NEW p \in Posts, Conflict(p) PROVE IInv'
  <2> USE <1>6 DEF Conflict, Goto
  <2>1. TypeOK'
    BY DEF TypeOK, Running, Final
  <2>2. LockInv' /\ ProgressInv'
    BY DEF TypeOK, LockInv, ProgressInv, Unborn, Stored, SameKey
  <2>3. VersionsIdentify' /\ OneMessagePerKey' /\ ReplyIsTruthful'
    BY DEF VersionsIdentify, OneMessagePerKey, ReplyIsTruthful, Stored, SameKey
  <2> QED BY <2>1, <2>2, <2>3
<1>7. ASSUME NEW p \in Posts, SendTask(p) PROVE IInv'
  <2> USE <1>7 DEF SendTask, Goto
  <2>1. Stored(p) /\ stamp[p] = drawn[p]
    BY DEF TypeOK, ProgressInv
  <2>2. TypeOK'
    BY <2>1 DEF TypeOK, Running, Final
  <2>3. LockInv' /\ ProgressInv'
    BY <2>1 DEF TypeOK, LockInv, ProgressInv, Unborn, Stored, SameKey
  <2>4. VersionsIdentify' /\ OneMessagePerKey' /\ ReplyIsTruthful'
    BY DEF VersionsIdentify, OneMessagePerKey, ReplyIsTruthful, Stored, SameKey
  <2> QED BY <2>2, <2>3, <2>4
<1>8. ASSUME NEW p \in Posts, Respond(p) PROVE IInv'
  <2> USE <1>8 DEF Respond, Goto, Answer
  <2>1. Stored(p) /\ stamp[p] = drawn[p] /\ drawn[p] \in Nat /\ p \in sent
    BY DEF TypeOK, ProgressInv
  <2>2. TypeOK'
    BY <2>1 DEF TypeOK, Running, Final, Reply
  <2>3. LockInv' /\ ProgressInv'
    BY <2>1 DEF TypeOK, LockInv, ProgressInv, Unborn, Stored, SameKey
  <2>4. VersionsIdentify' /\ OneMessagePerKey'
    BY DEF VersionsIdentify, OneMessagePerKey, Stored, SameKey
  <2>5. ReplyIsTruthful'
    BY <2>1 DEF TypeOK, ReplyIsTruthful, Stored, SameKey
  <2> QED BY <2>2, <2>3, <2>4, <2>5
<1>9. ASSUME NEW p \in Posts, Fail(p) PROVE IInv'
  <2> USE <1>9 DEF Fail
  <2>1. TypeOK'
    BY DEF TypeOK, Running, Final
  <2>2. LockInv' /\ ProgressInv'
    BY DEF TypeOK, LockInv, ProgressInv, Unborn, Running, Stored, SameKey
  <2>3. VersionsIdentify' /\ OneMessagePerKey' /\ ReplyIsTruthful'
    BY DEF VersionsIdentify, OneMessagePerKey, ReplyIsTruthful, Stored, SameKey
  <2> QED BY <2>1, <2>2, <2>3
<1>10. ASSUME UNCHANGED vars PROVE IInv'
  BY <1>10 DEF vars, TypeOK, LockInv, ProgressInv, VersionsIdentify,
              OneMessagePerKey, ReplyIsTruthful, Stored, SameKey
<1> QED
  BY <1>1, <1>2, <1>3, <1>4, <1>5, <1>6, <1>7, <1>8, <1>9, <1>10 DEF Next, Step

\* The inductive invariant holds in every reachable state.
THEOREM Invariant == Spec => []IInv
  BY InitInv, NextInv, PTL DEF Spec

\* Every variable keeps its type.
THEOREM TypeCorrect == Spec => []TypeOK
<1>1. IInv => TypeOK
  BY DEF IInv
<1> QED BY <1>1, Invariant, PTL

\* The stored messages carry the versions 1 .. version, each exactly one,
\* whatever calls overlap, conflict or die (create_message, increment_version).
THEOREM Versions == Spec => []VersionsIdentify
<1>1. IInv => VersionsIdentify
  BY DEF IInv
<1> QED BY <1>1, Invariant, PTL

\* A client message id stores at most one message (the lookup of create_message
\* backed by the unique constraint).
THEOREM Idempotent == Spec => []OneMessagePerKey
<1>1. IInv => OneMessagePerKey
  BY DEF IInv
<1> QED BY <1>1, Invariant, PTL

\* A response tells the truth about what is stored and what is enqueued.
THEOREM Truthful == Spec => []ReplyIsTruthful
<1>1. IInv => ReplyIsTruthful
  BY DEF IInv
<1> QED BY <1>1, Invariant, PTL

\* Each step of the handler is a step of the atomic acceptance, or invisible.
THEOREM Refinement == Spec => ImplementsIngest
<1>1. Init => IngestInit
  BY DEF Init
<1>2. IInv /\ [Next]_vars => [IngestNext]_ingestVars
  <2> SUFFICES ASSUME IInv, [Next]_vars PROVE [IngestNext]_ingestVars
    OBVIOUS
  <2> USE DEF ingestVars, IngestNext
  <2>1. ASSUME NEW p \in Posts, Open(p) PROVE IngestNext
    BY <2>1 DEF Open
  <2>2. ASSUME NEW p \in Posts, Store(p) PROVE IngestNext
    <3>1. drawn[p] = version + 1 /\ ~Stored(p) /\ began[p] > 0
      BY <2>2 DEF Store, Goto, IInv, TypeOK, LockInv, ProgressInv, Unborn, Stored
    <3>2. Accept(p)
      BY <2>2, <3>1 DEF Store, Accept, Unique
    <3> QED BY <3>2
  <2>3. ASSUME NEW p \in Posts, SendTask(p) PROVE IngestNext
    <3>1. Stored(p) /\ p \notin sent
      BY <2>3 DEF SendTask, Goto, IInv, ProgressInv
    <3>2. Send(p)
      BY <2>3, <3>1 DEF SendTask, Send
    <3> QED BY <3>2
  <2>4. ASSUME NEW p \in Posts,
               Lookup(p) \/ Replay(p) \/ Increment(p) \/ Conflict(p) \/ Respond(p) \/ Fail(p)
        PROVE  UNCHANGED ingestVars
    BY <2>4 DEF Lookup, Replay, Increment, Conflict, Respond, Fail
  <2>5. CASE UNCHANGED vars
    BY <2>5 DEF vars
  <2> QED BY <2>1, <2>2, <2>3, <2>4, <2>5 DEF Next, Step
<1> QED
  BY <1>1, <1>2, Invariant, PTL DEF Spec, ImplementsIngest, IngestSpec
=============================================================================
