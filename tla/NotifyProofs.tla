---------------------------- MODULE NotifyProofs ----------------------------
(***************************************************************************)
(* Proofs about the notifications of module Notify, for any devices,       *)
(* batches, modes and answers of OneSignal.                                *)
(*                                                                         *)
(* A batch keeps two sequences of the same devices: the rows it has read   *)
(* and the order it sends in.  IInv says that the second is a permutation  *)
(* of the first, and is the first itself unless the platforms alternate;   *)
(* that the counters are those of the results settled so far; and that a   *)
(* device has been reached at most once per attempt.                       *)
(***************************************************************************)
EXTENDS Notify, TLAPS, FiniteSetTheorems

Pc == {"idle", "reading", "sending", "settling", "returned", "done", "aborted"}
Row == [id : Devices, platform : Platforms]
Rows == Seq(Row)
Counts == [sent : Nat, failed : Nat, deactivated : Nat]
Call == [pc : Pc, mode : Mode, asked : Nat, list : Rows, order : Rows,
         task : [Devices -> Task], stats : Counts, off : SUBSET Devices]

\* no device comes twice
Distinct(list) == \A i, j \in 1 .. Len(list) : list[i].id = list[j].id => i = j

Done(c) == c.stats.sent + c.stats.failed

\* the rows of the first n sends that ended so
Ended(c, n, state) == {c.order[i] : i \in {j \in 1 .. n : c.task[c.order[j].id].state = state}}

\* before the rows are known
Unread(c) == /\ c.order = <<>> /\ c.stats = NoStats /\ c.off = {}
             /\ \A d \in Devices : c.task[d] = NoTask

\* The rows that ids have given so far.
ReadingOK(b, c) ==
    /\ c.pc = "idle" => c.asked = 0 /\ c.list = <<>>
    /\ c.pc = "reading" => Targets[b] # Nil /\ c.asked < Len(Targets[b])
    /\ c.pc \in {"idle", "reading"} =>
          /\ Unread(c)
          /\ \A i \in 1 .. Len(c.list) : \E j \in 1 .. c.asked :
                j <= Len(Targets[b]) /\ c.list[i].id = Targets[b][j]

\* The order is a permutation of the rows.
OrderOK(b, c) ==
    /\ Distinct(c.list) /\ Distinct(c.order)
    /\ c.pc \in {"sending", "settling", "returned", "done"} =>
          /\ Len(c.order) = Len(c.list)
          /\ ToSet(c.order) = ToSet(c.list)
          /\ (Targets[b] # Nil \/ ~ Alternates(c.list)) => c.order = c.list

\* The counters are those of the results that have been settled.
CountsOK(c) ==
    /\ Done(c) <= Len(c.order)
    /\ c.stats.sent = Cardinality(Ended(c, Done(c), "sent"))
    /\ c.stats.deactivated = Cardinality(Ended(c, Done(c), "invalid_token"))
    /\ c.stats.deactivated <= c.stats.failed
    /\ c.pc = "sending" => c.stats = NoStats /\ Len(c.order) > 0
    /\ c.pc = "settling" => Done(c) < Len(c.order)
    /\ c.pc \in {"returned", "done"} => Done(c) = Len(c.order)
    /\ c.pc \in {"settling", "returned"} =>
          \A i \in 1 .. Len(c.order) : c.task[c.order[i].id].state \in Result

\* A device is switched off for its own token, unless the order is not the list.
OffOK(b, c) ==
    /\ c.pc = "sending" => c.off = {}
    /\ \A d \in c.off :
          c.task[d].state = "invalid_token" \/ (Targets[b] = Nil /\ Alternates(c.list))

\* A device is reached at most once in each attempt, and at least once if sent.
PushedOK(c, times) ==
    \A d \in Devices :
        /\ c.task[d].state = "ready" => times[d] <= c.task[d].attempt
        /\ times[d] <= c.task[d].attempt + 1
        /\ c.task[d].state = "sent" /\ c.mode = "on" => times[d] >= 1

CallOK(b, c, times) ==
    /\ ReadingOK(b, c)
    /\ OrderOK(b, c)
    /\ CountsOK(c)
    /\ OffOK(b, c)
    /\ PushedOK(c, times)

IInv ==
    /\ row \in [Devices -> {"absent", "active", "inactive"}]
    /\ platform \in [Devices -> Platforms]
    /\ subscribed \subseteq Devices
    /\ batch \in [Batches -> Call]
    /\ pushed \in [Batches -> [Devices -> Nat]]
    /\ \A b \in Batches : CallOK(b, batch[b], pushed[b])

-----------------------------------------------------------------------------
(* Grouping the rows. *)

Ahead(list, i) ==
    {k \in 1 .. Len(list) : \A m \in 1 .. k : list[m].platform # list[i].platform}

\* the rows that do not go behind the i-th
Upto(list, i) ==
    {j \in 1 .. Len(list) : IF Ahead(list, j) = Ahead(list, i) THEN j <= i
                            ELSE Ahead(list, j) \subseteq Ahead(list, i)}

Place(list, i) == Cardinality(Upto(list, i))

LEMMA GroupedByPlace ==
    ASSUME NEW list
    PROVE  Grouped(list) = [n \in 1 .. Len(list) |->
                              list[CHOOSE i \in 1 .. Len(list) : Place(list, i) = n]]
  BY DEF Grouped, Place, Upto, Ahead

\* The sets of the rows ahead are initial segments: one of two contains the other.
LEMMA AheadOrdered ==
    ASSUME NEW list \in Rows, NEW i \in 1 .. Len(list), NEW j \in 1 .. Len(list)
    PROVE  Ahead(list, i) \subseteq Ahead(list, j) \/ Ahead(list, j) \subseteq Ahead(list, i)
<1> SUFFICES ASSUME NEW k \in Ahead(list, i), k \notin Ahead(list, j),
                    NEW l \in Ahead(list, j)
             PROVE  l \in Ahead(list, i)
  OBVIOUS
<1>1. k \in Nat /\ l \in Nat /\ k \in 1 .. Len(list) /\ l \in 1 .. Len(list)
  BY DEF Ahead, Rows
<1>2. PICK m \in 1 .. k : list[m].platform = list[j].platform
  BY <1>1 DEF Ahead
<1>3. ~ m \in 1 .. l
  BY <1>2 DEF Ahead
<1>4. l < k
  BY <1>1, <1>2, <1>3
<1>5. \A n \in 1 .. l : n \in 1 .. k
  BY <1>1, <1>4
<1> QED
  BY <1>1, <1>5 DEF Ahead

LEMMA UptoChain ==
    ASSUME NEW list \in Rows, NEW i \in 1 .. Len(list), NEW j \in 1 .. Len(list), i # j
    PROVE  \/ Upto(list, i) \subseteq Upto(list, j) /\ j \notin Upto(list, i)
           \/ Upto(list, j) \subseteq Upto(list, i) /\ i \notin Upto(list, j)
<1>1. Len(list) \in Nat
  BY DEF Rows
<1>2. CASE Ahead(list, i) = Ahead(list, j)
  BY <1>1, <1>2 DEF Upto
<1>3. CASE Ahead(list, i) # Ahead(list, j)
  BY <1>1, <1>3, AheadOrdered DEF Upto
<1> QED
  BY <1>2, <1>3

\* Every row has a place of its own.
LEMMA PlaceBijective ==
    ASSUME NEW list \in Rows
    PROVE  /\ \A i \in 1 .. Len(list) : Place(list, i) \in 1 .. Len(list)
           /\ \A i, j \in 1 .. Len(list) : Place(list, i) = Place(list, j) => i = j
           /\ \A n \in 1 .. Len(list) : \E i \in 1 .. Len(list) : Place(list, i) = n
<1> DEFINE N == 1 .. Len(list)
<1>1. Len(list) \in Nat /\ IsFiniteSet(N) /\ Cardinality(N) = Len(list)
  <2>1. Len(list) \in Nat
    BY DEF Rows
  <2>2. 1 \in Int /\ Len(list) \in Int
    BY <2>1
  <2>3. IsFiniteSet(N) /\ Cardinality(N) = IF 1 > Len(list) THEN 0 ELSE Len(list) - 1 + 1
    BY <2>2, FS_Interval
  <2> QED
    BY <2>1, <2>3
<1>2. ASSUME NEW i \in N
      PROVE  /\ IsFiniteSet(Upto(list, i)) /\ i \in Upto(list, i)
             /\ Place(list, i) \in N
  <2>1. i \in Upto(list, i) /\ Upto(list, i) \in SUBSET N
    BY <1>1 DEF Upto
  <2>2. IsFiniteSet(Upto(list, i)) /\ Place(list, i) <= Len(list)
    BY <1>1, <2>1, FS_Subset DEF Place
  <2>3. Place(list, i) \in Nat /\ Place(list, i) # 0
    BY <2>1, <2>2, FS_EmptySet, FS_CardinalityType DEF Place
  <2> QED
    BY <1>1, <2>1, <2>2, <2>3
<1>3. ASSUME NEW i \in N, NEW j \in N, i # j
      PROVE  Place(list, i) # Place(list, j)
  <2>1. CASE Upto(list, i) \subseteq Upto(list, j) /\ j \notin Upto(list, i)
    BY <1>2, <2>1, FS_Subset DEF Place
  <2>2. CASE Upto(list, j) \subseteq Upto(list, i) /\ i \notin Upto(list, j)
    BY <1>2, <2>2, FS_Subset DEF Place
  <2> QED
    BY <1>3, <2>1, <2>2, UptoChain
<1> DEFINE f == [i \in N |-> Place(list, i)]
<1>4. f \in Injection(N, N)
  BY <1>2, <1>3 DEF Injection, IsInjective
<1>5. f \in Surjection(N, N)
  BY <1>1, <1>4, FS_Injection
<1> QED
  BY <1>2, <1>3, <1>5 DEF Surjection

LEMMA GroupedPermutes ==
    ASSUME NEW list \in Rows
    PROVE  /\ Grouped(list) \in Rows
           /\ Len(Grouped(list)) = Len(list)
           /\ ToSet(Grouped(list)) = ToSet(list)
           /\ Distinct(list) => Distinct(Grouped(list))
<1> DEFINE N == 1 .. Len(list)
<1> DEFINE at(n) == CHOOSE i \in N : Place(list, i) = n
<1>1. /\ \A n \in N : at(n) \in N /\ Place(list, at(n)) = n
      /\ \A i \in N : \E n \in N : at(n) = i
  BY PlaceBijective
<1>2. \A m, n \in N : at(m) = at(n) => m = n
  BY <1>1
<1>3. Grouped(list) = [n \in N |-> list[at(n)]]
  BY GroupedByPlace
<1> HIDE DEF at
<1>4. Len(list) \in Nat /\ list \in [N -> Row]
  BY DEF Rows
<1>5. Grouped(list) \in [N -> Row]
  BY <1>1, <1>3, <1>4
<1>6. Grouped(list) \in Rows /\ Len(Grouped(list)) = Len(list)
  BY <1>4, <1>5 DEF Rows
<1>7. ToSet(Grouped(list)) = ToSet(list)
  BY <1>1, <1>3, <1>4 DEF ToSet
<1>8. ASSUME Distinct(list)
      PROVE  Distinct(Grouped(list))
  BY <1>1, <1>2, <1>3, <1>6, <1>8 DEF Distinct
<1> QED
  BY <1>6, <1>7, <1>8

\* Unless the platforms alternate, nothing moves.
LEMMA GroupedKeeps ==
    ASSUME NEW list \in Rows, ~ Alternates(list)
    PROVE  Grouped(list) = list
<1> DEFINE N == 1 .. Len(list)
<1>1. Len(list) \in Nat /\ list \in [N -> Row]
  BY DEF Rows
<1>2. ASSUME NEW i \in N, NEW j \in N, i < j
      PROVE  Ahead(list, i) \subseteq Ahead(list, j)
  <2> SUFFICES ASSUME NEW k \in Ahead(list, i), k \notin Ahead(list, j)
               PROVE  FALSE
    OBVIOUS
  <2>1. k \in N /\ ~ i \in 1 .. k
    BY DEF Ahead
  <2>2. PICK m \in 1 .. k : list[m].platform = list[j].platform
    BY <2>1 DEF Ahead
  <2>3. list[m].platform # list[i].platform
    BY <2>2 DEF Ahead
  <2>4. m \in N /\ m < i
    BY <1>1, <2>1, <2>2
  <2> QED
    BY <1>2, <2>2, <2>3, <2>4 DEF Alternates
<1>3. ASSUME NEW i \in N
      PROVE  Place(list, i) = i
  <2>1. ASSUME NEW j \in N
        PROVE  j \in Upto(list, i) <=> j <= i
    <3>1. CASE j < i
      BY <1>1, <1>2, <3>1 DEF Upto
    <3>2. CASE j = i
      BY <1>1, <3>2 DEF Upto
    <3>3. CASE i < j
      <4>1. Ahead(list, j) \subseteq Ahead(list, i) => Ahead(list, j) = Ahead(list, i)
        BY <1>2, <3>3
      <4> QED
        BY <1>1, <3>3, <4>1 DEF Upto
    <3> QED
      BY <1>1, <3>1, <3>2, <3>3
  <2>2. Upto(list, i) = 1 .. i
    BY <1>1, <2>1 DEF Upto
  <2> QED
    BY <1>1, <2>2, FS_Interval DEF Place
<1>4. \A n \in N : (CHOOSE i \in N : Place(list, i) = n) = n
  BY <1>3
<1> QED
  BY <1>1, <1>4, GroupedByPlace

-----------------------------------------------------------------------------
(* Steps of one batch. *)

LEMMA Freshly ==
    /\ NoBatch \in Call /\ NoTask \in Task /\ NoStats \in Counts
    /\ \A b \in Batches : CallOK(b, NoBatch, [d \in Devices |-> 0])
<1>1. NoTask \in Task /\ NoStats \in Counts
  BY DEF NoTask, Task, MaxRetries, NoStats, Counts
<1>2. <<>> \in Rows /\ [d \in Devices |-> NoTask] \in [Devices -> Task]
  BY <1>1 DEF Rows
<1>3. NoBatch \in Call
  BY <1>1, <1>2 DEF NoBatch, Call, Pc, Mode
<1>4. ASSUME NEW b \in Batches
      PROVE  CallOK(b, NoBatch, [d \in Devices |-> 0])
  <2>1. ReadingOK(b, NoBatch)
    BY DEF ReadingOK, NoBatch, Unread
  <2>2. OrderOK(b, NoBatch)
    BY DEF OrderOK, NoBatch, Distinct
  <2>3. CountsOK(NoBatch)
    <3>1. NoBatch.pc = "idle" /\ NoBatch.stats = NoStats /\ Len(NoBatch.order) = 0
      BY DEF NoBatch
    <3>2. Done(NoBatch) = 0 /\ NoStats.sent = 0 /\ NoStats.deactivated = 0 /\ NoStats.failed = 0
      BY <3>1 DEF Done, NoStats
    <3>3. \A state : Ended(NoBatch, Done(NoBatch), state) = {}
      BY <3>2 DEF Ended
    <3>4. \A state : Cardinality(Ended(NoBatch, Done(NoBatch), state)) = 0
      BY <3>3, FS_EmptySet
    <3> QED
      BY <3>1, <3>2, <3>4 DEF CountsOK
  <2>4. OffOK(b, NoBatch) /\ PushedOK(NoBatch, [d \in Devices |-> 0])
    BY DEF OffOK, PushedOK, NoBatch, NoTask
  <2> QED
    BY <2>1, <2>2, <2>3, <2>4 DEF CallOK
<1> QED
  BY <1>1, <1>3, <1>4

LEMMA InitInv ==
    ASSUME Init
    PROVE  IInv
<1>1. platform \in [Devices -> Platforms] /\ row \in [Devices -> {"absent", "active", "inactive"}]
  BY DEF Init
<1>2. subscribed \subseteq Devices
  BY DEF Init
<1>3. batch \in [Batches -> Call] /\ pushed \in [Batches -> [Devices -> Nat]]
  BY Freshly DEF Init
<1>4. \A b \in Batches : CallOK(b, batch[b], pushed[b])
  BY Freshly DEF Init
<1> QED
  BY <1>1, <1>2, <1>3, <1>4 DEF IInv

\* A step that leaves the batches alone.
LEMMA RowStep ==
    ASSUME IInv, UNCHANGED <<batch, pushed>>,
           row' \in [Devices -> {"absent", "active", "inactive"}],
           platform' \in [Devices -> Platforms], subscribed' \subseteq Devices
    PROVE  IInv'
  BY DEF IInv

\* A step that changes one batch.
LEMMA BatchStep ==
    ASSUME IInv, NEW b \in Batches, NEW k \in Call, NEW times \in [Devices -> Nat],
           Set(b, k), pushed' = [pushed EXCEPT ![b] = times], CallOK(b, k, times),
           UNCHANGED <<row, platform, subscribed>>
    PROVE  IInv'
<1>1. batch' \in [Batches -> Call] /\ pushed' \in [Batches -> [Devices -> Nat]]
  BY DEF IInv, Set
<1>2. \A a \in Batches : CallOK(a, batch'[a], pushed'[a])
  BY DEF IInv, Set
<1> QED
  BY <1>1, <1>2 DEF IInv

LEMMA QuietStep ==
    ASSUME IInv, NEW b \in Batches, NEW k \in Call,
           Set(b, k), CallOK(b, k, pushed[b]),
           UNCHANGED <<row, platform, subscribed, pushed>>
    PROVE  IInv'
<1>1. pushed[b] \in [Devices -> Nat] /\ pushed' = [pushed EXCEPT ![b] = pushed[b]]
  BY DEF IInv
<1> QED
  BY <1>1, BatchStep

LEMMA BatchFacts ==
    ASSUME IInv, NEW b \in Batches
    PROVE  /\ batch[b] \in Call
           /\ pushed[b] \in [Devices -> Nat]
           /\ CallOK(b, batch[b], pushed[b])
  BY DEF IInv

-----------------------------------------------------------------------------
(* The devices. *)

LEMMA RegisterInv ==
    ASSUME IInv, NEW d \in Devices, Register(d)
    PROVE  IInv'
<1>1. PICK p \in PlatformsOf[d] : platform' = [platform EXCEPT ![d] = p]
  BY DEF Register
<1>2. p \in Platforms
  BY InputsAssumption
<1>3. platform' \in [Devices -> Platforms]
  BY <1>1, <1>2 DEF IInv
<1>4. row' \in [Devices -> {"absent", "active", "inactive"}] /\ subscribed' \subseteq Devices
  BY DEF IInv, Register
<1> QED
  BY <1>3, <1>4, RowStep DEF Register

LEMMA DeleteInv ==
    ASSUME IInv, NEW d \in Devices, Delete(d)
    PROVE  IInv'
<1>1. row' \in [Devices -> {"absent", "active", "inactive"}]
  BY DEF IInv, Delete
<1> QED
  BY <1>1, RowStep DEF IInv, Delete

LEMMA LeaveInv ==
    ASSUME IInv, NEW d \in Devices, Leave(d)
    PROVE  IInv'
  BY RowStep DEF IInv, Leave

-----------------------------------------------------------------------------
(* The rows a batch sends to. *)

LEMMA EntryFacts ==
    ASSUME IInv
    PROVE  \A d \in Devices : Entry(d) \in Row /\ Entry(d).id = d
  BY DEF IInv, Entry, Row

\* Once the rows are known, in an order that permutes them.
LEMMA GatherOK ==
    ASSUME NEW b \in Batches, NEW c \in Call, NEW times,
           c.pc \in {"idle", "reading"}, Unread(c), PushedOK(c, times),
           NEW list \in Rows, Distinct(list), NEW order \in Rows, Distinct(order),
           Len(order) = Len(list), ToSet(order) = ToSet(list),
           (Targets[b] # Nil \/ ~ Alternates(list)) => order = list
    PROVE  Gather(c, list, order) \in Call /\ CallOK(b, Gather(c, list, order), times)
<1>1. PICK k : k = Gather(c, list, order)
  OBVIOUS
<1>2. /\ k.pc \in {"returned", "sending"} /\ k.list = list /\ k.order = order
      /\ k.pc = "returned" <=> list = <<>>
      /\ k.mode = c.mode /\ k.asked = c.asked /\ k.task = c.task
      /\ k.stats = c.stats /\ k.off = c.off
  BY <1>1 DEF Gather, Call
<1>3. k \in Call
  BY <1>1 DEF Gather, Call, Pc
<1>4. ReadingOK(b, k)
  BY <1>2 DEF ReadingOK
<1>5. OrderOK(b, k)
  BY <1>2 DEF OrderOK
<1>6. CountsOK(k)
  <2>1. Done(k) = 0 /\ k.stats = NoStats
    BY <1>2 DEF Done, Unread, NoStats
  <2>2. \A state : Cardinality(Ended(k, Done(k), state)) = 0
    <3>1. \A state : Ended(k, Done(k), state) = {}
      BY <2>1 DEF Ended
    <3> QED
      BY <3>1, FS_EmptySet
  <2>3. Len(order) \in Nat /\ (list = <<>> <=> Len(order) = 0)
    BY DEF Rows
  <2>4. NoStats.sent = 0 /\ NoStats.deactivated = 0 /\ NoStats.failed = 0
    BY DEF NoStats
  <2> QED
    BY <1>2, <2>1, <2>2, <2>3, <2>4 DEF CountsOK
<1>7. OffOK(b, k) /\ PushedOK(k, times)
  BY <1>2 DEF OffOK, PushedOK, Unread
<1> QED
  BY <1>1, <1>3, <1>4, <1>5, <1>6, <1>7 DEF CallOK

LEMMA StillUnread ==
    ASSUME NEW b, NEW c, NEW k, NEW times, CallOK(b, c, times),
           c.pc \in {"idle", "reading"},
           k.order = c.order, k.stats = c.stats, k.off = c.off, k.task = c.task
    PROVE  Unread(c) /\ Unread(k) /\ PushedOK(k, times)
<1>1. Unread(c)
  BY DEF CallOK, ReadingOK
<1>2. Unread(k)
  BY <1>1 DEF Unread
<1>3. PushedOK(k, times)
  BY <1>1 DEF CallOK, PushedOK, Unread, NoTask
<1> QED
  BY <1>1, <1>2, <1>3

LEMMA ActiveRows ==
    ASSUME IInv, NEW list \in SetToSeqs(ActiveNow)
    PROVE  list \in Rows /\ Distinct(list)
<1> DEFINE S == {e \in Devices : row[e] = "active"}
<1> DEFINE f == [d \in S |-> Entry(d)]
<1>1. IsFiniteSet(S)
  BY DevicesAssumption, FS_Subset
<1>2. f \in Surjection(S, ActiveNow)
  BY DEF Surjection, ActiveNow
<1>3. Cardinality(ActiveNow) \in Nat
  BY <1>1, <1>2, FS_Surjection, FS_CardinalityType
<1>4. /\ list \in [1 .. Cardinality(ActiveNow) -> ActiveNow]
      /\ \A i, j \in 1 .. Cardinality(ActiveNow) : i # j => list[i] # list[j]
  BY DEF SetToSeqs
<1>5. ActiveNow \subseteq Row /\ \A x, y \in ActiveNow : x.id = y.id => x = y
  BY EntryFacts DEF ActiveNow
<1>6. list \in Rows /\ Len(list) = Cardinality(ActiveNow)
  BY <1>3, <1>4, <1>5 DEF Rows
<1> QED
  BY <1>4, <1>5, <1>6 DEF Distinct

LEMMA ReadUserInv ==
    ASSUME IInv, NEW b \in Batches, ReadUser(b)
    PROVE  IInv'
<1>1. PICK mode \in Modes[b], list \in SetToSeqs(ActiveNow) :
          Set(b, Gather([batch[b] EXCEPT !.mode = mode], list, Grouped(list)))
  BY DEF ReadUser
<1>2. PICK c \in Call : c = batch[b] /\ CallOK(b, c, pushed[b]) /\ c.pc = "idle"
  BY BatchFacts DEF ReadUser, At
<1>3. mode \in Mode
  BY InputsAssumption
<1>4. PICK k : k = [c EXCEPT !.mode = mode]
  OBVIOUS
<1>5. /\ k \in Call /\ k.pc = c.pc /\ k.order = c.order
      /\ k.stats = c.stats /\ k.off = c.off /\ k.task = c.task
  BY <1>3, <1>4 DEF Call
<1>6. Unread(k) /\ PushedOK(k, pushed[b])
  BY <1>2, <1>5, StillUnread
<1>7. list \in Rows /\ Distinct(list)
  BY ActiveRows
<1>8. PICK next : next = Gather(k, list, Grouped(list))
  OBVIOUS
<1>9. next \in Call /\ CallOK(b, next, pushed[b])
  BY <1>2, <1>5, <1>6, <1>7, <1>8, GatherOK, GroupedPermutes, GroupedKeeps DEF ReadUser
<1> QED
  BY <1>1, <1>2, <1>4, <1>8, <1>9, QuietStep DEF ReadUser

LEMMA ReadDeviceInv ==
    ASSUME IInv, NEW b \in Batches, ReadDevice(b)
    PROVE  IInv'
<1> DEFINE n == batch[b].asked + 1
<1> DEFINE id == Targets[b][n]
<1> DEFINE list == IF row[id] = "active" THEN Append(batch[b].list, Entry(id))
                   ELSE batch[b].list
<1>1. PICK mode : /\ mode \in (IF n = 1 THEN Modes[b] ELSE {batch[b].mode})
                  /\ Set(b, IF n < Len(Targets[b])
                            THEN [[batch[b] EXCEPT !.mode = mode, !.asked = n]
                                     EXCEPT !.list = list, !.pc = "reading"]
                            ELSE Gather([batch[b] EXCEPT !.mode = mode, !.asked = n], list, list))
  BY DEF ReadDevice
<1>2. PICK c \in Call : c = batch[b] /\ CallOK(b, c, pushed[b]) /\ c.pc \in {"idle", "reading"}
  BY BatchFacts DEF ReadDevice
<1>3. /\ Targets[b] \in Seq(Devices) /\ Targets[b] # <<>>
      /\ \A i, j \in 1 .. Len(Targets[b]) : Targets[b][i] = Targets[b][j] => i = j
  BY TargetsAssumption DEF ReadDevice
<1>4. /\ c.asked \in Nat /\ n \in Nat /\ n = c.asked + 1 /\ n \in 1 .. Len(Targets[b])
      /\ c.list \in Rows /\ c.mode \in Mode
  <2>1. c.asked \in Nat /\ c.list \in Rows /\ c.mode \in Mode
    BY DEF Call
  <2>2. c.asked < Len(Targets[b])
    BY <1>2, <1>3, <2>1 DEF CallOK, ReadingOK
  <2> QED
    BY <1>2, <1>3, <2>1, <2>2
<1>5. id \in Devices
  BY <1>3, <1>4
<1>6. mode \in Mode
  BY <1>1, <1>2, <1>4, InputsAssumption
<1>7. Unread(c) /\ \A i \in 1 .. Len(c.list) : \E j \in 1 .. c.asked :
                      j <= Len(Targets[b]) /\ c.list[i].id = Targets[b][j]
  BY <1>2 DEF CallOK, ReadingOK
<1>8. /\ list \in Rows /\ Distinct(list)
      /\ \A i \in 1 .. Len(list) : \E j \in 1 .. n :
            j <= Len(Targets[b]) /\ list[i].id = Targets[b][j]
  <2>1. Distinct(c.list) /\ Len(c.list) \in Nat
    BY <1>2, <1>4 DEF CallOK, OrderOK, Rows
  <2>2. CASE row[id] = "active"
    <3>1. list = Append(c.list, Entry(id)) /\ Entry(id) \in Row /\ Entry(id).id = id
      BY <1>2, <1>5, <2>2, EntryFacts
    <3>2. /\ list \in Rows /\ Len(list) = Len(c.list) + 1
          /\ \A i \in 1 .. Len(c.list) : list[i] = c.list[i]
          /\ list[Len(list)] = Entry(id)
      <4>1. PICK new \in Row : new = Entry(id)
        BY <3>1
      <4>2. c.list \in Seq(Row) /\ list = Append(c.list, new)
        BY <1>4, <3>1, <4>1 DEF Rows
      <4> HIDE DEF list
      <4> QED
        BY <4>1, <4>2 DEF Rows
    <3>3. ASSUME NEW i \in 1 .. Len(c.list)
          PROVE  list[i].id # id
      <4>1. PICK j \in 1 .. c.asked : j <= Len(Targets[b]) /\ c.list[i].id = Targets[b][j]
        BY <1>7
      <4>2. j \in 1 .. Len(Targets[b]) /\ j # n
        BY <1>3, <1>4, <4>1
      <4>3. Targets[b][j] # Targets[b][n]
        BY <1>3, <1>4, <4>2
      <4> QED
        BY <3>2, <4>1, <4>3
    <3> HIDE DEF list
    <3>4. \A i \in 1 .. Len(list) : i \in 1 .. Len(c.list) \/ i = Len(list)
      BY <2>1, <3>2
    <3>5. Distinct(list)
      BY <2>1, <3>1, <3>2, <3>3, <3>4 DEF Distinct
    <3>6. ASSUME NEW i \in 1 .. Len(list)
          PROVE  \E j \in 1 .. n : j <= Len(Targets[b]) /\ list[i].id = Targets[b][j]
      <4>1. CASE i \in 1 .. Len(c.list)
        <5>1. PICK j \in 1 .. c.asked :
                  j <= Len(Targets[b]) /\ c.list[i].id = Targets[b][j]
          BY <1>7, <4>1
        <5>2. list[i].id = Targets[b][j]
          BY <3>2, <4>1, <5>1
        <5> QED
          BY <1>4, <5>1, <5>2
      <4>2. CASE i = Len(list)
        <5>1. list[i].id = Targets[b][n]
          BY <3>1, <3>2, <4>2
        <5> QED
          BY <1>4, <5>1
      <4> QED
        BY <3>4, <4>1, <4>2
    <3> QED
      BY <3>2, <3>5, <3>6
  <2>3. CASE row[id] # "active"
    BY <1>2, <1>4, <1>7, <2>1, <2>3
  <2> QED
    BY <2>2, <2>3
<1> HIDE DEF list
<1>9. PICK k : k = [c EXCEPT !.mode = mode, !.asked = n]
  OBVIOUS
<1>10. /\ k \in Call /\ k.pc = c.pc /\ k.asked = n /\ k.order = c.order
       /\ k.stats = c.stats /\ k.off = c.off /\ k.task = c.task
  BY <1>4, <1>6, <1>9 DEF Call
<1>11. Unread(k) /\ PushedOK(k, pushed[b])
  BY <1>2, <1>10, StillUnread
<1>12. CASE n < Len(Targets[b])
  <2>1. PICK next : next = [k EXCEPT !.list = list, !.pc = "reading"]
    OBVIOUS
  <2>2. /\ next \in Call /\ next.pc = "reading" /\ next.list = list /\ next.asked = n
        /\ next.order = c.order /\ next.stats = c.stats /\ next.off = c.off
        /\ next.task = c.task
    BY <1>8, <1>10, <2>1 DEF Call, Pc
  <2>3. Unread(next) /\ PushedOK(next, pushed[b])
    BY <1>2, <2>2, StillUnread
  <2>4. ReadingOK(b, next) /\ OrderOK(b, next) /\ OffOK(b, next)
    <3>1. Distinct(next.order)
      BY <1>2, <2>2 DEF CallOK, OrderOK
    <3> QED
      BY <1>8, <1>12, <2>2, <2>3, <3>1 DEF ReadDevice, ReadingOK, OrderOK, OffOK, Unread
  <2>5. CountsOK(next)
    <3>1. CountsOK(c)
      BY <1>2 DEF CallOK
    <3>2. Done(next) = Done(c) /\ \A m, state : Ended(next, m, state) = Ended(c, m, state)
      BY <2>2 DEF Done, Ended
    <3> QED
      BY <2>2, <3>1, <3>2 DEF CountsOK
  <2>6. Set(b, next)
    BY <1>1, <1>2, <1>9, <1>12, <2>1
  <2> QED
    BY <2>2, <2>3, <2>4, <2>5, <2>6, QuietStep DEF ReadDevice, CallOK
<1>13. CASE ~ n < Len(Targets[b])
  <2>1. Gather(k, list, list) \in Call /\ CallOK(b, Gather(k, list, list), pushed[b])
    BY <1>2, <1>8, <1>10, <1>11, GatherOK
  <2>2. Set(b, Gather(k, list, list))
    BY <1>1, <1>2, <1>9, <1>13
  <2> QED
    BY <2>1, <2>2, QuietStep DEF ReadDevice
<1> QED
  BY <1>12, <1>13

-----------------------------------------------------------------------------
(* One send. *)

\* The send to a device changes its task.
LEMMA SendStep ==
    ASSUME IInv, NEW b \in Batches, NEW d \in Devices, Sends(b, d), NEW task \in Task
    PROVE  \E k \in Call :
              /\ k = [batch[b] EXCEPT !.task[d] = task]
              /\ k.task = [batch[b].task EXCEPT ![d] = task]
              /\ k.mode = batch[b].mode /\ batch[b].task \in [Devices -> Task]
              /\ ReadingOK(b, k) /\ OrderOK(b, k) /\ CountsOK(k) /\ OffOK(b, k)
<1> DEFINE k == [batch[b] EXCEPT !.task[d] = task]
<1>1. PICK c \in Call : c = batch[b] /\ CallOK(b, c, pushed[b]) /\ c.pc = "sending"
  BY BatchFacts DEF Sends, At
<1>2. /\ k \in Call /\ k.pc = c.pc /\ k.mode = c.mode /\ k.list = c.list /\ k.order = c.order
      /\ k.stats = c.stats /\ k.off = c.off /\ k.task = [c.task EXCEPT ![d] = task]
      /\ c.task \in [Devices -> Task]
  BY <1>1 DEF Call
<1> HIDE DEF k
<1>3. CountsOK(c) /\ c.stats = NoStats /\ Len(c.order) \in Nat
  BY <1>1 DEF CallOK, CountsOK, Call, Rows
<1>4. Done(c) = 0 /\ Done(k) = 0
  BY <1>2, <1>3 DEF Done, NoStats
<1>5. \A state : Ended(c, Done(c), state) = {} /\ Ended(k, Done(k), state) = {}
  BY <1>4 DEF Ended
<1>6. CountsOK(k)
  BY <1>1, <1>2, <1>3, <1>4, <1>5 DEF CountsOK
<1>7. ReadingOK(b, k) /\ OrderOK(b, k)
  BY <1>1, <1>2 DEF CallOK, ReadingOK, OrderOK
<1>8. k.off = {} /\ OffOK(b, k)
  BY <1>1, <1>2 DEF CallOK, OffOK
<1> QED
  BY <1>1, <1>2, <1>6, <1>7, <1>8 DEF k

LEMMA WithoutProviderInv ==
    ASSUME IInv, NEW b \in Batches, NEW d \in Devices, WithoutProvider(b, d)
    PROVE  IInv'
<1>1. PICK state \in {"sent", "error"} : Becomes(b, d, state)
  BY DEF WithoutProvider
<1>2. PICK c \in Call : c = batch[b] /\ CallOK(b, c, pushed[b]) /\ c.task \in [Devices -> Task]
  BY BatchFacts DEF Call
<1>3. PICK task : task = [c.task[d] EXCEPT !.state = state]
  OBVIOUS
<1>4. /\ task \in Task /\ task.state = state /\ task.attempt = c.task[d].attempt
      /\ c.task[d].state = "ready" /\ c.mode # "on"
  BY <1>2, <1>3 DEF Task, Result, WithoutProvider, State
<1>5. PICK k \in Call :
          /\ k = [c EXCEPT !.task[d] = task]
          /\ k.task = [c.task EXCEPT ![d] = task] /\ k.mode = c.mode
          /\ ReadingOK(b, k) /\ OrderOK(b, k) /\ CountsOK(k) /\ OffOK(b, k)
  BY <1>2, <1>4, SendStep DEF WithoutProvider
<1>6. Set(b, k)
  BY <1>1, <1>2, <1>3, <1>5 DEF Becomes
<1>7. k \in Call /\ k.task = [c.task EXCEPT ![d] = task] /\ k.mode = c.mode
  BY <1>5
<1>8. PushedOK(k, pushed[b])
  <2>1. PushedOK(c, pushed[b]) /\ pushed[b][d] <= c.task[d].attempt
    BY <1>2, <1>4 DEF CallOK, PushedOK
  <2>2. \A e \in Devices : k.task[e] = IF e = d THEN task ELSE c.task[e]
    BY <1>2, <1>7
  <2> QED
    BY <1>4, <1>7, <2>1, <2>2 DEF PushedOK
<1> QED
  BY <1>5, <1>6, <1>8, QuietStep DEF WithoutProvider, CallOK

\* What an answer makes of the send: another attempt, or the end.
LEMMA AttemptTask ==
    ASSUME IInv, NEW b \in Batches, NEW d \in Devices, Sends(b, d), State(b, d) = "ready",
           NEW answer \in Answers(b, d),
           IF answer = "again" THEN Retry(b, d) ELSE Becomes(b, d, answer)
    PROVE  \E task \in Task :
              /\ Set(b, [batch[b] EXCEPT !.task[d] = task])
              /\ \/ task.state = "ready" /\ task.attempt = batch[b].task[d].attempt + 1
                 \/ task.state = answer /\ task.attempt = batch[b].task[d].attempt
                 \/ task.state = "error" /\ task.attempt = batch[b].task[d].attempt
<1>1. PICK old \in Task : old = batch[b].task[d] /\ old.state = "ready" /\ old.attempt \in 0 .. 2
  BY BatchFacts DEF State, Call, Task, MaxRetries
<1>2. CASE answer = "again"
  <2>1. CASE old.attempt < MaxRetries
    <3>1. PICK task : task = [old EXCEPT !.attempt = old.attempt + 1]
      OBVIOUS
    <3>2. task \in Task /\ task.state = "ready" /\ task.attempt = old.attempt + 1
      BY <1>1, <2>1, <3>1 DEF Task, MaxRetries
    <3>3. Set(b, [batch[b] EXCEPT !.task[d] = task])
      BY <1>1, <1>2, <2>1, <3>1 DEF Retry, Again
    <3> QED
      BY <1>1, <3>2, <3>3
  <2>2. CASE ~ old.attempt < MaxRetries
    <3>1. PICK task : task = [old EXCEPT !.state = "error"]
      OBVIOUS
    <3>2. task \in Task /\ task.state = "error" /\ task.attempt = old.attempt
      BY <1>1, <3>1 DEF Task, Result
    <3>3. Set(b, [batch[b] EXCEPT !.task[d] = task])
      BY <1>1, <1>2, <2>2, <3>1 DEF Retry, Becomes
    <3> QED
      BY <1>1, <3>2, <3>3
  <2> QED
    BY <2>1, <2>2
<1>3. CASE answer # "again"
  <2>1. PICK task : task = [old EXCEPT !.state = answer]
    OBVIOUS
  <2>2. answer \in Result
    BY <1>3 DEF Answers, Result
  <2>3. task \in Task /\ task.state = answer /\ task.attempt = old.attempt
    BY <1>1, <2>1, <2>2 DEF Task
  <2>4. Set(b, [batch[b] EXCEPT !.task[d] = task])
    BY <1>1, <1>3, <2>1 DEF Becomes
  <2> QED
    BY <1>1, <2>3, <2>4
<1> QED
  BY <1>2, <1>3

LEMMA AttemptInv ==
    ASSUME IInv, NEW b \in Batches, NEW d \in Devices, Attempt(b, d)
    PROVE  IInv'
<1>1. PICK answer \in Answers(b, d), n \in {0, 1} :
          /\ IF answer = "again" THEN Retry(b, d) ELSE Becomes(b, d, answer)
          /\ n \in Reached(b, d, answer)
          /\ pushed' = [pushed EXCEPT ![b][d] = @ + n]
  BY DEF Attempt, Reached
<1>2. answer = "sent" => n = 1
  BY <1>1 DEF Answers, Reached
<1>3. PICK c \in Call : c = batch[b] /\ CallOK(b, c, pushed[b])
  BY BatchFacts
<1>4. PICK times \in [Devices -> Nat] : times = [pushed[b] EXCEPT ![d] = @ + n]
  <2>1. pushed[b] \in [Devices -> Nat] /\ pushed[b][d] + n \in Nat
    BY <1>1, BatchFacts
  <2> QED
    BY <2>1
<1>5. pushed' = [pushed EXCEPT ![b] = times]
  BY <1>1, <1>4 DEF IInv
<1>6. PICK task \in Task :
          /\ Set(b, [c EXCEPT !.task[d] = task])
          /\ \/ task.state = "ready" /\ task.attempt = c.task[d].attempt + 1
             \/ task.state = answer /\ task.attempt = c.task[d].attempt
             \/ task.state = "error" /\ task.attempt = c.task[d].attempt
  <2>1. Sends(b, d) /\ State(b, d) = "ready"
    BY DEF Attempt
  <2>2. \E task \in Task :
              /\ Set(b, [batch[b] EXCEPT !.task[d] = task])
              /\ \/ task.state = "ready" /\ task.attempt = batch[b].task[d].attempt + 1
                 \/ task.state = answer /\ task.attempt = batch[b].task[d].attempt
                 \/ task.state = "error" /\ task.attempt = batch[b].task[d].attempt
    BY <1>1, <2>1, AttemptTask
  <2> QED
    BY <1>3, <2>2
<1>7. PICK k \in Call :
          /\ k = [c EXCEPT !.task[d] = task]
          /\ k.task = [c.task EXCEPT ![d] = task] /\ k.mode = c.mode
          /\ c.task \in [Devices -> Task]
          /\ ReadingOK(b, k) /\ OrderOK(b, k) /\ CountsOK(k) /\ OffOK(b, k)
  <2>1. Sends(b, d)
    BY DEF Attempt
  <2> QED
    BY <1>3, <2>1, SendStep
<1>8. k.task = [c.task EXCEPT ![d] = task] /\ k.mode = c.mode /\ c.task \in [Devices -> Task]
  BY <1>7
<1>9. PushedOK(k, times)
  <2>1. /\ PushedOK(c, pushed[b]) /\ c.task[d].state = "ready"
        /\ pushed[b][d] <= c.task[d].attempt /\ pushed[b] \in [Devices -> Nat]
    BY <1>3, BatchFacts DEF CallOK, PushedOK, Attempt, State
  <2>2. \A e \in Devices : /\ k.task[e] = IF e = d THEN task ELSE c.task[e]
                           /\ times[e] = IF e = d THEN pushed[b][d] + n ELSE pushed[b][e]
    BY <1>4, <1>8, <2>1
  <2>3. c.task[d].attempt \in Nat /\ answer # "ready"
    BY <1>8 DEF Task, MaxRetries, Answers
  <2>4. /\ task.state = "ready" => times[d] <= task.attempt
        /\ times[d] <= task.attempt + 1
        /\ task.state = "sent" => times[d] >= 1
    BY <1>1, <1>2, <1>6, <2>1, <2>2, <2>3
  <2> QED
    BY <1>8, <2>1, <2>2, <2>4 DEF PushedOK
<1> QED
  BY <1>4, <1>5, <1>6, <1>7, <1>9, BatchStep DEF Attempt, CallOK

-----------------------------------------------------------------------------
(* The results. *)

\* A step that only moves a batch on.
LEMMA MovesOn ==
    ASSUME IInv, NEW b \in Batches, NEW pc \in Pc, NEW k,
           k = [batch[b] EXCEPT !.pc = pc]
    PROVE  /\ k \in Call /\ k.pc = pc /\ k.list = batch[b].list /\ k.order = batch[b].order
           /\ k.task = batch[b].task /\ k.off = batch[b].off /\ k.mode = batch[b].mode
           /\ k.asked = batch[b].asked /\ k.stats = batch[b].stats
           /\ Done(k) = Done(batch[b])
           /\ \A n, state : Ended(k, n, state) = Ended(batch[b], n, state)
           /\ pc # "sending" => OffOK(b, k)
           /\ PushedOK(k, pushed[b])
<1>1. PICK c \in Call : c = batch[b] /\ CallOK(b, c, pushed[b])
  BY BatchFacts
<1>2. /\ k \in Call /\ k.pc = pc /\ k.list = c.list /\ k.order = c.order
      /\ k.task = c.task /\ k.off = c.off /\ k.mode = c.mode
      /\ k.asked = c.asked /\ k.stats = c.stats
  BY <1>1 DEF Call
<1>3. Done(k) = Done(c) /\ \A n, state : Ended(k, n, state) = Ended(c, n, state)
  BY <1>2 DEF Done, Ended
<1>4. (pc # "sending" => OffOK(b, k)) /\ PushedOK(k, pushed[b])
  BY <1>1, <1>2 DEF CallOK, OffOK, PushedOK
<1> QED
  BY <1>1, <1>2, <1>3, <1>4

LEMMA CollectInv ==
    ASSUME IInv, NEW b \in Batches, Collect(b)
    PROVE  IInv'
<1>1. PICK c \in Call : c = batch[b] /\ CallOK(b, c, pushed[b]) /\ c.pc = "sending"
  BY BatchFacts DEF Collect, At
<1>2. PICK k : k = [c EXCEPT !.pc = "settling"]
  OBVIOUS
<1>3. /\ k \in Call /\ k.pc = "settling" /\ k.list = c.list /\ k.order = c.order
      /\ k.task = c.task /\ k.stats = c.stats /\ Done(k) = Done(c)
      /\ \A n, state : Ended(k, n, state) = Ended(c, n, state)
      /\ OffOK(b, k) /\ PushedOK(k, pushed[b])
  BY <1>1, <1>2, MovesOn DEF Pc
<1>4. ReadingOK(b, k) /\ OrderOK(b, k)
  BY <1>1, <1>3 DEF CallOK, ReadingOK, OrderOK
<1>5. CountsOK(k)
  <2>1. CountsOK(c) /\ \A i \in 1 .. Len(c.order) : c.task[c.order[i].id].state \in Result
    BY <1>1 DEF CallOK, Collect, State
  <2>2. Done(c) = 0 /\ Len(c.order) \in Nat /\ Len(c.order) # 0
    <3>1. Done(c) = 0 /\ Len(c.order) \in Nat
      BY <1>1, <2>1 DEF CountsOK, Done, NoStats, Call, Rows
    <3> QED
      BY <1>1, <3>1 DEF CallOK, CountsOK
  <2> QED
    BY <1>3, <2>1, <2>2 DEF CountsOK
<1>6. Set(b, k)
  BY <1>1, <1>2 DEF Collect
<1> QED
  BY <1>3, <1>4, <1>5, <1>6, QuietStep DEF Collect, CallOK

\* What a batch has settled grows by one row at a time.
LEMMA EndedGrows ==
    ASSUME NEW c \in Call, Distinct(c.order), NEW n \in 1 .. Len(c.order), NEW state
    PROVE  /\ Cardinality(Ended(c, n - 1, state)) \in Nat
           /\ Cardinality(Ended(c, n, state)) =
                Cardinality(Ended(c, n - 1, state)) +
                    (IF c.task[c.order[n].id].state = state THEN 1 ELSE 0)
<1> DEFINE S == Ended(c, n - 1, state)
<1> DEFINE last == c.order[n]
<1>1. Len(c.order) \in Nat /\ n \in Nat /\ n - 1 \in Nat
  BY DEF Call, Rows
<1>2. IsFiniteSet(S) /\ Cardinality(S) \in Nat
  <2> DEFINE P == {j \in 1 .. n - 1 : c.task[c.order[j].id].state = state}
  <2> DEFINE f == [j \in P |-> c.order[j]]
  <2>1. IsFiniteSet(1 .. n - 1)
    BY <1>1, FS_Interval
  <2>2. IsFiniteSet(P)
    BY <2>1, FS_Subset
  <2>3. f \in Surjection(P, S)
    BY DEF Surjection, Ended
  <2> QED
    BY <2>2, <2>3, FS_Surjection, FS_CardinalityType
<1>3. last \notin S
  BY <1>1 DEF Ended, Distinct
<1>4. CASE c.task[last.id].state = state
  <2>1. Ended(c, n, state) = S \union {last}
    BY <1>1, <1>4 DEF Ended
  <2> QED
    BY <1>2, <1>3, <1>4, <2>1, FS_AddElement
<1>5. CASE c.task[last.id].state # state
  <2>1. Ended(c, n, state) = S
    BY <1>1, <1>5 DEF Ended
  <2> QED
    BY <1>2, <1>5, <2>1
<1> QED
  BY <1>4, <1>5

LEMMA SettleInv ==
    ASSUME IInv, NEW b \in Batches, Settle(b)
    PROVE  IInv'
<1>1. PICK c \in Call : c = batch[b] /\ CallOK(b, c, pushed[b]) /\ c.pc = "settling"
  BY BatchFacts DEF Settle, At
<1>2. PICK n : n = Done(c) + 1
  OBVIOUS
<1>3. /\ Done(c) \in Nat /\ n \in 1 .. Len(c.order) /\ Done(c) = n - 1 /\ Len(c.order) \in Nat
      /\ c.stats \in Counts /\ Len(c.list) = Len(c.order)
  <2>1. c.stats \in Counts /\ c.order \in Rows
    BY DEF Call
  <2>2. Done(c) \in Nat /\ Len(c.order) \in Nat
    BY <2>1 DEF Counts, Rows, Done
  <2>3. Done(c) < Len(c.order)
    BY <1>1 DEF CallOK, CountsOK
  <2>4. Len(c.list) = Len(c.order)
    BY <1>1 DEF CallOK, OrderOK
  <2> QED
    BY <1>2, <2>1, <2>2, <2>3, <2>4
<1>4. PICK state \in Result : state = c.task[c.order[n].id].state
  BY <1>1, <1>3 DEF CallOK, CountsOK
<1>5. ResultAt(b, n) = state /\ n = Settled(b) + 1
  BY <1>1, <1>2, <1>4 DEF ResultAt, State, Settled, Done
<1>6. PICK off : off = c.off \union ToDeactivate(b)
  OBVIOUS
<1>7. PICK stats : stats = CASE state = "sent" -> [c.stats EXCEPT !.sent = @ + 1]
                             [] state = "invalid_token" ->
                                    [c.stats EXCEPT !.failed = @ + 1, !.deactivated = @ + 1]
                             [] OTHER -> [c.stats EXCEPT !.failed = @ + 1]
  OBVIOUS
<1>8. PICK pc : pc = IF n = Len(c.order) THEN "returned" ELSE "settling"
  OBVIOUS
<1>9. PICK k : k = [c EXCEPT !.off = off, !.stats = stats, !.pc = pc]
  OBVIOUS
<1>10. Set(b, k)
  BY <1>1, <1>5, <1>6, <1>7, <1>8, <1>9 DEF Settle
<1>11. /\ stats \in Counts
       /\ stats.sent = c.stats.sent + (IF state = "sent" THEN 1 ELSE 0)
       /\ stats.deactivated = c.stats.deactivated + (IF state = "invalid_token" THEN 1 ELSE 0)
       /\ stats.sent + stats.failed = n
       /\ c.stats.deactivated <= c.stats.failed => stats.deactivated <= stats.failed
  <2>1. /\ c.stats.sent \in Nat /\ c.stats.failed \in Nat /\ c.stats.deactivated \in Nat
        /\ n = c.stats.sent + c.stats.failed + 1
    BY <1>2, <1>3 DEF Counts, Done
  <2>2. CASE state = "sent"
    <3>1. stats = [c.stats EXCEPT !.sent = c.stats.sent + 1]
      BY <1>7, <2>2
    <3>2. PICK old \in Counts, sent \in Nat : old = c.stats /\ sent = c.stats.sent + 1
      BY <1>3, <2>1
    <3>3. stats = [old EXCEPT !.sent = sent]
      BY <3>1, <3>2
    <3>4. /\ stats \in Counts /\ stats.sent = sent
          /\ stats.failed = old.failed /\ stats.deactivated = old.deactivated
      BY <3>3 DEF Counts
    <3> QED
      BY <2>1, <2>2, <3>2, <3>4
  <2>3. CASE state = "invalid_token"
    <3>1. stats = [c.stats EXCEPT !.failed = c.stats.failed + 1,
                                  !.deactivated = c.stats.deactivated + 1]
      BY <1>7, <2>3
    <3>2. PICK old \in Counts, failed \in Nat, refused \in Nat :
              /\ old = c.stats /\ failed = c.stats.failed + 1
              /\ refused = c.stats.deactivated + 1
      BY <1>3, <2>1
    <3>3. stats = [old EXCEPT !.failed = failed, !.deactivated = refused]
      BY <3>1, <3>2
    <3>4. /\ stats \in Counts /\ stats.sent = old.sent
          /\ stats.failed = failed /\ stats.deactivated = refused
      BY <3>3 DEF Counts
    <3> QED
      BY <2>1, <2>3, <3>2, <3>4
  <2>4. CASE state = "error"
    BY <1>3, <1>7, <2>1, <2>4 DEF Counts
  <2> QED
    BY <1>4, <2>2, <2>3, <2>4 DEF Result
<1>12. /\ off \subseteq Devices
       /\ \A d \in off : \/ c.task[d].state = "invalid_token"
                         \/ Targets[b] = Nil /\ Alternates(c.list)
  <2>1. /\ c.off \subseteq Devices
        /\ \A d \in c.off : \/ c.task[d].state = "invalid_token"
                            \/ Targets[b] = Nil /\ Alternates(c.list)
    BY <1>1 DEF Call, CallOK, OffOK
  <2>2. ASSUME NEW d \in ToDeactivate(b)
        PROVE  state = "invalid_token" /\ d = c.list[n].id /\ d \in Devices
    <3>1. state = "invalid_token" /\ d = c.list[n].id
      BY <1>1, <1>5, <2>2 DEF ToDeactivate, DeviceAt
    <3>2. c.list[n] \in Row
      BY <1>3 DEF Call, Rows
    <3> QED
      BY <3>1, <3>2 DEF Row
  <2>3. (Targets[b] # Nil \/ ~ Alternates(c.list)) => c.order = c.list
    BY <1>1 DEF CallOK, OrderOK
  <2> QED
    BY <1>4, <1>6, <2>1, <2>2, <2>3
<1>13. /\ k \in Call /\ k.pc = pc /\ k.list = c.list /\ k.order = c.order
       /\ k.task = c.task /\ k.off = off /\ k.mode = c.mode
       /\ k.asked = c.asked /\ k.stats = stats
  BY <1>8, <1>9, <1>11, <1>12 DEF Call, Pc
<1>14. CountsOK(k)
  <2>1. /\ c.stats.sent = Cardinality(Ended(c, n - 1, "sent"))
        /\ c.stats.deactivated = Cardinality(Ended(c, n - 1, "invalid_token"))
        /\ c.stats.deactivated <= c.stats.failed
        /\ \A i \in 1 .. Len(c.order) : c.task[c.order[i].id].state \in Result
    BY <1>1, <1>3 DEF CallOK, CountsOK
  <2>2. Distinct(c.order)
    BY <1>1 DEF CallOK, OrderOK
  <2>3. Done(k) = n
    BY <1>11, <1>13 DEF Done
  <2>4. \A s : Ended(k, n, s) = Ended(c, n, s)
    BY <1>13 DEF Ended
  <2>5. /\ stats.sent = Cardinality(Ended(c, n, "sent"))
        /\ stats.deactivated = Cardinality(Ended(c, n, "invalid_token"))
    <3>1. \A s : /\ Cardinality(Ended(c, n - 1, s)) \in Nat
                 /\ Cardinality(Ended(c, n, s)) =
                      Cardinality(Ended(c, n - 1, s)) + (IF state = s THEN 1 ELSE 0)
      BY <1>3, <1>4, <2>2, EndedGrows
    <3> QED
      BY <1>11, <2>1, <3>1
  <2>6. Done(k) <= Len(k.order) /\ (pc = "settling" => Done(k) < Len(k.order))
    BY <1>3, <1>8, <1>13, <2>3
  <2>7. pc # "sending" /\ (pc \in {"returned", "done"} => Done(k) = Len(k.order))
    BY <1>8, <1>13, <2>3
  <2> QED
    BY <1>11, <1>13, <2>1, <2>3, <2>4, <2>5, <2>6, <2>7 DEF CountsOK
<1>15. ReadingOK(b, k) /\ OrderOK(b, k)
  BY <1>1, <1>8, <1>13 DEF CallOK, ReadingOK, OrderOK
<1>16. OffOK(b, k) /\ PushedOK(k, pushed[b])
  BY <1>1, <1>8, <1>12, <1>13 DEF CallOK, OffOK, PushedOK
<1> QED
  BY <1>10, <1>13, <1>14, <1>15, <1>16, QuietStep DEF Settle, CallOK

LEMMA RollbackInv ==
    ASSUME IInv, NEW b \in Batches, Rollback(b)
    PROVE  IInv'
<1>1. PICK c \in Call : c = batch[b] /\ CallOK(b, c, pushed[b])
  BY BatchFacts
<1>2. PICK k : k = [c EXCEPT !.pc = "aborted"]
  OBVIOUS
<1>3. /\ k \in Call /\ k.pc = "aborted" /\ k.list = c.list /\ k.order = c.order
      /\ k.task = c.task /\ k.stats = c.stats /\ Done(k) = Done(c)
      /\ \A n, state : Ended(k, n, state) = Ended(c, n, state)
      /\ OffOK(b, k) /\ PushedOK(k, pushed[b])
  BY <1>1, <1>2, MovesOn DEF Pc
<1>4. ReadingOK(b, k) /\ OrderOK(b, k)
  BY <1>1, <1>3 DEF CallOK, ReadingOK, OrderOK
<1>5. CountsOK(k)
  BY <1>1, <1>3 DEF CallOK, CountsOK
<1> QED
  BY <1>1, <1>2, <1>3, <1>4, <1>5, QuietStep DEF Rollback, CallOK

LEMMA CommitInv ==
    ASSUME IInv, NEW b \in Batches, Commit(b)
    PROVE  IInv'
<1>1. PICK c \in Call : c = batch[b] /\ CallOK(b, c, pushed[b]) /\ c.pc = "returned"
  BY BatchFacts DEF Commit, At
<1>2. PICK k : k = [c EXCEPT !.pc = "done"]
  OBVIOUS
<1>3. /\ k \in Call /\ k.pc = "done" /\ k.list = c.list /\ k.order = c.order
      /\ k.task = c.task /\ k.stats = c.stats /\ Done(k) = Done(c)
      /\ \A n, state : Ended(k, n, state) = Ended(c, n, state)
      /\ OffOK(b, k) /\ PushedOK(k, pushed[b])
  BY <1>1, <1>2, MovesOn DEF Pc
<1>4. ReadingOK(b, k) /\ OrderOK(b, k)
  BY <1>1, <1>3 DEF CallOK, ReadingOK, OrderOK
<1>5. CountsOK(k)
  BY <1>1, <1>3 DEF CallOK, CountsOK
<1>6. CallOK(b, k, pushed[b])
  BY <1>3, <1>4, <1>5 DEF CallOK
<1>7. batch' = [batch EXCEPT ![b] = k] /\ UNCHANGED <<platform, subscribed, pushed>>
  BY <1>1, <1>2 DEF Commit, Set
<1>8. batch' \in [Batches -> Call] /\ \A a \in Batches : CallOK(a, batch'[a], pushed'[a])
  BY <1>3, <1>6, <1>7 DEF IInv
<1>9. row' \in [Devices -> {"absent", "active", "inactive"}]
  BY DEF Commit, IInv
<1> QED
  BY <1>7, <1>8, <1>9 DEF IInv

-----------------------------------------------------------------------------
(* The theorems. *)

LEMMA NextInv ==
    ASSUME IInv, [Next]_vars
    PROVE  IInv'
<1>1. CASE UNCHANGED vars
  BY <1>1 DEF IInv, vars
<1>2. ASSUME NEW d \in Devices, Register(d) \/ Delete(d) \/ Leave(d)
      PROVE  IInv'
  BY <1>2, RegisterInv, DeleteInv, LeaveInv
<1>3. ASSUME NEW b \in Batches, Step(b) \/ Abort(b)
      PROVE  IInv'
  <2>1. CASE ReadUser(b) \/ ReadDevice(b)
    BY <2>1, ReadUserInv, ReadDeviceInv
  <2>2. ASSUME NEW d \in Devices, WithoutProvider(b, d) \/ Attempt(b, d)
        PROVE  IInv'
    BY <2>2, WithoutProviderInv, AttemptInv
  <2>3. CASE Collect(b) \/ Settle(b) \/ Commit(b)
    BY <2>3, CollectInv, SettleInv, CommitInv
  <2>4. CASE Victim(b) \/ Abort(b)
    BY <2>4, RollbackInv DEF Victim, Abort
  <2> QED
    BY <1>3, <2>1, <2>2, <2>3, <2>4 DEF Step
<1> QED
  BY <1>1, <1>2, <1>3 DEF Next

LEMMA Inductive == Spec => []IInv
<1>1. Init => IInv
  BY InitInv
<1>2. IInv /\ [Next]_vars => IInv'
  BY NextInv
<1> QED
  BY <1>1, <1>2, PTL DEF Spec

\* No more rows than devices.
LEMMA FewRows ==
    ASSUME NEW list \in Rows, Distinct(list)
    PROVE  Len(list) \in Nat /\ Len(list) <= Cardinality(Devices) /\ Cardinality(Devices) \in Nat
<1> DEFINE f == [i \in 1 .. Len(list) |-> list[i].id]
<1>1. Len(list) \in Nat /\ \A i \in 1 .. Len(list) : list[i] \in Row
  BY DEF Rows
<1>2. f \in Injection(1 .. Len(list), Devices)
  BY <1>1 DEF Injection, IsInjective, Distinct, Row
<1>3. Cardinality(1 .. Len(list)) <= Cardinality(Devices)
  BY <1>2, DevicesAssumption, FS_Injection
<1> QED
  BY <1>1, <1>3, DevicesAssumption, FS_Interval, FS_CardinalityType

(* Devices, calls and their statistics stay well-formed, and a batch reports   *)
(* no more than it has devices, whatever the answers (notifications/service.py *)
(* and notifications/providers/onesignal.py).                                  *)
THEOREM TypeCorrect == Spec => []TypeOK
<1>1. ASSUME IInv
      PROVE  TypeOK
  <2>1. ASSUME NEW b \in Batches
        PROVE  /\ batch[b].pc \in Pc /\ batch[b].mode \in Mode
               /\ batch[b].task \in [Devices -> Task] /\ batch[b].off \subseteq Devices
               /\ batch[b].pc \in {"settling", "returned"} =>
                     ToSet(batch[b].list) = ToSet(batch[b].order)
    BY <1>1, <2>1, BatchFacts DEF Call, CallOK, OrderOK
  <2>2. ASSUME NEW b \in Batches
        PROVE  batch[b].stats \in Stats
    <3>1. PICK c \in Call : c = batch[b] /\ CallOK(b, c, pushed[b])
      BY <1>1, BatchFacts
    <3>2. c.stats \in Counts /\ Done(c) <= Len(c.order) /\ c.stats.deactivated <= c.stats.failed
      BY <3>1 DEF Call, CallOK, CountsOK
    <3>3. Len(c.order) \in Nat /\ Len(c.order) <= Cardinality(Devices)
          /\ Cardinality(Devices) \in Nat
      <4>1. CASE c.pc \in {"sending", "settling", "returned", "done"}
        BY <3>1, <4>1, FewRows DEF Call, CallOK, OrderOK
      <4>2. CASE c.pc \in {"idle", "reading"}
        <5>1. c.order = <<>>
          BY <3>1, <4>2 DEF CallOK, ReadingOK, Unread
        <5> QED
          BY <5>1, DevicesAssumption, FS_CardinalityType
      <4>3. CASE c.pc = "aborted"
        BY <3>1, <4>3, FewRows DEF Call, CallOK, OrderOK
      <4> QED
        BY <4>1, <4>2, <4>3 DEF Call, Pc
    <3> QED
      BY <3>1, <3>2, <3>3 DEF Counts, Stats, Done
  <2>3. ASSUME NEW b \in Batches, NEW d \in Devices
        PROVE  pushed[b][d] \in 0 .. MaxRetries + 1
    <3>1. PICK c \in Call : c = batch[b] /\ CallOK(b, c, pushed[b])
      BY <1>1, BatchFacts
    <3>2. pushed[b][d] \in Nat /\ pushed[b][d] <= c.task[d].attempt + 1 /\ c.task[d] \in Task
      BY <1>1, <3>1, BatchFacts DEF CallOK, PushedOK, Call
    <3> QED
      BY <3>2 DEF Task, MaxRetries
  <2>4. pushed \in [Batches -> [Devices -> 0 .. MaxRetries + 1]]
    BY <1>1, <2>3 DEF IInv
  <2> QED
    BY <1>1, <2>1, <2>2, <2>4 DEF IInv, TypeOK, Pc
<1> QED
  BY <1>1, Inductive, PTL

(* A batch switches a device off only if OneSignal refused that device's own   *)
(* token, unless the rows of a send_to_user came with their platforms          *)
(* alternating (NotificationService.send_to_user and send_to_devices).         *)
THEOREM OwnTokensOnly == Spec => []OwnTokenRefused
<1>1. IInv => OwnTokenRefused
  BY BatchFacts DEF OwnTokenRefused, CallOK, OffOK, State
<1> QED
  BY <1>1, Inductive, PTL

(* What a batch returns as total, sent, failed and deactivated is what its     *)
(* sends ended with, and no device is reached more often than its attempts.    *)
THEOREM TrueReport == Spec => []ReportIsTrue
<1>1. ASSUME IInv, NEW b \in Batches, batch[b].pc \in {"returned", "done"}
      PROVE  LET sent == {e \in ToSet(batch[b].list) : State(b, e.id) = "sent"}
                 invalid == {e \in ToSet(batch[b].list) : State(b, e.id) = "invalid_token"}
             IN /\ Settled(b) = Len(batch[b].list)
                /\ batch[b].stats.sent = Cardinality(sent)
                /\ batch[b].stats.deactivated = Cardinality(invalid)
                /\ batch[b].mode = "on" =>
                      \A d \in Devices :
                         /\ (\E e \in sent : e.id = d) => pushed[b][d] >= 1
                         /\ pushed[b][d] <= batch[b].task[d].attempt + 1
  <2>1. PICK c \in Call : c = batch[b] /\ CallOK(b, c, pushed[b])
    BY <1>1, BatchFacts
  <2>2. /\ Done(c) = Len(c.order) /\ Len(c.order) = Len(c.list)
        /\ ToSet(c.order) = ToSet(c.list) /\ c.order \in Rows
    BY <1>1, <2>1 DEF CallOK, CountsOK, OrderOK, Call
  <2>3. \A state : Ended(c, Done(c), state) = {e \in ToSet(c.list) : State(b, e.id) = state}
    <3>1. \A x : x \in ToSet(c.list) <=> \E i \in 1 .. Done(c) : x = c.order[i]
      <4>1. DOMAIN c.order = 1 .. Done(c)
        BY <2>2 DEF Rows
      <4>2. ToSet(c.list) = {c.order[i] : i \in DOMAIN c.order}
        BY <2>2 DEF ToSet
      <4> QED
        BY <4>1, <4>2
    <3> QED
      BY <2>1, <3>1 DEF Ended, State
  <2>4. Settled(b) = Len(batch[b].list)
    BY <2>1, <2>2 DEF Settled, Done
  <2>5. /\ c.stats.sent = Cardinality({e \in ToSet(c.list) : State(b, e.id) = "sent"})
        /\ c.stats.deactivated =
              Cardinality({e \in ToSet(c.list) : State(b, e.id) = "invalid_token"})
    BY <2>1, <2>3 DEF CallOK, CountsOK
  <2>6. c.mode = "on" =>
          \A d \in Devices :
             /\ State(b, d) = "sent" => pushed[b][d] >= 1
             /\ pushed[b][d] <= c.task[d].attempt + 1
    BY <2>1 DEF CallOK, PushedOK, State
  <2> QED
    BY <2>1, <2>4, <2>5, <2>6
<1>2. IInv => ReportIsTrue
  BY <1>1 DEF ReportIsTrue
<1> QED
  BY <1>2, Inductive, PTL

=============================================================================
