--------------------------- MODULE CalendarProofs ---------------------------
(***************************************************************************)
(* What the checks of the calendar are worth, for any proposals, calls,    *)
(* items, zones and words for a time.                                      *)
(*                                                                         *)
(* The argument: a check is of no use unless what it says stays true until *)
(* the booking.  It is kept with the operation it is about, whose words    *)
(* and zone stay in the session, so that all there is to show is that they *)
(* mean the same slot when they are read again (SameMeaning); what it has  *)
(* seen is kept with the slot it was seen in, and a row that is flushed or *)
(* committed keeps the check it came from until an update moves it.        *)
(***************************************************************************)
EXTENDS Calendar, TLAPS

States == {"idle", "checking", "applying", "canceling", "replacing",
           "converting", "free", "deleting", "completing", "done"}

SessionRecord ==
    [pc : States, status : Status \union ItemStatus, ops : Seq(Op),
     clars : SUBSET Clarification, about : Proposals \union Items \union {Nil},
     zone : Zones \union {Nil}, next : Nat \ {0}, checks : [1..MostOps -> Check],
     rows : [1..MostOps -> Item], books : [1..MostOps -> Booking]]

ProposalRecord ==
    [status : Status, ops : Seq(Op), clars : SUBSET Clarification, renewed : BOOLEAN]

\* the check found nothing in the way but what is exempt
ClearOf(check, exempt) ==
    check.at # Nil =>
        /\ check.at \in Int
        /\ \A y \in Items, slot \in Int :
              (<<y, slot>> \in check.seen /\ y # exempt) => ~Overlap(check.at, slot)

\* what is suggested was free
FreeThen(question) ==
    \A slot \in question.suggestions : \A y \in Items, other \in Int :
        <<y, other>> \in question.seen => ~Overlap(slot, other)

ProposalOK(p, row) ==
    /\ Len(row.ops) = Len(Asked[p])
    /\ \A q \in row.clars : FreeThen(q)

\* a check says what its words meant when they were read
Read(check) == check.at = When(check.words, check.tz, check.on)

\* a check is about the operation at its place, and was made before t
CheckOK(j, check, i, t) ==
    check.at # Nil =>
        /\ i \in 1..Len(j.ops) /\ check.words = j.ops[i].due
        /\ ClearOf(check, Nil) /\ Read(check)
        /\ check.on <= t

\* a task got the slot that the words of its check meant later on
BookOK(x, b, slot) ==
    /\ ClearOf(b.check, x)
    /\ b.check.at # Nil =>
          /\ slot = When(b.check.words, Preferred(b.tz), b.by)
          /\ Read(b.check)
          /\ b.check.on <= b.by

BookerOK(j, t) ==
    /\ j.pc \in {"idle", "checking", "applying", "canceling", "replacing", "done"}
    /\ j.pc \in {"checking", "applying", "canceling", "replacing"} => j.about \in Proposals
    /\ j.pc \in {"checking", "applying", "replacing"} => Len(j.ops) = Len(Asked[j.about])
    /\ \A i \in 1..MostOps : CheckOK(j, j.checks[i], i, t)

ItemCallOK(j, t) ==
    /\ j.pc \in {"idle", "converting", "free", "deleting", "completing", "done"}
    /\ j.pc \in {"converting", "free", "deleting", "completing"} => j.about \in DOMAIN Given
    /\ j.pc = "free" => /\ j.checks[1].at \in Int /\ j.checks[1].words = j.checks[1].at
                       /\ j.checks[1].on <= t /\ ClearOf(j.checks[1], j.about)

SessionOK(s, j, t) ==
    /\ j.pc = "idle" => \A i \in 1..MostOps : j.checks[i].at = Nil
    /\ \A q \in j.clars : FreeThen(q)
    /\ \A i \in 1..MostOps : BookOK(<<s, i>>, j.books[i], j.rows[i].due)
    /\ s \in Bookers => BookerOK(j, t)
    /\ s \in ItemCalls => ItemCallOK(j, t)

ItemsInv ==
    /\ items \in [Items -> Item]
    /\ book \in [Items -> Booking]
    /\ \A x \in Items : BookOK(x, book[x], items[x].due)

ProposalsInv ==
    /\ proposal \in [Proposals -> ProposalRecord]
    /\ \A p \in Proposals : ProposalOK(p, proposal[p])

SessionsInv ==
    /\ session \in [Sessions -> SessionRecord]
    /\ \A s \in Sessions : SessionOK(s, session[s], now)

ClockInv == zone \in Zones \union {Nil} /\ now \in Moments

IInv == ItemsInv /\ ProposalsInv /\ SessionsInv /\ ClockInv

-----------------------------------------------------------------------------
(* Constants *)

LEMMA NilFacts ==
    /\ Nil \notin Zones /\ Nil \notin Texts /\ Nil \notin Int /\ Nil \notin Items
    /\ MostOps \in Nat /\ 1 \in 1..MostOps
BY NilAssumption, AskedAssumption

LEMMA CallFacts ==
    /\ \A p \in Proposals : p \in Bookers /\ p \in Sessions /\ p \notin Confirms
    /\ \A c \in Confirms : c \in Bookers /\ c \in Sessions /\ c \notin Proposals
    /\ \A s \in ItemCalls : s \in Sessions /\ s \notin Bookers
    /\ \A s \in Bookers : s \in Sessions /\ s \notin ItemCalls
BY CallsAssumption DEF Bookers, Sessions

LEMMA PreferredType ==
    ASSUME NEW tz \in Zones \union {Nil}
    PROVE  Preferred(tz) \in Zones
BY TimeAssumption DEF Preferred

LEMMA StatusFacts ==
    /\ "ACTIVE" \in ItemStatus /\ "DONE" \in ItemStatus /\ "CANCELED" \in ItemStatus
    /\ NoItem \in Item
BY DEF ItemStatus, NoItem, Item

LEMMA NotCheckedFacts ==
    /\ NotChecked \in Check /\ NotChecked.at = Nil
    /\ NotBooked \in Booking /\ NotBooked.check.at = Nil
<1>1. NotChecked \in Check /\ NotChecked.at = Nil
  BY TimeAssumption DEF NotChecked, Check, Due
<1> HIDE DEF NotChecked
<1>2. NotBooked \in Booking /\ NotBooked.check = NotChecked
  BY <1>1 DEF NotBooked, Booking
<1> QED
  BY <1>1, <1>2

-----------------------------------------------------------------------------
(* What words mean *)

\* A day has its slots, and the next day begins after them.
LEMMA MidnightFacts ==
    ASSUME NEW local \in Int
    PROVE  /\ Midnight(local) \in Int
           /\ Midnight(local) = SlotsPerDay * (local \div SlotsPerDay)
           /\ local \div SlotsPerDay \in Int
           /\ Midnight(local) <= local /\ local < Midnight(local) + SlotsPerDay
<1>1. SlotsPerDay \in Nat \ {0}
  BY TimeAssumption
<1>2. local % SlotsPerDay \in 0..(SlotsPerDay - 1)
  BY <1>1
<1>3. local - (local % SlotsPerDay) = SlotsPerDay * (local \div SlotsPerDay)
  BY <1>1
<1>4. local \div SlotsPerDay \in Int
  BY <1>1
<1> QED
  BY <1>1, <1>2, <1>3, <1>4 DEF Midnight

LEMMA SameDay ==
    ASSUME NEW day \in Int, NEW local \in Int, NEW m \in Int, m = SlotsPerDay * day,
           m <= local, local < m + SlotsPerDay
    PROVE  Midnight(local) = m
<1>1. PICK other \in Int : /\ Midnight(local) = SlotsPerDay * other
                           /\ SlotsPerDay * other <= local
                           /\ local < SlotsPerDay * other + SlotsPerDay
  BY MidnightFacts
<1>2. SlotsPerDay \in Nat \ {0}
  BY TimeAssumption
<1>3. \A a, b \in Int : a < b => SlotsPerDay * a + SlotsPerDay <= SlotsPerDay * b
  BY <1>2
<1>4. SlotsPerDay * day \in Int /\ SlotsPerDay * other \in Int
  BY <1>2
<1>5. ~(day < other)
  BY <1>1, <1>3, <1>4, <1>2
<1>6. ~(other < day)
  BY <1>1, <1>3, <1>4, <1>2
<1> QED
  BY <1>1, <1>5, <1>6

LEMMA WhenType ==
    ASSUME NEW due \in Due, NEW tz \in Zones, NEW instant \in Int
    PROVE  When(due, tz, instant) \in Int \union {Nil}
<1>1. CASE due \notin Texts
  BY <1>1 DEF When, Due
<1>2. CASE due \in Texts
  <2>1. /\ Words[due].at \in Nat /\ Ahead[tz] \in Int /\ SlotsPerDay \in Nat
        /\ Words[due].how \in {"iso", "clock", "tomorrow", "date", "none"}
    BY <1>2, TimeAssumption DEF Word
  <2>2. PICK local \in Int : local = instant + Ahead[tz]
    BY <2>1
  <2>3. Midnight(local) \in Int
    BY MidnightFacts
  <2>4. NextClock(Words[due].at, local) \in Int
    BY <2>1, <2>3 DEF NextClock
  <2>5. Words[due].at * SlotsPerDay \in Int
    BY <2>1
  <2> QED
    BY <1>2, <2>1, <2>2, <2>3, <2>4, <2>5 DEF When
<1> QED
  BY <1>1, <1>2

\* A time of day is the same slot until it comes, on the next day too.
LEMMA NextClockStays ==
    ASSUME NEW at \in Nat, at < SlotsPerDay, NEW local \in Int, NEW later \in Int,
           local <= later, later < NextClock(at, local)
    PROVE  NextClock(at, later) = NextClock(at, local)
<1>1. SlotsPerDay \in Nat \ {0}
  BY TimeAssumption
<1>2. PICK day \in Int : Midnight(local) = SlotsPerDay * day
  BY MidnightFacts
<1>3. PICK m \in Int : m = SlotsPerDay * day /\ SlotsPerDay * (day + 1) = m + SlotsPerDay
  BY <1>1
<1>4. m <= local /\ local < m + SlotsPerDay
  BY <1>2, <1>3, MidnightFacts
<1>5. NextClock(at, local) = IF m + at > local THEN m + at ELSE m + at + SlotsPerDay
  BY <1>2, <1>3 DEF NextClock
<1>6. CASE later < m + SlotsPerDay
  <2>1. Midnight(later) = m
    <3>1. m <= later
      BY <1>4
    <3> QED
      BY <1>3, <1>6, <3>1, SameDay
  <2>2. NextClock(at, later) = IF m + at > later THEN m + at ELSE m + at + SlotsPerDay
    BY <2>1 DEF NextClock
  <2> QED
    BY <1>1, <1>3, <1>5, <2>2
<1>7. CASE later >= m + SlotsPerDay
  <2>1. later < m + at + SlotsPerDay
    BY <1>1, <1>3, <1>5, <1>7
  <2>2. day + 1 \in Int
    OBVIOUS
  <2>3. Midnight(later) = m + SlotsPerDay
    <3>1. PICK n \in Int : n = m + SlotsPerDay /\ n = SlotsPerDay * (day + 1)
      BY <1>1, <1>3
    <3>2. n <= later /\ later < n + SlotsPerDay
      BY <1>1, <1>7, <2>1, <3>1
    <3> QED
      BY <2>2, <3>1, <3>2, SameDay
  <2>4. NextClock(at, later) = m + SlotsPerDay + at
    BY <1>1, <1>3, <2>1, <2>3 DEF NextClock
  <2> QED
    BY <1>1, <1>3, <1>4, <1>5, <1>7, <2>4
<1> QED
  BY <1>1, <1>3, <1>6, <1>7

\* Words that stay what they were mean the same slot when they are read again.
LEMMA SameMeaning ==
    ASSUME NEW words \in Due, NEW tz \in Zones, NEW on \in Int, NEW by \in Int, on <= by,
           Stays(words, tz, on, by)
    PROVE  When(words, tz, by) = When(words, tz, on)
<1>1. CASE words \notin Texts
  BY <1>1 DEF When
<1>2. CASE words \in Texts
  <2>1. PICK how : how = Words[words].how
    OBVIOUS
  <2>2. PICK at \in Nat : at = Words[words].at /\ (how = "clock" => at < SlotsPerDay)
    BY <1>2, <2>1, TimeAssumption DEF Word
  <2>3. PICK local \in Int, later \in Int, ahead \in Int :
           /\ ahead = Ahead[tz] /\ local = on + ahead /\ later = by + ahead /\ local <= later
    BY TimeAssumption
  <2>4. \/ how \in {"iso", "none"}
        \/ how = "clock" /\ by < When(words, tz, on)
        \/ how = "tomorrow" /\ Midnight(local) = Midnight(later)
        \/ how = "date" /\ on = by
    BY <1>2, <2>1, <2>3 DEF Stays
  <2>5. CASE how \in {"iso", "none"}
    BY <2>1, <2>5 DEF When
  <2>6. CASE how = "clock" /\ by < When(words, tz, on)
    <3>1. /\ When(words, tz, on) = NextClock(at, local) - ahead
          /\ When(words, tz, by) = NextClock(at, later) - ahead
      BY <1>2, <2>1, <2>2, <2>3, <2>6 DEF When
    <3>2. NextClock(at, local) \in Int
      <4>1. Midnight(local) \in Int /\ SlotsPerDay \in Nat
        BY MidnightFacts, TimeAssumption
      <4>2. Midnight(local) + at \in Int
        BY <4>1
      <4> QED
        BY <4>1, <4>2 DEF NextClock
    <3>3. later < NextClock(at, local)
      BY <2>3, <2>6, <3>1, <3>2
    <3> QED
      BY <2>2, <2>3, <2>6, <3>1, <3>3, NextClockStays
  <2>7. CASE how = "tomorrow" /\ Midnight(local) = Midnight(later)
    BY <1>2, <2>1, <2>2, <2>3, <2>7 DEF When
  <2>8. CASE how = "date" /\ on = by
    BY <2>8
  <2> QED
    BY <2>4, <2>5, <2>6, <2>7, <2>8
<1> QED
  BY <1>1, <1>2

LEMMA ClarificationFacts ==
    ASSUME NEW q \in Clarification
    PROVE  /\ q.op \in 1..MostOps /\ q.existing \in Items \union {Nil}
           /\ q.suggestions \subseteq Int
BY DEF Clarification

-----------------------------------------------------------------------------
(* Sessions *)

LEMMA FreshOK ==
    ASSUME NEW s \in Sessions, NEW j \in {Fresh, [Fresh EXCEPT !.pc = "done"]}
    PROVE  j \in SessionRecord /\ SessionOK(s, j, now)
<1>1. PICK pc \in {"idle", "done"} :
         j = [pc |-> pc, status |-> "running", ops |-> <<>>, clars |-> {},
              about |-> Nil, zone |-> Nil, next |-> 1, checks |-> [i \in 1..MostOps |-> NotChecked],
              rows |-> [i \in 1..MostOps |-> NoItem], books |-> [i \in 1..MostOps |-> NotBooked]]
  BY DEF Fresh
<1>2. /\ j.pc = pc /\ j.clars = {} /\ j.checks = [i \in 1..MostOps |-> NotChecked]
      /\ j.rows = [i \in 1..MostOps |-> NoItem] /\ j.books = [i \in 1..MostOps |-> NotBooked]
  BY <1>1
<1> HIDE DEF NotChecked, NotBooked, NoItem
<1>3. /\ [i \in 1..MostOps |-> NotChecked] \in [1..MostOps -> Check]
      /\ [i \in 1..MostOps |-> NoItem] \in [1..MostOps -> Item]
      /\ [i \in 1..MostOps |-> NotBooked] \in [1..MostOps -> Booking]
  BY NotCheckedFacts, StatusFacts
<1>4. j \in SessionRecord
  BY <1>1, <1>3 DEF SessionRecord, States, Status
<1>5. \A i \in 1..MostOps : j.checks[i].at = Nil
  BY <1>2, NotCheckedFacts
<1>6. \A i \in 1..MostOps : BookOK(<<s, i>>, j.books[i], j.rows[i].due)
  BY <1>2, NotCheckedFacts DEF BookOK, ClearOf
<1>7. SessionOK(s, j, now)
  BY <1>2, <1>5, <1>6 DEF SessionOK, BookerOK, ItemCallOK, CheckOK
<1> QED
  BY <1>4, <1>7

LEMMA SessionFacts ==
    ASSUME IInv, NEW s \in Sessions
    PROVE  /\ session \in [Sessions -> SessionRecord]
           /\ session[s] \in SessionRecord /\ SessionOK(s, session[s], now)
           /\ s \in Bookers => BookerOK(session[s], now)
           /\ s \in ItemCalls => ItemCallOK(session[s], now)
BY DEF IInv, SessionsInv, SessionOK

LEMMA SessionStep ==
    ASSUME IInv, NEW s \in Sessions, NEW j \in SessionRecord, SessionOK(s, j, now),
           session' = [session EXCEPT ![s] = j], UNCHANGED now
    PROVE  SessionsInv'
BY DEF IInv, SessionsInv

LEMMA FreshStep ==
    ASSUME IInv, NEW s \in Sessions, End(s) \/ session' = [session EXCEPT ![s] = Fresh],
           UNCHANGED now
    PROVE  SessionsInv'
BY FreshOK, SessionStep DEF End

-----------------------------------------------------------------------------
(* What a look at the calendar shows *)

LEMMA SeenType ==
    ASSUME IInv
    PROVE  /\ Seen \in SUBSET (Items \X Int)
           /\ \A x \in Tasks : x \in Items /\ items[x].due \in Int
           /\ \A x \in Items, slot \in Int :
                 <<x, slot>> \in Seen => x \in Tasks /\ slot = items[x].due
<1>1. \A x \in Tasks : x \in Items /\ items[x].due \in Int
  BY DEF IInv, ItemsInv, Tasks, Active, Item
<1> QED
  BY <1>1 DEF Seen

LEMMA NearOverlap ==
    ASSUME NEW slot \in Int, NEW other \in Int, ~Near(slot, other)
    PROVE  ~Overlap(slot, other)
BY DEF Near, Overlap

LEMMA LookedClear ==
    ASSUME IInv, NEW slot \in Int, NEW except, NEW exempt, \A x \in except : x = exempt,
           Conflicts(slot, except) = {}
    PROVE  \A y \in Items, other \in Int :
              (<<y, other>> \in Seen /\ y # exempt) => ~Overlap(slot, other)
<1> SUFFICES ASSUME NEW y \in Items, NEW other \in Int, <<y, other>> \in Seen, y # exempt
             PROVE  ~Overlap(slot, other)
  OBVIOUS
<1>1. y \in Tasks /\ other = items[y].due
  BY SeenType
<1>2. y \in Tasks \ except
  BY <1>1
<1>3. ~Near(slot, other)
  BY <1>1, <1>2 DEF Conflicts
<1> QED
  BY <1>3, NearOverlap

LEMMA NowType == IInv => now \in Int
BY TimeAssumption DEF IInv, ClockInv

LEMMA CheckMade ==
    ASSUME IInv, NEW slot \in Int, NEW except, NEW exempt, \A x \in except : x = exempt,
           Conflicts(slot, except) = {}, NEW words \in Due, NEW tz \in Zones,
           slot = When(words, tz, now), NEW check,
           check = [at |-> slot, words |-> words, tz |-> tz, on |-> now, seen |-> Seen]
    PROVE  /\ check \in Check /\ check.at = slot /\ check.words = words /\ check.on = now
           /\ Read(check) /\ ClearOf(check, exempt)
<1>1. check \in Check
  BY SeenType, NowType DEF Check
<1>2. /\ check.at = slot /\ check.words = words /\ check.tz = tz /\ check.on = now
      /\ check.seen = Seen
  OBVIOUS
<1>3. ClearOf(check, exempt)
  BY <1>2, LookedClear DEF ClearOf
<1> QED
  BY <1>1, <1>2, <1>3 DEF Read

LEMMA AlternativesFree ==
    ASSUME IInv, NEW slot \in Int
    PROVE  /\ Alternatives(slot) \subseteq Int
           /\ \A t \in Alternatives(slot) : \A y \in Items, other \in Int :
                 <<y, other>> \in Seen => ~Overlap(t, other)
<1>1. \A t \in Alternatives(slot) : t \in Int /\ Conflicts(t, {}) = {}
  BY TimeAssumption DEF Alternatives, Unoccupied
<1>2. ASSUME NEW t \in Alternatives(slot), NEW y \in Items, NEW other \in Int,
             <<y, other>> \in Seen
      PROVE  ~Overlap(t, other)
  BY <1>1, <1>2, LookedClear, NilFacts
<1> QED
  BY <1>1, <1>2

-----------------------------------------------------------------------------
(* Steps that leave items alone *)

LEMMA Unbooked ==
    ASSUME IInv, UNCHANGED <<items, zone, now, book>>, ProposalsInv', SessionsInv'
    PROVE  IInv'
BY DEF IInv, ItemsInv, ClockInv

LEMMA Unproposed ==
    ASSUME IInv, UNCHANGED proposal
    PROVE  ProposalsInv'
BY DEF IInv, ProposalsInv

LEMMA ProposalStep ==
    ASSUME IInv, NEW p \in Proposals, NEW row \in ProposalRecord, ProposalOK(p, row),
           proposal' = [proposal EXCEPT ![p] = row]
    PROVE  ProposalsInv'
BY DEF IInv, ProposalsInv

LEMMA CheckOpInv ==
    ASSUME IInv, NEW s \in Bookers, CheckOp(s)
    PROVE  IInv'
<1>1. /\ s \in Sessions /\ s \notin ItemCalls /\ session[s] \in SessionRecord
      /\ SessionOK(s, session[s], now) /\ BookerOK(session[s], now)
  BY CallFacts, SessionFacts
<1>2. PICK j \in SessionRecord : j = session[s]
  BY <1>1
<1>3. j.pc = "checking" /\ j.next <= Len(j.ops)
  BY <1>2 DEF CheckOp, At, More
<1>4. PICK i \in Nat \ {0} : i = j.next
  BY <1>2 DEF SessionRecord
<1>5. /\ j.about \in Proposals /\ Len(j.ops) = Len(Asked[j.about]) /\ j.ops \in Seq(Op)
      /\ j.checks \in [1..MostOps -> Check] /\ j.clars \subseteq Clarification
      /\ j.zone \in Zones \union {Nil}
  BY <1>1, <1>2, <1>3 DEF BookerOK, SessionRecord
<1>6. i \in 1..Len(j.ops) /\ i \in 1..MostOps /\ j.ops[i] \in Op
  BY <1>3, <1>4, <1>5, AskedAssumption
<1>7. PICK tz \in Zones : tz = CheckZone(s)
  BY <1>2, <1>5, TimeAssumption DEF CheckZone
<1>17. PICK due \in Due : due = j.ops[i].due
  BY <1>6 DEF Op
<1>8. PICK slot \in Int \union {Nil} : slot = When(due, tz, now)
  BY WhenType, NowType
<1>9. /\ UNCHANGED <<items, zone, proposal, now, book>>
      /\ \/ session' = [session EXCEPT ![s].next = i + 1]
         \/ /\ slot # Nil /\ Conflicts(slot, {}) = {}
            /\ session' = [session EXCEPT
                        ![s].next = i + 1,
                        ![s].checks[i] = [at |-> slot, words |-> due, tz |-> tz,
                                          on |-> now, seen |-> Seen]]
         \/ /\ slot # Nil
            /\ \E x \in Earliest(Conflicts(slot, {})) :
                      session' = [session EXCEPT
                        ![s].next = i + 1,
                        ![s].clars = @ \union {[op |-> i, existing |-> x, at |-> slot,
                                                suggestions |-> Alternatives(slot),
                                                seen |-> Seen]}]
  BY <1>2, <1>4, <1>7, <1>8, <1>17 DEF CheckOp, Current
<1>10. ASSUME NEW new \in SessionRecord, session' = [session EXCEPT ![s] = new], SessionOK(s, new, now)
       PROVE  IInv'
  BY <1>1, <1>9, <1>10, SessionStep, Unbooked, Unproposed
<1>18. PICK n \in Nat \ {0} : n = i + 1
  OBVIOUS
<1> DEFINE next == [j EXCEPT !.next = n]
<1>11. /\ next \in SessionRecord /\ next.pc = j.pc /\ next.ops = j.ops /\ next.zone = j.zone
       /\ next.checks = j.checks /\ next.clars = j.clars /\ next.about = j.about
       /\ next.rows = j.rows /\ next.books = j.books
  BY DEF SessionRecord
<1>12. PICK k \in SessionRecord : k = next
  BY <1>11
<1>13. SessionOK(s, k, now)
  BY <1>1, <1>2, <1>11, <1>12 DEF SessionOK, BookerOK, CheckOK
<1>14. CASE session' = [session EXCEPT ![s].next = i + 1]
  BY <1>2, <1>10, <1>12, <1>13, <1>14, <1>18
<1>15. CASE /\ slot # Nil /\ Conflicts(slot, {}) = {}
            /\ session' = [session EXCEPT
                        ![s].next = i + 1,
                        ![s].checks[i] = [at |-> slot, words |-> due, tz |-> tz,
                                          on |-> now, seen |-> Seen]]
  <2>1. PICK check : check = [at |-> slot, words |-> due, tz |-> tz,
                                          on |-> now, seen |-> Seen]
    OBVIOUS
  <2>2. /\ check \in Check /\ check.at = slot /\ check.words = due /\ check.on = now
        /\ Read(check) /\ ClearOf(check, Nil)
    BY <1>8, <1>15, <2>1, CheckMade
  <2> DEFINE new == [k EXCEPT !.checks[i] = check]
  <2>3. /\ new.pc = k.pc /\ new.ops = k.ops /\ new.zone = k.zone
        /\ new.clars = k.clars /\ new.about = k.about
        /\ new.rows = k.rows /\ new.books = k.books
        /\ new.checks = [j.checks EXCEPT ![i] = check]
    BY <1>11, <1>12 DEF SessionRecord
  <2>4. new.checks \in [1..MostOps -> Check]
    <3>1. [j.checks EXCEPT ![i] = check] \in [1..MostOps -> Check]
      BY <1>5, <2>2
    <3> QED
      BY <2>3, <3>1
  <2>5. new \in SessionRecord
    BY <2>4, <2>3 DEF SessionRecord
  <2>6. CheckOK(new, check, i, now)
    BY <1>6, <1>11, <1>12, <1>17, <2>2, <2>3, NowType DEF CheckOK
  <2>7. \A l \in 1..MostOps : CheckOK(new, new.checks[l], l, now)
    <3> SUFFICES ASSUME NEW l \in 1..MostOps
                 PROVE  CheckOK(new, new.checks[l], l, now)
      OBVIOUS
    <3>1. CASE l = i
      BY <1>5, <2>3, <2>6, <3>1
    <3>2. CASE l # i
      <4>1. new.checks[l] = j.checks[l] /\ CheckOK(j, j.checks[l], l, now)
        BY <1>1, <1>2, <1>5, <2>3, <3>2 DEF BookerOK
      <4> QED
        BY <1>11, <1>12, <2>3, <4>1 DEF CheckOK
    <3> QED
      BY <3>1, <3>2
  <2>8. SessionOK(s, new, now)
    <3>1. /\ new.pc = "checking" /\ new.clars = j.clars /\ new.about = j.about /\ new.ops = j.ops
          /\ new.rows = j.rows /\ new.books = j.books
      BY <1>3, <1>11, <1>12, <2>3
    <3> HIDE DEF new
    <3> QED
      BY <1>1, <1>2, <1>5, <2>7, <3>1 DEF SessionOK, BookerOK
  <2>9. session' = [session EXCEPT ![s] = new]
    <3>1. new = [j EXCEPT !.next = n, !.checks[i] = check]
      BY <1>12
    <3> QED
      BY <1>2, <1>15, <1>18, <2>1, <3>1
  <2> QED
    BY <1>10, <2>5, <2>8, <2>9
<1>16. CASE /\ slot # Nil
            /\ \E x \in Earliest(Conflicts(slot, {})) :
                      session' = [session EXCEPT
                        ![s].next = i + 1,
                        ![s].clars = @ \union {[op |-> i, existing |-> x, at |-> slot,
                                                suggestions |-> Alternatives(slot),
                                                seen |-> Seen]}]
  <2>1. PICK x \in Earliest(Conflicts(slot, {})) :
                      session' = [session EXCEPT
                        ![s].next = i + 1,
                        ![s].clars = @ \union {[op |-> i, existing |-> x, at |-> slot,
                                                suggestions |-> Alternatives(slot),
                                                seen |-> Seen]}]
    BY <1>16
  <2>2. PICK q : q = [op |-> i, existing |-> x, at |-> slot,
                      suggestions |-> Alternatives(slot), seen |-> Seen]
    OBVIOUS
  <2>3. x \in Items
    BY SeenType DEF Earliest, Conflicts
  <2>4. q \in Clarification
    BY <1>6, <1>16, <2>2, <2>3, SeenType, AlternativesFree DEF Clarification
  <2>5. FreeThen(q)
    BY <1>16, <2>2, AlternativesFree DEF FreeThen
  <2> DEFINE new == [k EXCEPT !.clars = j.clars \union {q}]
  <2>6. /\ new \in SessionRecord /\ new.pc = k.pc /\ new.ops = k.ops /\ new.zone = k.zone
        /\ new.clars = j.clars \union {q} /\ new.about = k.about /\ new.checks = k.checks
        /\ new.rows = k.rows /\ new.books = k.books
    BY <1>5, <2>4 DEF SessionRecord
  <2>7. SessionOK(s, new, now)
    <3> HIDE DEF new
    <3> QED
      BY <1>1, <1>2, <1>3, <1>11, <1>12, <2>5, <2>6 DEF SessionOK, BookerOK, CheckOK
  <2>8. session' = [session EXCEPT ![s] = new]
    <3>1. new = [j EXCEPT !.next = n, !.clars = j.clars \union {q}]
      BY <1>12
    <3> QED
      BY <1>2, <1>18, <2>1, <2>2, <3>1
  <2> QED
    BY <1>10, <2>6, <2>7, <2>8
<1> QED
  BY <1>9, <1>14, <1>15, <1>16

LEMMA PutInv ==
    ASSUME IInv, NEW p \in Proposals, NEW loaded, NEW status \in Status,
           NEW ops \in Seq(Op), Len(ops) = Len(Asked[p]), NEW clars \in SUBSET Clarification,
           \A q \in clars : FreeThen(q), Put(p, loaded, status, ops, clars)
    PROVE  ProposalsInv'
<1>1. proposal[p] \in ProposalRecord
  BY DEF IInv, ProposalsInv
<1>2. PICK st \in Status : st = IF loaded = status THEN proposal[p].status ELSE status
  BY <1>1 DEF ProposalRecord
<1>3. PICK new \in BOOLEAN :
         new = (proposal[p].renewed \/ (proposal[p].clars # {} /\ clars # proposal[p].clars))
  BY <1>1 DEF ProposalRecord
<1>4. PICK row : row = [status |-> st, ops |-> ops, clars |-> clars, renewed |-> new]
  OBVIOUS
<1>5. row \in ProposalRecord /\ row.ops = ops /\ row.clars = clars
  BY <1>4 DEF ProposalRecord
<1>6. proposal' = [proposal EXCEPT ![p] = row]
  BY <1>2, <1>3, <1>4 DEF Put
<1> QED
  BY <1>5, <1>6, ProposalStep DEF ProposalOK

LEMMA CheckedFacts ==
    ASSUME IInv, NEW s \in Bookers,
           session[s].pc \in {"checking", "applying", "canceling", "replacing"}
    PROVE  /\ s \in Sessions /\ Of(s) \in Proposals
           /\ session[s] \in SessionRecord
           /\ session[s].ops \in Seq(Op) /\ session[s].clars \in SUBSET Clarification
           /\ \A q \in session[s].clars : FreeThen(q)
           /\ session[s].pc # "canceling" => Len(session[s].ops) = Len(Asked[Of(s)])
<1>1. /\ s \in Sessions /\ session[s] \in SessionRecord
      /\ SessionOK(s, session[s], now) /\ BookerOK(session[s], now)
  BY CallFacts, SessionFacts
<1> QED
  BY <1>1 DEF SessionOK, BookerOK, SessionRecord, Of

LEMMA AskInv ==
    ASSUME IInv, NEW s \in Bookers, Ask(s)
    PROVE  IInv'
<1>1. ProposalsInv'
  BY PutInv, CheckedFacts DEF Ask, At, Status
<1>2. SessionsInv'
  BY FreshStep, CheckedFacts DEF Ask, At
<1> QED
  BY <1>1, <1>2, Unbooked DEF Ask

\* The session goes on to apply what it has checked.
LEMMA ApplyStep ==
    ASSUME IInv, NEW s \in Bookers, session[s].pc \in {"checking", "replacing"},
           UNCHANGED now,
           session' = [session EXCEPT ![s].pc = "applying", ![s].status = "ready", ![s].next = 1]
    PROVE  SessionsInv'
<1>1. s \in Sessions /\ SessionOK(s, session[s], now) /\ BookerOK(session[s], now) /\ s \notin ItemCalls
  BY CallFacts, SessionFacts
<1>2. PICK j \in SessionRecord : j = session[s]
  BY CheckedFacts
<1>3. PICK k : k = [j EXCEPT !.pc = "applying", !.status = "ready", !.next = 1]
  OBVIOUS
<1>4. /\ k.pc = "applying" /\ k.ops = j.ops /\ k.zone = j.zone /\ k.clars = j.clars
      /\ k.about = j.about /\ k.checks = j.checks /\ k.rows = j.rows /\ k.books = j.books
  BY <1>3 DEF SessionRecord
<1>5. k \in SessionRecord
  <2>1. [j EXCEPT !.pc = "applying"] \in SessionRecord
    BY DEF SessionRecord, States
  <2>2. [j EXCEPT !.pc = "applying", !.status = "ready"] \in SessionRecord
    BY <2>1 DEF SessionRecord, Status
  <2> DEFINE l == [j EXCEPT !.pc = "applying", !.status = "ready"]
  <2>3. PICK n \in Nat \ {0} : n = 1
    OBVIOUS
  <2>4. k = [l EXCEPT !.next = n]
    BY <1>3, <2>3
  <2>5. l \in SessionRecord
    BY <2>2
  <2> HIDE DEF l
  <2> QED
    BY <2>4, <2>5 DEF SessionRecord
<1>6. session' = [session EXCEPT ![s] = k]
  BY <1>2, <1>3
<1>7. SessionOK(s, k, now)
  BY <1>1, <1>2, <1>4 DEF SessionOK, BookerOK, CheckOK
<1> QED
  BY <1>1, <1>5, <1>6, <1>7, SessionStep

LEMMA ReadyInv ==
    ASSUME IInv, NEW s \in Bookers, Ready(s) \/ (s \in Confirms /\ Replaced(s))
    PROVE  IInv'
<1>1. session[s].pc \in {"checking", "replacing"}
  BY DEF Ready, Replaced, At
<1>2. ProposalsInv'
  <2>1. Put(Of(s), session[s].status, "ready", session[s].ops, {})
    BY DEF Ready, Replaced
  <2>2. "ready" \in Status /\ {} \in SUBSET Clarification
    BY DEF Status
  <2> QED
    BY <1>1, <2>1, <2>2, PutInv, CheckedFacts
<1>3. SessionsInv'
  BY <1>1, CheckedFacts, FreshStep, ApplyStep DEF Ready, Replaced
<1> QED
  BY <1>2, <1>3, Unbooked DEF Ready, Replaced

\* A call has loaded a proposal.
LEMMA LoadStep ==
    ASSUME IInv, NEW s \in Bookers, At(s, "idle"), NEW j \in SessionRecord,
           session' = [session EXCEPT ![s] = j], UNCHANGED <<items, zone, proposal, now, book>>,
           j.pc \in {"checking", "applying", "canceling", "replacing"},
           j.about \in Proposals, j.checks = session[s].checks,
           j.rows = session[s].rows, j.books = session[s].books,
           j.pc = "canceling" \/ Len(j.ops) = Len(Asked[j.about]),
           \A q \in j.clars : FreeThen(q)
    PROVE  IInv'
<1>1. s \in Sessions /\ SessionOK(s, session[s], now) /\ s \notin ItemCalls
  BY CallFacts, SessionFacts
<1>2. \A i \in 1..MostOps : j.checks[i].at = Nil
  BY <1>1 DEF SessionOK, At
<1>3. SessionOK(s, j, now)
  BY <1>1, <1>2 DEF SessionOK, BookerOK, CheckOK
<1> QED
  BY <1>1, <1>3, SessionStep, Unbooked, Unproposed

LEMMA StartWorkerInv ==
    ASSUME IInv, NEW p \in Proposals, StartWorker(p)
    PROVE  IInv'
<1>1. p \in Bookers /\ session[p] \in SessionRecord /\ zone \in Zones \union {Nil}
  BY CallFacts, SessionFacts DEF IInv, ClockInv
<1>2. PICK clars : clars = IF p \in AutoApply THEN {}
                                ELSE {[op |-> i, existing |-> Nil, at |-> Nil,
                                       suggestions |-> {}, seen |-> {}] :
                                      i \in {j \in 1..Len(Asked[p]) :
                                            Asked[p][j].do = "create" /\ Asked[p][j].due = Nil}}
  OBVIOUS
<1>3. clars \in SUBSET Clarification /\ \A q \in clars : FreeThen(q)
  <2>1. 1..Len(Asked[p]) \subseteq 1..MostOps
    BY AskedAssumption
  <2> QED
    BY <1>2, <2>1 DEF Clarification, FreeThen
<1>4. PICK ops \in Seq(Op) : ops = Asked[p]
  BY AskedAssumption
<1>5. PICK j \in SessionRecord : j = session[p]
  BY <1>1
<1>6. PICK k : k = [j EXCEPT !.pc = "checking", !.about = p, !.ops = ops, !.zone = zone,
                             !.clars = clars]
  OBVIOUS
<1>7. /\ k.pc = "checking" /\ k.about = p /\ k.ops = ops /\ k.clars = clars
      /\ k.checks = j.checks /\ k.rows = j.rows /\ k.books = j.books
  BY <1>6 DEF SessionRecord
<1>8. k \in SessionRecord
  <2> DEFINE l == [j EXCEPT !.pc = "checking", !.about = p]
  <2>1. l \in SessionRecord
    BY <1>1 DEF SessionRecord, States
  <2>2. k = [l EXCEPT !.ops = ops, !.zone = zone, !.clars = clars]
    BY <1>6
  <2> HIDE DEF l
  <2> QED
    BY <1>1, <1>3, <1>4, <2>1, <2>2 DEF SessionRecord
<1>9. session' = [session EXCEPT ![p] = k] /\ UNCHANGED <<items, zone, proposal, now, book>>
  BY <1>2, <1>4, <1>5, <1>6 DEF StartWorker
<1> QED
  BY <1>1, <1>3, <1>4, <1>5, <1>7, <1>8, <1>9, LoadStep DEF StartWorker

LEMMA LoadInv ==
    ASSUME IInv, NEW c \in Confirms, NEW p \in Proposals,
           NEW pc \in {"checking", "applying", "canceling", "replacing"},
           NEW ops \in Seq(Op), pc = "canceling" \/ Len(ops) = Len(Asked[p]),
           NEW clars \in SUBSET Clarification, \A q \in clars : FreeThen(q),
           Load(c, p, pc, ops, clars)
    PROVE  IInv'
<1>1. /\ c \in Bookers /\ zone \in Zones \union {Nil}
      /\ proposal[p].status \in Status
  BY CallFacts DEF IInv, ClockInv, ProposalsInv, ProposalRecord
<1>2. PICK j \in SessionRecord : j = session[c]
  BY <1>1, CallFacts, SessionFacts
<1>3. PICK k : k = [j EXCEPT !.pc = pc, !.about = p, !.status = proposal[p].status, !.zone = zone,
                             !.ops = ops, !.clars = clars]
  OBVIOUS
<1>4. /\ k.pc = pc /\ k.about = p /\ k.ops = ops /\ k.clars = clars
      /\ k.checks = j.checks /\ k.rows = j.rows /\ k.books = j.books
  BY <1>3 DEF SessionRecord
<1>5. k \in SessionRecord
  <2> DEFINE l == [j EXCEPT !.pc = pc, !.about = p, !.status = proposal[p].status]
  <2>1. l \in SessionRecord
    BY <1>1 DEF SessionRecord, States
  <2>2. k = [l EXCEPT !.zone = zone, !.ops = ops, !.clars = clars]
    BY <1>3
  <2> HIDE DEF l
  <2> QED
    BY <1>1, <2>1, <2>2 DEF SessionRecord
<1>6. session' = [session EXCEPT ![c] = k] /\ UNCHANGED <<items, zone, proposal, now, book>>
  BY <1>2, <1>3 DEF Load
<1> QED
  BY <1>1, <1>2, <1>4, <1>5, <1>6, LoadStep DEF Load

LEMMA ProposalFacts ==
    ASSUME IInv, NEW p \in Proposals
    PROVE  /\ proposal[p].ops \in Seq(Op) /\ Len(proposal[p].ops) = Len(Asked[p])
           /\ proposal[p].clars \in SUBSET Clarification
           /\ \A q \in proposal[p].clars : FreeThen(q)
BY DEF IInv, ProposalsInv, ProposalRecord, ProposalOK

\* Answers fill in times and leave as many operations as there were.
LEMMA FilledType ==
    ASSUME IInv, NEW p \in Proposals, NEW answers \in Answers(p)
    PROVE  /\ Filled(proposal[p].ops, answers) \in Seq(Op)
           /\ Len(Filled(proposal[p].ops, answers)) = Len(Asked[p])
<1>1. PICK ops \in Seq(Op) : ops = proposal[p].ops /\ Len(ops) = Len(Asked[p])
  BY ProposalFacts
<1>2. \A i \in DOMAIN answers : answers[i] \in Int \union {Nil}
  <2>1. \A q \in proposal[p].clars : q.suggestions \subseteq Int
    BY ProposalFacts, ClarificationFacts
  <2> QED
    <3>1. PICK times : times = {Nil} \union Wishes
                              \union UNION {q.suggestions : q \in proposal[p].clars}
      OBVIOUS
    <3>2. times \subseteq Int \union {Nil}
      BY <2>1, <3>1, TimeAssumption
    <3>3. answers \in [{q.op : q \in proposal[p].clars} -> times]
      BY <3>1 DEF Answers
    <3> QED
      BY <3>2, <3>3
<1>3. \A i \in 1..Len(ops) : ops[i] \in Op
  OBVIOUS
<1>4. DOMAIN ops = 1..Len(ops) /\ Len(ops) \in Nat
  OBVIOUS
<1>5. Filled(ops, answers) \in [1..Len(ops) -> Op]
  <2>1. ASSUME NEW i \in 1..Len(ops), i \in DOMAIN answers
        PROVE  [ops[i] EXCEPT !.due = IF answers[i] = Nil THEN @ ELSE answers[i]] \in Op
    <3>1. PICK op \in Op : op = ops[i]
      BY <1>3
    <3>2. PICK due \in Due : due = IF answers[i] = Nil THEN op.due ELSE answers[i]
      BY <1>2, <2>1 DEF Due, Op
    <3>3. [op EXCEPT !.due = due] \in Op
      BY DEF Op
    <3> QED
      BY <3>1, <3>2, <3>3
  <2> QED
    BY <1>3, <1>4, <2>1 DEF Filled
<1>6. Filled(ops, answers) \in Seq(Op) /\ Len(Filled(ops, answers)) = Len(ops)
  BY <1>4, <1>5
<1> QED
  BY <1>1, <1>6

LEMMA LoadsInv ==
    ASSUME IInv, NEW c \in Confirms, NEW p \in Proposals,
           LoadToCancel(c, p) \/ LoadToCheck(c, p) \/ LoadToReplace(c, p) \/ LoadToApply(c, p)
    PROVE  IInv'
<1>1. CASE LoadToCancel(c, p)
  <2>1. <<>> \in Seq(Op) /\ {} \in SUBSET Clarification
    OBVIOUS
  <2> QED
    BY <1>1, <2>1, LoadInv DEF LoadToCancel
<1>2. CASE LoadToCheck(c, p)
  BY <1>2, FilledType, LoadInv DEF LoadToCheck
<1>3. CASE LoadToReplace(c, p)
  <2>1. PICK clars : clars = {q \in proposal[p].clars : q.existing # Nil}
    OBVIOUS
  <2>2. clars \in SUBSET Clarification /\ \A q \in clars : FreeThen(q)
    BY <2>1, ProposalFacts
  <2> QED
    BY <1>3, <2>1, <2>2, FilledType, LoadInv DEF LoadToReplace
<1>4. CASE LoadToApply(c, p)
  BY <1>4, ProposalFacts, LoadInv DEF LoadToApply
<1> QED
  BY <1>1, <1>2, <1>3, <1>4

LEMMA CancelNewInv ==
    ASSUME IInv, NEW c \in Confirms, CancelNew(c)
    PROVE  IInv'
<1>1. c \in Bookers /\ c \in Sessions /\ Of(c) \in Proposals
  BY CallFacts, CheckedFacts DEF CancelNew, At
<1>2. PICK p \in Proposals : p = Of(c)
  BY <1>1
<1>3. PICK row : row = [proposal[p] EXCEPT !.status = "canceled"]
  OBVIOUS
<1>4. row \in ProposalRecord /\ row.ops = proposal[p].ops /\ row.clars = proposal[p].clars
  BY <1>3 DEF IInv, ProposalsInv, ProposalRecord, Status
<1>5. ProposalOK(p, row)
  BY <1>4, ProposalFacts DEF ProposalOK
<1>6. proposal' = [proposal EXCEPT ![p] = row]
  BY <1>2, <1>3 DEF CancelNew
<1> QED
  BY <1>1, <1>4, <1>5, <1>6, ProposalStep, FreshStep, Unbooked DEF CancelNew

-----------------------------------------------------------------------------
(* Steps that change items *)

LEMMA UnchangedClock ==
    ASSUME IInv, UNCHANGED <<zone, now>>, ItemsInv', ProposalsInv', SessionsInv'
    PROVE  IInv'
BY DEF IInv, ClockInv

\* One row changes but for its time.
LEMMA RowStep ==
    ASSUME IInv, NEW x \in Items, NEW row \in Item, row.due = items[x].due,
           items' = [items EXCEPT ![x] = row], UNCHANGED book
    PROVE  ItemsInv'
BY DEF IInv, ItemsInv

LEMMA RowFacts ==
    ASSUME IInv, NEW x \in Items
    PROVE  items[x] \in Item
BY DEF IInv, ItemsInv

LEMMA CancelExistingInv ==
    ASSUME IInv, NEW c \in Confirms, CancelExisting(c)
    PROVE  IInv'
<1>1. /\ c \in Bookers /\ c \notin ItemCalls /\ c \in Sessions /\ session[c].pc = "replacing"
      /\ SessionOK(c, session[c], now) /\ BookerOK(session[c], now)
  BY CallFacts, SessionFacts DEF CancelExisting, At
<1>2. PICK q \in session[c].clars :
         /\ items' = [items EXCEPT ![q.existing].status = "CANCELED"]
         /\ session' = [session EXCEPT ![c].clars = @ \ {q}]
  BY DEF CancelExisting
<1>3. PICK j \in SessionRecord : j = session[c]
  BY <1>1, SessionFacts
<1>4. PICK k : k = [j EXCEPT !.clars = j.clars \ {q}]
  OBVIOUS
<1>5. /\ k \in SessionRecord /\ k.pc = j.pc /\ k.ops = j.ops /\ k.zone = j.zone
      /\ k.about = j.about /\ k.checks = j.checks /\ k.clars = j.clars \ {q}
      /\ k.rows = j.rows /\ k.books = j.books
  BY <1>4 DEF SessionRecord
<1>6. SessionOK(c, k, now)
  BY <1>1, <1>3, <1>5 DEF SessionOK, BookerOK, CheckOK
<1>7. session' = [session EXCEPT ![c] = k]
  BY <1>2, <1>3, <1>4
<1>8. SessionsInv'
  BY <1>1, <1>5, <1>6, <1>7, SessionStep DEF CancelExisting
<1>9. ItemsInv'
  <2>1. CASE q.existing \in Items
    <3>1. PICK x \in Items : x = q.existing
      BY <2>1
    <3>2. PICK row : row = [items[x] EXCEPT !.status = "CANCELED"]
      OBVIOUS
    <3>3. row \in Item /\ row.due = items[x].due
      BY <3>2, RowFacts, StatusFacts DEF Item
    <3>4. items' = [items EXCEPT ![x] = row]
      BY <1>2, <3>1, <3>2
    <3> QED
      BY <3>3, <3>4, RowStep DEF CancelExisting
  <2>2. CASE q.existing \notin Items
    <3>1. items' = items
      BY <1>2, <2>2 DEF IInv, ItemsInv
    <3> QED
      BY <3>1 DEF IInv, ItemsInv, CancelExisting
  <2> QED
    BY <2>1, <2>2
<1> QED
  BY <1>8, <1>9, Unproposed, UnchangedClock DEF CancelExisting

\* What the session has flushed is as good as what is committed.
LEMMA FlushedOK ==
    ASSUME IInv, NEW s \in Bookers
    PROVE  /\ Flushed(s, items, session[s].rows) \in [Items -> Item]
           /\ Flushed(s, book, session[s].books) \in [Items -> Booking]
           /\ \A x \in Items : BookOK(x, Flushed(s, book, session[s].books)[x],
                                     Flushed(s, items, session[s].rows)[x].due)
<1>1. PICK j \in SessionRecord : j = session[s] /\ SessionOK(s, j, now)
  BY CallFacts, SessionFacts
<1>2. /\ j.rows \in [1..MostOps -> Item] /\ j.books \in [1..MostOps -> Booking]
      /\ items \in [Items -> Item] /\ book \in [Items -> Booking]
  BY DEF SessionRecord, IInv, ItemsInv
<1>3. PICK rows, books : /\ rows = Flushed(s, items, j.rows) /\ books = Flushed(s, book, j.books)
  OBVIOUS
<1>4. DOMAIN rows = Items /\ DOMAIN books = Items
  BY <1>3 DEF Flushed
<1>5. rows = [x \in Items |-> rows[x]] /\ books = [x \in Items |-> books[x]]
  BY <1>3 DEF Flushed
<1>6. ASSUME NEW x \in Items
      PROVE  rows[x] \in Item /\ books[x] \in Booking /\ BookOK(x, books[x], rows[x].due)
  <2>1. CASE x \in {s} \X (1..MostOps) /\ j.rows[x[2]] # NoItem
    <3>1. PICK i \in 1..MostOps : x = <<s, i>> /\ x[2] = i
      BY <2>1
    <3>2. rows[x] = j.rows[i] /\ books[x] = j.books[i]
      BY <1>1, <1>3, <2>1, <3>1 DEF Flushed
    <3>3. BookOK(<<s, i>>, j.books[i], j.rows[i].due)
      BY <1>1 DEF SessionOK
    <3> QED
      BY <1>2, <3>1, <3>2, <3>3
  <2>2. CASE ~(x \in {s} \X (1..MostOps) /\ j.rows[x[2]] # NoItem)
    <3>1. rows[x] = items[x] /\ books[x] = book[x]
      BY <1>1, <1>3, <2>2 DEF Flushed
    <3> QED
      BY <1>2, <3>1 DEF IInv, ItemsInv
  <2> QED
    BY <2>1, <2>2
<1> QED
  BY <1>1, <1>3, <1>4, <1>5, <1>6

LEMMA ApplyingFacts ==
    ASSUME IInv, NEW s \in Bookers, At(s, "applying")
    PROVE  /\ s \in Sessions /\ s \notin ItemCalls /\ Of(s) \in Proposals
           /\ session[s] \in SessionRecord /\ SessionOK(s, session[s], now)
           /\ BookerOK(session[s], now)
           /\ session[s].ops \in Seq(Op) /\ session[s].next \in Nat \ {0}
           /\ More(s) => /\ Current(s) \in Op
                         /\ session[s].next \in 1..MostOps
                         /\ session[s].next \in 1..Len(session[s].ops)
<1>1. /\ s \in Sessions /\ s \notin ItemCalls /\ session[s] \in SessionRecord
      /\ SessionOK(s, session[s], now) /\ BookerOK(session[s], now)
  BY CallFacts, SessionFacts
<1>2. /\ Of(s) \in Proposals /\ session[s].ops \in Seq(Op)
      /\ Len(session[s].ops) = Len(Asked[Of(s)])
  BY CheckedFacts DEF At
<1>3. session[s].next \in Nat \ {0}
  BY <1>1 DEF SessionRecord
<1>4. ASSUME More(s)
      PROVE  /\ session[s].next \in 1..MostOps
             /\ session[s].next \in 1..Len(session[s].ops)
  <2>1. Len(Asked[Of(s)]) \in 1..MostOps /\ MostOps \in Nat
    BY <1>2, AskedAssumption
  <2> QED
    BY <1>2, <1>3, <1>4, <2>1 DEF More
<1>5. ASSUME More(s)
      PROVE  Current(s) \in Op
  BY <1>2, <1>4, <1>5 DEF Current
<1> QED
  BY <1>1, <1>2, <1>3, <1>4, <1>5

\* A session that goes on applying, with other rows.
LEMMA ApplyingStep ==
    ASSUME IInv, NEW s \in Bookers, At(s, "applying"), UNCHANGED now,
           NEW next \in Nat \ {0}, NEW rows \in [1..MostOps -> Item],
           NEW books \in [1..MostOps -> Booking],
           \A i \in 1..MostOps : BookOK(<<s, i>>, books[i], rows[i].due),
           session' = [session EXCEPT ![s] =
                          [session[s] EXCEPT !.next = next, !.rows = rows, !.books = books]]
    PROVE  SessionsInv'
<1>1. PICK j \in SessionRecord : /\ j = session[s] /\ SessionOK(s, j, now)
                                 /\ BookerOK(j, now)
  BY ApplyingFacts
<1>2. PICK k : k = [j EXCEPT !.next = next, !.rows = rows, !.books = books]
  OBVIOUS
<1>3. /\ k.pc = j.pc /\ k.ops = j.ops /\ k.zone = j.zone /\ k.clars = j.clars
      /\ k.about = j.about /\ k.checks = j.checks /\ k.rows = rows /\ k.books = books
  BY <1>2 DEF SessionRecord
<1>4. k \in SessionRecord
  <2> DEFINE l == [j EXCEPT !.next = next]
  <2>1. l \in SessionRecord
    BY DEF SessionRecord
  <2>2. k = [l EXCEPT !.rows = rows, !.books = books]
    BY <1>2
  <2> HIDE DEF l
  <2> QED
    BY <2>1, <2>2 DEF SessionRecord
<1>5. j.pc = "applying"
  BY <1>1 DEF At
<1>6. BookerOK(k, now)
  BY <1>1, <1>3 DEF BookerOK, CheckOK
<1>7. SessionOK(s, k, now)
  BY <1>1, <1>3, <1>5, <1>6, ApplyingFacts DEF SessionOK
<1> QED
  BY <1>1, <1>2, <1>4, <1>7, ApplyingFacts, SessionStep

LEMMA CreateInv ==
    ASSUME IInv, NEW s \in Bookers, Create(s)
    PROVE  IInv'
<1>1. At(s, "applying") /\ More(s) /\ UNCHANGED <<items, zone, proposal, now, book>>
  BY DEF Create
<1>2. PICK j \in SessionRecord : j = session[s] /\ SessionOK(s, j, now) /\ BookerOK(j, now)
  BY <1>1, ApplyingFacts
<1>3. PICK i \in 1..MostOps : i = j.next
  BY <1>1, <1>2, ApplyingFacts
<1>4. PICK op \in Op : op = Current(s) /\ op = j.ops[i]
  BY <1>1, <1>2, <1>3, ApplyingFacts DEF Current
<1>5. op.due \in Due /\ j.zone \in Zones \union {Nil} /\ BookZone(s) = Preferred(j.zone)
  BY <1>2 DEF Op, SessionRecord, BookZone
<1>6. PICK slot \in Int \union {Nil} : slot = When(op.due, Preferred(j.zone), now)
  BY <1>5, PreferredType, WhenType, NowType
<1>7. PICK check \in Check : check = j.checks[i] /\ CheckOK(j, check, i, now)
  BY <1>2, <1>3 DEF SessionRecord, BookerOK
<1>8. PICK row : row = [type |-> "TASK", status |-> "ACTIVE", deleted |-> FALSE, due |-> slot]
  OBVIOUS
<1>9. row \in Item /\ row.due = slot
  BY <1>8, StatusFacts DEF Item
<1>10. PICK b : b = [check |-> check, tz |-> j.zone, by |-> now]
  OBVIOUS
<1>11. b \in Booking /\ b.check = check /\ b.tz = j.zone /\ b.by = now
  BY <1>5, <1>10, NowType DEF Booking
<1>12. BookOK(<<s, i>>, b, slot)
  <2>1. ClearOf(check, <<s, i>>)
    BY <1>7, NilFacts DEF CheckOK, ClearOf
  <2> QED
    BY <1>4, <1>6, <1>7, <1>11, <2>1 DEF CheckOK, BookOK
<1>13. j.rows \in [1..MostOps -> Item] /\ j.books \in [1..MostOps -> Booking]
  BY DEF SessionRecord
<1>14. PICK rows, books : /\ rows = [j.rows EXCEPT ![i] = row]
                          /\ books = [j.books EXCEPT ![i] = b]
  OBVIOUS
<1>15. /\ rows \in [1..MostOps -> Item] /\ books \in [1..MostOps -> Booking]
       /\ \A l \in 1..MostOps : BookOK(<<s, l>>, books[l], rows[l].due)
  <2>1. rows \in [1..MostOps -> Item] /\ books \in [1..MostOps -> Booking]
    BY <1>9, <1>11, <1>13, <1>14
  <2>2. ASSUME NEW l \in 1..MostOps
        PROVE  BookOK(<<s, l>>, books[l], rows[l].due)
    <3>1. CASE l = i
      <4>1. books[l] = b /\ rows[l] = row
        BY <1>13, <1>14, <3>1
      <4> QED
        BY <1>9, <1>12, <3>1, <4>1
    <3>2. CASE l # i
      <4>1. books[l] = j.books[l] /\ rows[l] = j.rows[l]
        BY <1>13, <1>14, <3>2
      <4> QED
        BY <1>2, <4>1 DEF SessionOK
    <3> QED
      BY <3>1, <3>2
  <2> QED
    BY <2>1, <2>2
<1>16. PICK next \in Nat \ {0} : next = i + 1
  OBVIOUS
<1>17. session' = [session EXCEPT ![s] = [j EXCEPT !.next = next, !.rows = rows, !.books = books]]
  <2>1. session' = [session EXCEPT ![s].next = i + 1, ![s].rows[i] = row, ![s].books[i] = b]
    BY <1>2, <1>3, <1>4, <1>5, <1>6, <1>7, <1>8, <1>10 DEF Create
  <2> QED
    BY <1>2, <1>14, <1>16, <2>1
<1>18. SessionsInv'
  BY <1>1, <1>2, <1>15, <1>17, ApplyingStep
<1> QED
  BY <1>1, <1>18, Unbooked, Unproposed

LEMMA SkipInv ==
    ASSUME IInv, NEW s \in Bookers, Skip(s)
    PROVE  IInv'
<1>1. At(s, "applying") /\ UNCHANGED <<items, zone, proposal, now, book>>
  BY DEF Skip
<1>2. PICK j \in SessionRecord : j = session[s] /\ SessionOK(s, j, now)
  BY <1>1, ApplyingFacts
<1>3. /\ j.rows \in [1..MostOps -> Item] /\ j.books \in [1..MostOps -> Booking]
      /\ \A l \in 1..MostOps : BookOK(<<s, l>>, j.books[l], j.rows[l].due)
  BY <1>2 DEF SessionRecord, SessionOK
<1>4. PICK next \in Nat \ {0} : next = j.next + 1
  BY DEF SessionRecord
<1>5. session' = [session EXCEPT ![s] = [j EXCEPT !.next = next, !.rows = j.rows, !.books = j.books]]
  <2>1. [j EXCEPT !.next = next, !.rows = j.rows, !.books = j.books] = [j EXCEPT !.next = next]
    BY DEF SessionRecord
  <2> QED
    BY <1>2, <1>4, <2>1 DEF Skip
<1>6. SessionsInv'
  BY <1>1, <1>2, <1>3, <1>5, ApplyingStep
<1> QED
  BY <1>1, <1>6, Unbooked, Unproposed

\* An item that is moved has no check; the others are as they were flushed.
LEMMA UpdateInv ==
    ASSUME IInv, NEW s \in Bookers, Update(s)
    PROVE  IInv'
<1>1. At(s, "applying") /\ More(s) /\ UNCHANGED <<zone, proposal, now>>
  BY DEF Update
<1>2. PICK j \in SessionRecord : j = session[s]
  BY <1>1, ApplyingFacts
<1>3. PICK op \in Op : op = Current(s)
  BY <1>1, ApplyingFacts
<1>4. PICK x \in Items : x = op.item
  BY <1>3 DEF Update, Op, Items
<1>5. PICK rows \in [Items -> Item], books \in [Items -> Booking] :
         /\ rows = Flushed(s, items, j.rows) /\ books = Flushed(s, book, j.books)
         /\ \A y \in Items : BookOK(y, books[y], rows[y].due)
  BY <1>2, FlushedOK
<1>6. j.zone \in Zones \union {Nil} /\ BookZone(s) \in Zones
  BY <1>2, PreferredType DEF SessionRecord, BookZone
<1>7. PICK due \in Int \union {Nil} :
         due = IF op.due = Nil THEN rows[x].due ELSE When(op.due, BookZone(s), now)
  <2>1. op.due \in Due /\ rows[x].due \in Int \union {Nil}
    BY DEF Op, Item
  <2> QED
    BY <1>6, <2>1, WhenType, NowType
<1>8. PICK status \in ItemStatus : status = IF op.status = Nil THEN rows[x].status ELSE op.status
  <2>1. op.status \in ItemStatus \union {Nil} /\ rows[x].status \in ItemStatus
    BY DEF Op, Item
  <2> QED
    BY <2>1
<1>9. PICK row : row = [rows[x] EXCEPT !.due = due, !.status = status]
  OBVIOUS
<1>10. row \in Item /\ row.due = due
  BY <1>9 DEF Item
<1>11. PICK b \in Booking : b = IF op.due = Nil THEN books[x] ELSE NotBooked
  BY NotCheckedFacts
<1>12. BookOK(x, b, due)
  BY <1>5, <1>7, <1>11, NotCheckedFacts DEF BookOK, ClearOf
<1>13. items' = [rows EXCEPT ![x] = row] /\ book' = [books EXCEPT ![x] = b]
  <2>1. /\ items' = [rows EXCEPT
                ![x].due = IF op.due = Nil THEN @ ELSE When(op.due, BookZone(s), now),
                ![x].status = IF op.status = Nil THEN @ ELSE op.status]
        /\ book' = [books EXCEPT ![x] = IF op.due = Nil THEN @ ELSE NotBooked]
    BY <1>2, <1>3, <1>4, <1>5 DEF Update
  <2> QED
    BY <1>7, <1>8, <1>9, <1>11, <2>1
<1>14. ItemsInv'
  BY <1>5, <1>10, <1>12, <1>13 DEF ItemsInv
<1>15. SessionsInv'
  <2>1. /\ Fresh.rows = [i \in 1..MostOps |-> NoItem] /\ Fresh.books = [i \in 1..MostOps |-> NotBooked]
    BY DEF Fresh
  <2> HIDE DEF NoItem, NotBooked, Fresh
  <2>2. /\ Fresh.rows \in [1..MostOps -> Item] /\ Fresh.books \in [1..MostOps -> Booking]
    BY <2>1, NotCheckedFacts, StatusFacts
  <2>3. \A i \in 1..MostOps : BookOK(<<s, i>>, Fresh.books[i], Fresh.rows[i].due)
    BY <2>1, NotCheckedFacts DEF BookOK, ClearOf
  <2>4. PICK next \in Nat \ {0} : next = j.next + 1
    BY DEF SessionRecord
  <2>5. session' = [session EXCEPT ![s] =
                       [session[s] EXCEPT !.next = next, !.rows = Fresh.rows, !.books = Fresh.books]]
    BY <1>2, <2>4 DEF Update
  <2> QED
    BY <1>1, <2>2, <2>3, <2>5, ApplyingStep
<1> QED
  BY <1>1, <1>14, <1>15, Unproposed, UnchangedClock

LEMMA AppliedInv ==
    ASSUME IInv, NEW s \in Bookers, Applied(s)
    PROVE  IInv'
<1>1. s \in Sessions /\ Of(s) \in Proposals
  BY ApplyingFacts DEF Applied
<1>2. ItemsInv'
  BY FlushedOK DEF Applied, ItemsInv
<1>3. ProposalsInv'
  <2>1. PICK p \in Proposals : p = Of(s)
    BY <1>1
  <2>2. PICK changed : changed = [proposal[p] EXCEPT !.status = "applied"]
    OBVIOUS
  <2>3. /\ changed \in ProposalRecord /\ changed.ops = proposal[p].ops
        /\ changed.clars = proposal[p].clars
    BY <2>2 DEF IInv, ProposalsInv, ProposalRecord, Status
  <2>4. ProposalOK(p, changed)
    BY <2>3, ProposalFacts DEF ProposalOK
  <2>5. proposal' = [proposal EXCEPT ![p] = changed]
    BY <2>1, <2>2 DEF Applied
  <2> QED
    BY <2>3, <2>4, <2>5, ProposalStep
<1>4. SessionsInv'
  BY <1>1, FreshStep DEF Applied
<1> QED
  BY <1>2, <1>3, <1>4, UnchangedClock DEF Applied

-----------------------------------------------------------------------------
(* Calls about an item *)

LEMMA ItemCallFacts ==
    ASSUME IInv, NEW s \in ItemCalls
    PROVE  /\ s \in Sessions /\ s \notin Bookers
           /\ session[s] \in SessionRecord /\ SessionOK(s, session[s], now) /\ ItemCallOK(session[s], now)
           /\ session[s].pc \in {"converting", "free", "deleting", "completing"} =>
                 Of(s) \in DOMAIN Given /\ Of(s) \in Items
BY CallFacts, SessionFacts DEF ItemCallOK, Of, Items

LEMMA LoadItemInv ==
    ASSUME IInv, NEW s \in ItemCalls, NEW type,
           NEW pc \in {"converting", "deleting", "completing"}, LoadItem(s, type, pc)
    PROVE  IInv'
<1>1. PICK x \in DOMAIN Given :
         session' = [session EXCEPT ![s] =
                [session[s] EXCEPT !.pc = pc, !.about = x, !.status = items[x].status]]
  BY DEF LoadItem
<1>2. PICK j \in SessionRecord : j = session[s] /\ SessionOK(s, j, now) /\ j.pc = "idle"
  BY ItemCallFacts DEF LoadItem, At
<1>3. x \in Items /\ items[x].status \in ItemStatus
  <2>1. x \in Items
    BY DEF Items
  <2> QED
    BY <2>1, RowFacts DEF Item
<1>4. PICK k : k = [j EXCEPT !.pc = pc, !.about = x, !.status = items[x].status]
  OBVIOUS
<1>5. k.pc = pc /\ k.about = x /\ k.clars = j.clars /\ k.rows = j.rows /\ k.books = j.books
  BY <1>4 DEF SessionRecord
<1>6. k \in SessionRecord
  <2> DEFINE l == [j EXCEPT !.pc = pc, !.about = x]
  <2>1. l \in SessionRecord
    BY <1>3 DEF SessionRecord, States
  <2>2. k = [l EXCEPT !.status = items[x].status]
    BY <1>4
  <2> HIDE DEF l
  <2> QED
    BY <1>3, <2>1, <2>2 DEF SessionRecord
<1>7. SessionOK(s, k, now)
  BY <1>2, <1>5, ItemCallFacts DEF SessionOK, ItemCallOK
<1>8. session' = [session EXCEPT ![s] = k]
  BY <1>1, <1>2, <1>4
<1> QED
  BY <1>6, <1>7, <1>8, ItemCallFacts, SessionStep, Unbooked, Unproposed DEF LoadItem

LEMMA CheckNoteInv ==
    ASSUME IInv, NEW v \in ItemCalls, CheckNote(v)
    PROVE  IInv'
<1>1. PICK due \in Wishes :
          IF Conflicts(due, {Of(v)}) = {}
          THEN session' = [session EXCEPT
                    ![v].pc = "free",
                    ![v].checks[1] = [at |-> due, words |-> due, tz |-> UTC, on |-> now,
                                      seen |-> Seen]]
          ELSE End(v)
  BY DEF CheckNote
<1>2. CASE End(v)
  BY <1>2, ItemCallFacts, FreshStep, Unbooked, Unproposed DEF CheckNote
<1>3. CASE /\ Conflicts(due, {Of(v)}) = {}
           /\ session' = [session EXCEPT
                    ![v].pc = "free",
                    ![v].checks[1] = [at |-> due, words |-> due, tz |-> UTC, on |-> now,
                                      seen |-> Seen]]
  <2>1. due \in Int
    BY TimeAssumption
  <2>2. PICK check : check = [at |-> due, words |-> due, tz |-> UTC, on |-> now, seen |-> Seen]
    OBVIOUS
  <2>3. /\ check \in Check /\ check.at = due /\ check.words = due /\ check.on = now
        /\ ClearOf(check, Of(v))
    <3>1. due \in Due /\ UTC \in Zones /\ due = When(due, UTC, now)
      BY <2>1, TimeAssumption DEF Due, When
    <3> QED
      BY <1>3, <2>1, <2>2, <3>1, CheckMade
  <2>4. PICK j \in SessionRecord : j = session[v] /\ SessionOK(v, j, now) /\ j.pc = "converting"
    BY ItemCallFacts DEF CheckNote, At
  <2>5. j.about \in DOMAIN Given /\ j.about = Of(v) /\ j.checks \in [1..MostOps -> Check]
    BY <2>4, ItemCallFacts DEF Of, SessionRecord
  <2>6. PICK k : k = [j EXCEPT !.pc = "free", !.checks[1] = check]
    OBVIOUS
  <2>7. /\ k.pc = "free" /\ k.about = j.about /\ k.clars = j.clars
        /\ k.rows = j.rows /\ k.books = j.books
        /\ k.checks = [j.checks EXCEPT ![1] = check]
    BY <2>6 DEF SessionRecord
  <2>8. k.checks \in [1..MostOps -> Check] /\ k.checks[1] = check
    BY <2>3, <2>5, <2>7, NilFacts
  <2>9. k \in SessionRecord
    <3> DEFINE l == [j EXCEPT !.pc = "free"]
    <3>1. l \in SessionRecord
      BY DEF SessionRecord, States
    <3>2. PICK checks \in [1..MostOps -> Check] : checks = [j.checks EXCEPT ![1] = check]
      BY <2>7, <2>8
    <3>3. k = [l EXCEPT !.checks = checks]
      BY <2>6, <3>2
    <3> HIDE DEF l
    <3> QED
      BY <3>1, <3>2, <3>3 DEF SessionRecord
  <2>10. SessionOK(v, k, now)
    BY NowType, <2>1, <2>3, <2>4, <2>5, <2>7, <2>8, ItemCallFacts DEF SessionOK, ItemCallOK
  <2>11. session' = [session EXCEPT ![v] = k]
    BY <1>3, <2>2, <2>4, <2>6
  <2> QED
    BY <2>9, <2>10, <2>11, ItemCallFacts, SessionStep, Unbooked, Unproposed DEF CheckNote
<1> QED
  BY <1>1, <1>2, <1>3

LEMMA ConvertNoteInv ==
    ASSUME IInv, NEW v \in ItemCalls, ConvertNote(v)
    PROVE  IInv'
<1>1. PICK x \in Items : x = Of(v)
  BY ItemCallFacts DEF ConvertNote, At
<1>2. PICK check \in Check : check = session[v].checks[1]
  BY ItemCallFacts, NilFacts DEF SessionRecord
<1>3. /\ check.at \in Int /\ check.words = check.at /\ check.on <= now /\ ClearOf(check, x)
  BY <1>1, <1>2, ItemCallFacts DEF ConvertNote, At, ItemCallOK, Of
<1>4. PICK row : row = [items[x] EXCEPT !.type = "TASK", !.due = check.at]
  OBVIOUS
<1>5. row \in Item /\ row.due = check.at
  BY <1>3, <1>4, RowFacts DEF Item
<1>6. PICK b : b = [check |-> check, tz |-> Nil, by |-> now]
  OBVIOUS
<1>7. b \in Booking /\ b.check = check /\ b.by = now
  BY <1>6, NowType DEF Booking
<1>8. items' = [items EXCEPT ![x] = row] /\ book' = [book EXCEPT ![x] = b]
  BY <1>1, <1>2, <1>4, <1>6 DEF ConvertNote
<1>9. \A tz, instant : When(check.words, tz, instant) = check.at
  BY <1>3, TimeAssumption DEF When
<1>10. BookOK(x, b, row.due)
  BY <1>3, <1>5, <1>7, <1>9 DEF BookOK, Read
<1>11. ItemsInv'
  BY <1>5, <1>7, <1>8, <1>10 DEF IInv, ItemsInv
<1> QED
  BY <1>11, ItemCallFacts, FreshStep, Unproposed, UnchangedClock DEF ConvertNote

LEMMA StatusInv ==
    ASSUME IInv, NEW s \in ItemCalls, DeleteNote(s) \/ Complete(s) \/ Toggle(s)
    PROVE  IInv'
<1>1. PICK x \in Items : x = Of(s)
  BY ItemCallFacts DEF DeleteNote, Complete, Toggle, At
<1>2. PICK old \in Item : old = items[x]
  BY RowFacts
<1>3. PICK row \in Item : items' = [items EXCEPT ![x] = row] /\ row.due = old.due
  <2>1. CASE DeleteNote(s)
    <3>1. PICK st \in ItemStatus :
             st = IF session[s].status = "CANCELED" THEN old.status ELSE "CANCELED"
      BY StatusFacts DEF Item
    <3>2. PICK row : row = [old EXCEPT !.deleted = TRUE, !.status = st]
      OBVIOUS
    <3>3. row \in Item /\ row.due = old.due
      BY <3>2 DEF Item
    <3>4. items' = [items EXCEPT ![x] = row]
      BY <1>1, <1>2, <2>1, <3>1, <3>2 DEF DeleteNote
    <3> QED
      BY <3>3, <3>4
  <2>2. CASE Complete(s) \/ Toggle(s)
    <3>1. PICK st \in ItemStatus : items' = [items EXCEPT ![x].status = st]
      BY <1>1, <1>2, <2>2, StatusFacts DEF Complete, Toggle, Item
    <3>2. PICK row : row = [old EXCEPT !.status = st]
      OBVIOUS
    <3>3. row \in Item /\ row.due = old.due
      BY <3>2 DEF Item
    <3>4. items' = [items EXCEPT ![x] = row]
      BY <1>2, <3>1, <3>2
    <3> QED
      BY <3>3, <3>4
  <2> QED
    BY <2>1, <2>2
<1>4. ItemsInv'
  BY <1>2, <1>3, RowStep DEF DeleteNote, Complete, Toggle
<1> QED
  BY <1>4, ItemCallFacts, FreshStep, Unproposed, UnchangedClock
     DEF DeleteNote, Complete, Toggle

-----------------------------------------------------------------------------
LEMMA InitInv == Init => IInv
<1> SUFFICES ASSUME Init
             PROVE  IInv
  OBVIOUS
<1>2. ItemsInv
  <2>1. NoItem \in Item
    BY StatusFacts
  <2>2. items \in [Items -> Item]
    BY <2>1, GivenAssumption DEF Init
  <2> HIDE DEF NotBooked
  <2>3. book \in [Items -> Booking] /\ \A x \in Items : book[x].check.at = Nil
    BY NotCheckedFacts DEF Init
  <2> QED
    BY <2>2, <2>3 DEF ItemsInv, BookOK, ClearOf
<1>3. ProposalsInv
  <2> SUFFICES ASSUME NEW p \in Proposals
               PROVE  proposal[p] \in ProposalRecord /\ ProposalOK(p, proposal[p])
    BY DEF ProposalsInv, Init
  <2>1. PICK row : row = [status |-> "running", ops |-> Asked[p], clars |-> {}, renewed |-> FALSE]
    OBVIOUS
  <2>2. row \in ProposalRecord
    BY <2>1, AskedAssumption DEF ProposalRecord, Status
  <2>3. ProposalOK(p, row)
    BY <2>1 DEF ProposalOK
  <2>4. proposal[p] = row
    BY <2>1 DEF Init
  <2> QED
    BY <2>2, <2>3, <2>4
<1>4. SessionsInv
  <2>1. \A s \in Sessions : Fresh \in SessionRecord /\ SessionOK(s, Fresh, now)
    BY FreshOK
  <2> HIDE DEF Fresh
  <2> QED
    BY <2>1 DEF SessionsInv, Init
<1>5. ClockInv
  BY TimeAssumption DEF ClockInv, Init
<1> QED
  BY <1>2, <1>3, <1>4, <1>5 DEF IInv

LEMMA NextInv == IInv /\ [Next]_vars => IInv'
<1> SUFFICES ASSUME IInv, [Next]_vars
             PROVE  IInv'
  OBVIOUS
<1>1. ASSUME NEW p \in Proposals, StartWorker(p)
      PROVE  IInv'
  BY <1>1, StartWorkerInv
<1>2. ASSUME NEW s \in Bookers, CheckOp(s) \/ Ask(s) \/ Ready(s)
      PROVE  IInv'
  BY <1>2, CheckOpInv, AskInv, ReadyInv
<1>11. ASSUME NEW s \in Bookers, Create(s) \/ Update(s) \/ Skip(s) \/ Applied(s)
       PROVE  IInv'
  BY <1>11, CreateInv, UpdateInv, SkipInv, AppliedInv
<1>3. ASSUME NEW c \in Confirms, NEW p \in Proposals,
             LoadToCancel(c, p) \/ LoadToCheck(c, p) \/ LoadToReplace(c, p) \/ LoadToApply(c, p)
      PROVE  IInv'
  BY <1>3, LoadsInv
<1>4. ASSUME NEW c \in Confirms, Refused(c)
      PROVE  IInv'
  BY <1>4, CallFacts, FreshStep, Unbooked, Unproposed DEF Refused
<1>5. ASSUME NEW c \in Confirms, CancelNew(c) \/ CancelExisting(c) \/ Replaced(c)
      PROVE  IInv'
  BY <1>5, CallFacts, CancelNewInv, CancelExistingInv, ReadyInv
<1>6. ASSUME NEW s \in ItemCalls,
             \/ LoadItem(s, "NOTE", "converting") \/ CheckNote(s) \/ ConvertNote(s)
             \/ LoadItem(s, "NOTE", "deleting") \/ DeleteNote(s)
             \/ LoadItem(s, "TASK", "completing") \/ Complete(s) \/ Toggle(s)
      PROVE  IInv'
  BY <1>6, LoadItemInv, CheckNoteInv, ConvertNoteInv, StatusInv
<1>7. ASSUME UNCHANGED <<items, proposal, session, book>>, ClockInv', now <= now'
      PROVE  IInv'
  <2>1. \A s \in Sessions : SessionOK(s, session[s], now) => SessionOK(s, session[s], now')
    <3> SUFFICES ASSUME NEW s \in Sessions, SessionOK(s, session[s], now)
                 PROVE  SessionOK(s, session[s], now')
      OBVIOUS
    <3>1. PICK j \in SessionRecord : j = session[s]
      BY SessionFacts
    <3>2. now \in Int /\ now' \in Int
      BY <1>7, NowType, TimeAssumption DEF ClockInv
    <3>3. \A i \in 1..MostOps : j.checks[i].on \in Int
      BY DEF SessionRecord, Check
    <3>4. \A i \in 1..MostOps : CheckOK(j, j.checks[i], i, now) => CheckOK(j, j.checks[i], i, now')
      BY <1>7, <3>2, <3>3 DEF CheckOK
    <3>5. BookerOK(j, now) => BookerOK(j, now')
      BY <3>4 DEF BookerOK
    <3>6. ItemCallOK(j, now) => ItemCallOK(j, now')
      BY <1>7, <3>2, <3>3, NilFacts DEF ItemCallOK
    <3> QED
      BY <3>1, <3>5, <3>6 DEF SessionOK
  <2>2. SessionsInv'
    BY <1>7, <2>1 DEF IInv, SessionsInv
  <2> QED
    BY <1>7, <2>2 DEF IInv, ItemsInv, ProposalsInv
<1>8. ASSUME NEW z \in NextZones, SetZone(z)
      PROVE  IInv'
  BY <1>7, <1>8, TimeAssumption, NowType DEF SetZone, IInv, ClockInv
<1>9. ASSUME NEW t \in Moments, Tick(t)
      PROVE  IInv'
  BY <1>7, <1>9, TimeAssumption, NowType DEF Tick, IInv, ClockInv
<1>10. CASE UNCHANGED vars
  BY <1>7, <1>10, NowType DEF vars, IInv, ClockInv
<1> QED
  BY <1>1, <1>2, <1>3, <1>4, <1>5, <1>6, <1>8, <1>9, <1>10, <1>11 DEF Next

LEMMA Invariance == Spec => []IInv
BY InitInv, NextInv, PTL DEF Spec

\* Items, proposals and the sessions of the calls stay well-formed.
THEOREM TypeCorrect == Spec => []TypeOK
<1>1. IInv => TypeOK
  BY DEF IInv, ItemsInv, ClockInv, ProposalsInv, ProposalRecord, ProposalOK, SessionsInv,
     SessionRecord, States, TypeOK
<1> QED
  BY <1>1, Invariance, PTL

\* The time that a call has checked is the time it books, for any words, zones and
\* instants that leave the words their meaning: a time of day that has not come yet, on
\* the next day too, or tomorrow said on the same day.
THEOREM BooksWhatItChecked == Spec => []BookedAsChecked
<1>1. IInv => BookedAsChecked
  <2> SUFFICES ASSUME IInv, NEW x \in Items, book[x].check.at # Nil, Repeats(book[x])
               PROVE  items[x].due = book[x].check.at
    BY DEF BookedAsChecked
  <2>1. PICK b \in Booking : b = book[x] /\ BookOK(x, b, items[x].due)
    BY DEF IInv, ItemsInv
  <2>2. PICK check \in Check : check = b.check
    BY DEF Booking
  <2>3. /\ check.words \in Due /\ check.tz \in Zones /\ check.on \in Int /\ b.by \in Int
    BY DEF Check, Booking
  <2>4. /\ items[x].due = When(check.words, Preferred(b.tz), b.by)
        /\ check.at = When(check.words, check.tz, check.on) /\ check.on <= b.by
    BY <2>1, <2>2 DEF BookOK, Read
  <2>5. CASE check.words \notin Texts
    BY <2>1, <2>2, <2>4, <2>5 DEF When
  <2>6. CASE check.tz = Preferred(b.tz) /\ Stays(check.words, check.tz, check.on, b.by)
    BY <2>1, <2>2, <2>3, <2>4, <2>6, SameMeaning
  <2> QED
    BY <2>1, <2>2, <2>5, <2>6 DEF Repeats
<1> QED
  BY <1>1, Invariance, PTL

\* However many calls overlap, a task that stands where its check found room is not
\* within half an hour of another that the check could see.
THEOREM SeenIsAvoided == Spec => []NoSeenOverlap
<1>1. IInv => NoSeenOverlap
  <2> SUFFICES ASSUME IInv, NEW x \in Tasks, NEW y \in Tasks \ {x},
                      items[x].due = book[x].check.at,
                      <<y, items[y].due>> \in book[x].check.seen
               PROVE  ~Overlap(items[x].due, items[y].due)
    BY DEF NoSeenOverlap
  <2>1. /\ x \in Items /\ y \in Items /\ items[y].due \in Int /\ items[x].due \in Int
        /\ BookOK(x, book[x], items[x].due)
    BY SeenType DEF IInv, ItemsInv
  <2> QED
    BY <2>1, NilFacts DEF BookOK, ClearOf
<1> QED
  BY <1>1, Invariance, PTL

\* What a question suggests was free when it was asked.
THEOREM SuggestsFreeSlots == Spec => []SuggestionsWereFree
<1>1. IInv => SuggestionsWereFree
  <2> SUFFICES ASSUME IInv, NEW p \in Proposals, NEW q \in proposal[p].clars,
                      NEW slot \in q.suggestions, NEW x \in Tasks,
                      Overlap(slot, items[x].due), <<x, items[x].due>> \in q.seen
               PROVE  FALSE
    BY DEF SuggestionsWereFree
  <2>1. x \in Items /\ items[x].due \in Int /\ FreeThen(q)
    BY SeenType, ProposalFacts
  <2> QED
    BY <2>1 DEF FreeThen
<1> QED
  BY <1>1, Invariance, PTL
=============================================================================
