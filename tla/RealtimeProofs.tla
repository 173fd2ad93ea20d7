--------------------------- MODULE RealtimeProofs ---------------------------
(***************************************************************************)
(* Who speaks for a conversation, what every websocket and stream gets of  *)
(* its events, and what it misses, for any clients, tasks, events and      *)
(* failures.                                                               *)
(*                                                                         *)
(* A broadcast goes by the index of a list that others change meanwhile.   *)
(* What saves it from sending an event twice is that the list is in the    *)
(* order of connecting: those up to the one being served are never more    *)
(* than the index says, so the next index finds somebody that came later.  *)
(* They are exactly as many while nobody before has left, and then nobody  *)
(* is skipped either.  The events of a change of task stay apart because a *)
(* new task has an empty inbox, and a canceled one never sends again.      *)
(***************************************************************************)
EXTENDS Realtime, TLAPS, FiniteSetTheorems

\* sequences of positions
Below(q, n) == \A k \in 1..Len(q) : q[k] < n
Above(n, q) == \A k \in 1..Len(q) : n < q[k]
After(q, r) == \A k \in 1..Len(q) : \A l \in 1..Len(r) : q[k] < r[l]
Increasing(q) == \A k, l \in 1..Len(q) : k < l => q[k] < q[l]
Within(q) == \A k \in 1..Len(q) : q[k] \in 1..Len(channel)

LEMMA TailFacts ==
    ASSUME NEW q \in Seq(Nat), q # <<>>
    PROVE  /\ Tail(q) \in Seq(Nat)
           /\ Len(Tail(q)) = Len(q) - 1
           /\ \A k \in 1..Len(Tail(q)) : k + 1 \in 1..Len(q) /\ Tail(q)[k] = q[k + 1]
           /\ 1 \in 1..Len(q)
           /\ Head(q) = q[1]
           /\ Head(q) \in Nat
OBVIOUS

LEMMA AppendFacts ==
    ASSUME NEW q \in Seq(Nat), NEW n \in Nat
    PROVE  /\ Append(q, n) \in Seq(Nat)
           /\ Len(Append(q, n)) = Len(q) + 1
           /\ \A k \in 1..Len(q) : Append(q, n)[k] = q[k]
           /\ Append(q, n)[Len(q) + 1] = n
           /\ \A k \in 1..Len(Append(q, n)) :
                 \/ k \in 1..Len(q) /\ Append(q, n)[k] = q[k]
                 \/ Append(q, n)[k] = n
OBVIOUS

-----------------------------------------------------------------------------
TaskRecord == [pc : Alive \union {"unborn", "dead", "stopped"},
               cancelled : BOOLEAN, event : Nat, at : Nat,
               to : WebSockets \union {None}, failed : SUBSET WebSockets]

\* The types of what matters to order, without the bound on positions.
Types ==
    /\ channel \in Seq(Events)
    /\ peer \in [Clients -> {"away", "in", "gone", "left"}]
    /\ keyed \in BOOLEAN
    /\ active \subseteq WebSockets
    /\ entry \in Tasks \union {None}
    /\ task \in [Tasks -> TaskRecord]
    /\ inbox \in [Subscribers -> Seq(Nat)]
    /\ got \in [Clients -> Seq(Nat)]

\* websockets connect in their order, and those in the list are connected
ConnectedInv ==
    /\ IsFiniteSet(active)
    /\ (entry # None) <=> keyed
    /\ \A w \in active : peer[w] \in {"in", "gone"}
    /\ \A v, w \in WebSockets : (v < w /\ peer[w] # "away") => peer[v] # "away"

\* an inbox holds published events in order, and a stream has got earlier ones
QueuesInv ==
    /\ \A s \in Subscribers : Increasing(inbox[s]) /\ Within(inbox[s])
    /\ \A c \in Clients : Within(got[c])
    /\ \A s \in Streams : After(got[s], inbox[s])

Speaking(j) == j.pc \in Alive /\ ~j.cancelled

UpTo(w) == {v \in active : v <= w}

\* a broadcast of j.event that has come to j.to, with more events in the box
Broadcasting(j, box) ==
    /\ j.to \in WebSockets
    /\ peer[j.to] # "away"
    /\ j.event \in 1..Len(channel)
    /\ Above(j.event, box)
    /\ \A w \in WebSockets : Below(got[w], j.event + 1)
    /\ \A w \in WebSockets : j.to <= w => Below(got[w], j.event)
    /\ Cardinality(UpTo(j.to)) <= j.at

TaskOK(t, j, box) ==
    /\ j.pc \in {"unborn", "subscribing"} => box = <<>>
    /\ Speaking(j) => entry = t /\ \A w \in WebSockets : After(got[w], box)
    /\ Speaking(j) /\ j.pc = "broadcasting" => Broadcasting(j, box)

TasksInv == \A t \in Tasks : TaskOK(t, task[t], inbox[t])

IInv == Types /\ ConnectedInv /\ QueuesInv /\ TasksInv

-----------------------------------------------------------------------------
LEMMA Kinds ==
    /\ WebSockets \subseteq Clients /\ Streams \subseteq Clients
    /\ Tasks \subseteq Subscribers /\ Streams \subseteq Subscribers
    /\ WebSockets \subseteq Nat
    /\ None \notin Tasks /\ None \notin WebSockets
    /\ \A s \in Streams : s \notin WebSockets /\ s \notin Tasks
BY KindsAssumption, WebSocketsAssumption, NoneAssumption DEF Clients, Subscribers

LEMMA IdleFacts ==
    ASSUME NEW pc \in Alive \union {"unborn", "dead", "stopped"}
    PROVE  /\ [Idle EXCEPT !.pc = pc] \in TaskRecord
           /\ [Idle EXCEPT !.pc = pc].pc = pc
           /\ ~[Idle EXCEPT !.pc = pc].cancelled
BY DEF Idle, TaskRecord

LEMMA InitInv == Init => IInv
<1> SUFFICES ASSUME Init PROVE IInv
  OBVIOUS
<1> USE DEF Init
<1>1. Types
  <2>1. Idle \in TaskRecord
    BY DEF Idle, TaskRecord, Alive
  <2>2. task \in [Tasks -> TaskRecord]
    BY <2>1
  <2>3. inbox \in [Subscribers -> Seq(Nat)] /\ got \in [Clients -> Seq(Nat)]
    OBVIOUS
  <2>4. channel \in Seq(Events) /\ peer \in [Clients -> {"away", "in", "gone", "left"}]
    OBVIOUS
  <2> QED
    BY <2>2, <2>3, <2>4 DEF Types
<1>2. ConnectedInv
  BY Kinds, FS_EmptySet DEF ConnectedInv
<1>3. QueuesInv
  BY Kinds DEF QueuesInv, Increasing, Within, After
<1>4. TasksInv
  BY Kinds DEF TasksInv, TaskOK, Speaking, Idle, Alive
<1> QED
  BY <1>1, <1>2, <1>3, <1>4 DEF IInv

LEMMA TaskFacts ==
    ASSUME IInv, NEW t \in Tasks
    PROVE  /\ task[t] \in TaskRecord
           /\ inbox[t] \in Seq(Nat)
           /\ TaskOK(t, task[t], inbox[t])
           /\ Increasing(inbox[t]) /\ Within(inbox[t])
BY Kinds DEF IInv, Types, TasksInv, QueuesInv

\* those up to a websocket get fewer when the list gets shorter
LEMMA UpToShrinks ==
    ASSUME IInv, active' \subseteq active, NEW w \in WebSockets
    PROVE  /\ Cardinality(UpTo(w)) \in Nat
           /\ Cardinality({v \in active' : v <= w}) \in Nat
           /\ Cardinality({v \in active' : v <= w}) <= Cardinality(UpTo(w))
<1> DEFINE fewer == {v \in active' : v <= w}
<1>1. IsFiniteSet(UpTo(w))
  BY FS_Subset DEF UpTo, IInv, ConnectedInv
<1>2. fewer \subseteq UpTo(w)
  BY DEF UpTo
<1>3. IsFiniteSet(fewer)
  BY <1>1, <1>2, FS_Subset
<1> QED
  BY <1>1, <1>2, <1>3, FS_Subset, FS_CardinalityType

-----------------------------------------------------------------------------
(* Steps of a task *)

\* A task may change its record and its inbox, shorten the list and, if it is
\* the one that speaks, send to a websocket.
LEMMA TaskStep ==
    ASSUME IInv, NEW t \in Tasks, NEW new \in TaskRecord, NEW box \in Seq(Nat),
           task' = [task EXCEPT ![t] = new],
           inbox' = [inbox EXCEPT ![t] = box],
           UNCHANGED <<channel, peer, keyed, entry>>,
           active' \subseteq active,
           got' \in [Clients -> Seq(Nat)],
           \A c \in Clients : Within(got'[c]),
           \A s \in Streams : got'[s] = got[s],
           got' = got \/ entry = t,
           Increasing(box), Within(box),
           TaskOK(t, new, box)'
    PROVE  IInv'
<1>1. /\ task' \in [Tasks -> TaskRecord] /\ task'[t] = new
      /\ \A u \in Tasks \ {t} : task'[u] = task[u]
  BY DEF IInv, Types
<1>2. /\ inbox' \in [Subscribers -> Seq(Nat)] /\ inbox'[t] = box
      /\ \A s \in Subscribers \ {t} : inbox'[s] = inbox[s]
  BY Kinds DEF IInv, Types
<1>3. Types'
  BY <1>1, <1>2 DEF IInv, Types
<1>4. ConnectedInv'
  BY FS_Subset DEF IInv, ConnectedInv
<1>5. QueuesInv'
  <2>1. \A s \in Subscribers : Increasing(inbox'[s]) /\ Within(inbox[s])'
    BY <1>2 DEF IInv, QueuesInv, Within
  <2>2. \A s \in Streams : After(got'[s], inbox'[s])
    BY <1>2, Kinds DEF IInv, QueuesInv
  <2> QED
    BY <2>1, <2>2 DEF QueuesInv, Within
<1>6. TasksInv'
  <2> SUFFICES ASSUME NEW u \in Tasks
               PROVE  TaskOK(u, task[u], inbox[u])'
    BY DEF TasksInv
  <2>1. CASE u = t
    BY <1>1, <1>2, <2>1
  <2>2. CASE u # t
    <3>1. task'[u] = task[u] /\ inbox'[u] = inbox[u]
      BY <1>1, <1>2, <2>2, Kinds
    <3>2. TaskOK(u, task[u], inbox[u])
      BY TaskFacts
    <3>3. CASE ~Speaking(task[u])
      BY <3>1, <3>2, <3>3 DEF TaskOK
    <3>4. CASE Speaking(task[u])
      <4>1. got' = got
        BY <2>2, <3>2, <3>4 DEF TaskOK
      <4>2. task[u].pc = "broadcasting" => Broadcasting(task[u], inbox[u])'
        <5> SUFFICES ASSUME Broadcasting(task[u], inbox[u])
                     PROVE  Broadcasting(task[u], inbox[u])'
          BY <3>2, <3>4 DEF TaskOK
        <5>1. Cardinality({v \in active' : v <= task[u].to}) <= task[u].at
          <6>1. task[u].to \in WebSockets /\ Cardinality(UpTo(task[u].to)) <= task[u].at
            BY DEF Broadcasting
          <6>2. task[u].at \in Nat
            BY TaskFacts DEF TaskRecord
          <6> DEFINE w == task[u].to
          <6>3. /\ Cardinality(UpTo(w)) \in Nat
                /\ Cardinality({v \in active' : v <= w}) \in Nat
                /\ Cardinality({v \in active' : v <= w}) <= Cardinality(UpTo(w))
            BY <6>1, UpToShrinks
          <6> QED
            BY <6>1, <6>2, <6>3, <3>1 DEF UpTo
        <5>2. (Cardinality(UpTo(task[u].to)) <= task[u].at)'
          BY <3>1, <5>1 DEF UpTo
        <5> QED
          BY <3>1, <4>1, <5>2 DEF Broadcasting
      <4> QED
        BY <3>1, <3>2, <4>1, <4>2 DEF TaskOK
    <3> QED
      BY <3>3, <3>4
  <2> QED
    BY <2>1, <2>2
<1> QED
  BY <1>3, <1>4, <1>5, <1>6 DEF IInv

LEMMA BelowAppend ==
    ASSUME NEW n \in Nat, NEW q, NEW r, Below(q, n + 1),
           \A k \in 1..Len(r) : (k \in 1..Len(q) /\ r[k] = q[k]) \/ r[k] = n
    PROVE  Below(r, n + 1)
<1> SUFFICES ASSUME NEW k \in 1..Len(r)
             PROVE  r[k] < n + 1
  BY DEF Below
<1>1. CASE k \in 1..Len(q) /\ r[k] = q[k]
  BY <1>1 DEF Below
<1>2. CASE r[k] = n
  BY <1>2
<1> QED
  BY <1>1, <1>2

LEMMA LeqTransitive ==
    ASSUME NEW a \in Nat, NEW b \in Nat, NEW c \in Nat, a <= b, b <= c
    PROVE  a <= c
OBVIOUS

\* The list iterator goes on to a websocket that connected later.
LEMMA NextIsLater ==
    ASSUME IInv, NEW t \in Tasks, Runs(t, "broadcasting"),
           NEW w \in active, Rank(w) = task[t].at + 1
    PROVE  task[t].to < w
<1>1. Broadcasting(task[t], inbox[t]) /\ task[t].at \in Nat
  BY TaskFacts DEF TaskOK, Speaking, Runs, Alive, TaskRecord
<1>2. task[t].to \in WebSockets /\ task[t].to \in Nat /\ w \in Nat
  BY <1>1, Kinds DEF Broadcasting, IInv, Types
<1> SUFFICES ASSUME w <= task[t].to
             PROVE  FALSE
  BY <1>2
<1> DEFINE mine == {v \in active : v <= w}
<1>3. IsFiniteSet(UpTo(task[t].to))
  BY FS_Subset DEF UpTo, IInv, ConnectedInv
<1>4. mine \subseteq UpTo(task[t].to)
  <2>1. \A v \in active : v \in Nat
    BY Kinds DEF IInv, Types
  <2> SUFFICES ASSUME NEW v \in active, v <= w
               PROVE  v <= task[t].to
    BY DEF UpTo
  <2> HIDE DEF mine
  <2>2. v \in Nat
    BY <2>1
  <2> QED
    BY <1>2, <2>2, LeqTransitive
<1>5. /\ IsFiniteSet(mine)
      /\ Cardinality(mine) <= Cardinality(UpTo(task[t].to))
      /\ Cardinality(mine) \in Nat /\ Cardinality(UpTo(task[t].to)) \in Nat
  BY <1>3, <1>4, FS_Subset, FS_CardinalityType
<1> QED
  BY <1>1, <1>5 DEF Broadcasting, Rank

LEMMA AdvanceInv ==
    ASSUME IInv, NEW t \in Tasks, Runs(t, "broadcasting"),
           NEW failed \in SUBSET WebSockets, Advance(t, failed),
           UNCHANGED <<channel, peer, keyed, entry, inbox>>,
           got' = got \/ got' = [got EXCEPT ![task[t].to] = Append(@, task[t].event)]
    PROVE  IInv'
<1> DEFINE j == task[t]
           box == inbox[t]
<1>1. /\ j \in TaskRecord /\ box \in Seq(Nat) /\ Increasing(box) /\ Within(box)
      /\ TaskOK(t, j, box)
  BY TaskFacts
<1>2. /\ Speaking(j) /\ entry = t /\ Broadcasting(j, box)
      /\ \A w \in WebSockets : After(got[w], box)
  BY <1>1 DEF TaskOK, Speaking, Runs, Alive
<1>3. /\ j.to \in WebSockets /\ j.event \in 1..Len(channel) /\ j.event \in Nat /\ j.at \in Nat
  BY <1>1, <1>2 DEF Broadcasting, TaskRecord
<1>4. \A c \in Clients : got[c] \in Seq(Nat) /\ Within(got[c])
  BY DEF IInv, Types, QueuesInv
<1>5. ASSUME NEW c \in Clients
      PROVE  /\ got'[c] \in Seq(Nat)
             /\ Within(got'[c])
             /\ c # j.to => got'[c] = got[c]
             /\ c \in WebSockets => Below(got'[c], j.event + 1) /\ After(got'[c], box)
  <2>1. CASE got'[c] = got[c]
    BY <2>1, <1>2, <1>4 DEF Broadcasting
  <2>2. CASE got' = [got EXCEPT ![j.to] = Append(@, j.event)] /\ c = j.to
    <3>1. got'[c] = Append(got[c], j.event)
      BY <2>2 DEF IInv, Types
    <3>2. /\ got'[c] \in Seq(Nat)
          /\ \A k \in 1..Len(got'[c]) :
                \/ k \in 1..Len(got[c]) /\ got'[c][k] = got[c][k]
                \/ got'[c][k] = j.event
      BY <3>1, <1>3, <1>4, AppendFacts
    <3>3. \A k \in 1..Len(got[c]) : got[c][k] \in Nat
      BY <1>4
    <3>4. Within(got'[c])
      BY <3>2, <3>3, <1>3, <1>4 DEF Within
    <3>5. Below(got[c], j.event + 1) /\ After(got[c], box) /\ Above(j.event, box)
      BY <1>2, <1>3, <2>2 DEF Broadcasting
    <3>6. Below(got'[c], j.event + 1)
      <4> HIDE DEF j
      <4> QED
        BY <3>2, <3>5, <1>3, BelowAppend
    <3>7. After(got'[c], box)
      BY <3>2, <3>3, <3>5, <1>3 DEF After, Above
    <3> QED
      BY <3>2, <3>4, <3>6, <3>7, <2>2
  <2> QED
    BY <2>1, <2>2 DEF IInv, Types
<1>6. got' \in [Clients -> Seq(Nat)]
  BY <1>5 DEF IInv, Types
<1>7. \A s \in Streams : got'[s] = got[s]
  BY <1>3, <1>5, Kinds
<1>8. inbox' = [inbox EXCEPT ![t] = box]
  BY DEF IInv, Types
<1>9. \A c \in Clients : Within(got'[c])
  BY <1>5
<1>10. \A w \in WebSockets : Below(got'[w], j.event + 1) /\ After(got'[w], box)
  BY <1>5, Kinds
<1>11. CASE Finish(t, failed)
  <2>1. PICK new \in TaskRecord : new = [Idle EXCEPT !.pc = "polling"]
    BY DEF Idle, TaskRecord, Alive
  <2>2. new.pc = "polling"
    BY <2>1 DEF Idle
  <2>3. TaskOK(t, new, box)'
    BY <2>2, <1>2, <1>8, <1>10, <1>1 DEF TaskOK
  <2>4. task' = [task EXCEPT ![t] = new] /\ active' \subseteq active
    BY <1>11, <2>1 DEF Finish
  <2> QED
    BY <1>1, <1>2, <1>6, <1>7, <1>8, <1>9, <2>3, <2>4, TaskStep
<1>12. CASE /\ SendTo(t, j.at + 1, [j EXCEPT !.failed = failed])
            /\ UNCHANGED active
  <2>1. PICK w \in active :
           /\ Rank(w) = j.at + 1
           /\ task' = [task EXCEPT ![t] = [[j EXCEPT !.failed = failed]
                          EXCEPT !.pc = "broadcasting", !.at = j.at + 1, !.to = w]]
    BY <1>12 DEF SendTo
  <2>2. w \in WebSockets /\ w \in Nat /\ peer[w] # "away" /\ j.to < w /\ j.to \in Nat
    BY <1>3, <2>1, NextIsLater, Kinds DEF IInv, Types, ConnectedInv
  <2>3. PICK n \in Nat : n = j.at + 1
    BY <1>3
  <2> DEFINE k == [j EXCEPT !.failed = failed]
             new == [k EXCEPT !.pc = "broadcasting", !.at = n, !.to = w]
  <2>4. /\ new \in TaskRecord
        /\ new.pc = "broadcasting" /\ new.event = j.event /\ new.at = n /\ new.to = w
    <3>1. k \in TaskRecord /\ k.event = j.event
      BY <1>1 DEF TaskRecord
    <3> HIDE DEF k
    <3>2. [k EXCEPT !.pc = "broadcasting"] \in TaskRecord
      BY <3>1 DEF TaskRecord, Alive
    <3> QED
      BY <2>2, <3>1, <3>2 DEF TaskRecord
  <2>9. task' = [task EXCEPT ![t] = new]
    BY <2>1, <2>3
  <2> HIDE DEF k, new
  <2>10. PICK x \in TaskRecord : x = new
    BY <2>4
  <2>5. \A v \in WebSockets : w <= v => Below(got'[v], j.event)
    <3> SUFFICES ASSUME NEW v \in WebSockets, w <= v
                 PROVE  Below(got'[v], j.event)
      OBVIOUS
    <3>1. v \in Nat /\ j.to <= v /\ v # j.to
      BY <2>2, Kinds
    <3>2. Below(got[v], j.event)
      BY <1>2, <3>1 DEF Broadcasting
    <3> QED
      BY <1>5, <3>1, <3>2, Kinds
  <2>6. (Cardinality(UpTo(x.to)) <= x.at)'
    <3>1. active' = active /\ x.to = w /\ x.at = n
      BY <1>12, <2>4, <2>10
    <3>2. {v \in active' : v <= x.to} = {v \in active : v <= w}
      BY <3>1
    <3>3. Cardinality({v \in active : v <= w}) = n
      BY <2>1, <2>3 DEF Rank
    <3>4. Cardinality({v \in active' : v <= x.to}) <= x.at
      BY <3>1, <3>2, <3>3
    <3> QED
      BY <3>4 DEF UpTo
  <2>7. Broadcasting(x, box)'
    BY <1>2, <1>3, <1>8, <1>10, <2>2, <2>4, <2>5, <2>6, <2>10 DEF Broadcasting
  <2>8. TaskOK(t, x, box)'
    BY <1>1, <1>2, <1>8, <1>10, <2>4, <2>7, <2>10 DEF TaskOK
  <2> QED
    BY <1>1, <1>2, <1>6, <1>7, <1>8, <1>9, <1>12, <2>8, <2>9, <2>10, TaskStep
<1> QED
  BY <1>11, <1>12 DEF Advance

LEMMA SentInv ==
    ASSUME IInv, NEW t \in Tasks, Sent(t)
    PROVE  IInv'
<1>1. task[t].failed \in SUBSET WebSockets
  BY TaskFacts DEF TaskRecord
<1> QED
  BY <1>1, AdvanceInv DEF Sent, busVars

LEMMA NotSentInv ==
    ASSUME IInv, NEW t \in Tasks, NotSent(t)
    PROVE  IInv'
<1>1. /\ task[t].failed \in SUBSET WebSockets
      /\ task[t].to \in WebSockets
  BY TaskFacts DEF TaskRecord, NotSent, Runs, TaskOK, Speaking, Alive, Broadcasting
<1>2. PICK failed \in {task[t].failed, task[t].failed \union {task[t].to}} :
         Advance(t, failed)
  BY DEF NotSent
<1>3. failed \in SUBSET WebSockets
  BY <1>1, <1>2
<1> QED
  BY <1>2, <1>3, AdvanceInv DEF NotSent, busVars

\* A task that is not at a broadcast changes no more than its state and its inbox.
LEMMA QuietStep ==
    ASSUME IInv, NEW t \in Tasks, NEW new \in TaskRecord, NEW box \in Seq(Nat),
           task' = [task EXCEPT ![t] = new],
           inbox' = [inbox EXCEPT ![t] = box],
           UNCHANGED <<channel, peer, keyed, active, entry, got>>,
           box \in {inbox[t], <<>>},
           new.pc \notin {"unborn", "subscribing", "broadcasting"},
           Speaking(new) => Speaking(task[t])
    PROVE  IInv'
<1>1. TaskOK(t, task[t], inbox[t]) /\ Increasing(inbox[t]) /\ Within(inbox[t])
  BY TaskFacts
<1>2. Increasing(box) /\ Within(box)
  BY <1>1 DEF Increasing, Within
<1>3. \A w \in WebSockets : After(got[w], inbox[t]) => After(got[w], box)
  BY DEF After
<1>4. TaskOK(t, new, box)'
  BY <1>1, <1>3 DEF TaskOK
<1>5. got' \in [Clients -> Seq(Nat)] /\ \A c \in Clients : Within(got'[c])
  BY DEF IInv, Types, QueuesInv
<1> QED
  BY <1>2, <1>4, <1>5, TaskStep

LEMMA StateFacts ==
    ASSUME NEW j \in TaskRecord,
           NEW pc \in Alive \union {"unborn", "dead", "stopped"}
    PROVE  /\ [j EXCEPT !.pc = pc] \in TaskRecord
           /\ [j EXCEPT !.pc = pc].pc = pc
           /\ [j EXCEPT !.pc = pc].cancelled = j.cancelled
BY DEF TaskRecord

LEMMA QuietInv ==
    ASSUME IInv, NEW t \in Tasks,
           \/ Subscribe(t) \/ SubscribeFails(t) \/ PollFails(t) \/ Retry(t)
    PROVE  IInv'
<1>1. task[t] \in TaskRecord /\ inbox[t] \in Seq(Nat) /\ <<>> \in Seq(Nat)
  BY TaskFacts
<1>2. inbox = [inbox EXCEPT ![t] = inbox[t]]
  BY DEF IInv, Types
<1>3. task[t].pc \in Alive /\ Speaking(task[t])
  BY DEF Speaking, Alive, Runs, Subscribe, SubscribeFails, PollFails, Retry
<1>4. PICK pc \in {"polling", "dead", "backoff"} :
         task' = [task EXCEPT ![t] = [task[t] EXCEPT !.pc = pc]]
  BY DEF Subscribe, SubscribeFails, PollFails, Retry
<1>5. PICK new \in TaskRecord : new = [task[t] EXCEPT !.pc = pc]
  BY <1>1, StateFacts DEF Alive
<1>6. new.pc = pc
  BY <1>1, <1>5 DEF TaskRecord
<1>7. UNCHANGED <<channel, peer, keyed, active, entry, got>>
  BY DEF Subscribe, SubscribeFails, PollFails, Retry, busVars, managerVars
<1>8. CASE inbox' = [inbox EXCEPT ![t] = <<>>]
  BY <1>1, <1>3, <1>4, <1>5, <1>6, <1>7, <1>8, QuietStep
<1>9. CASE UNCHANGED inbox
  BY <1>1, <1>2, <1>3, <1>4, <1>5, <1>6, <1>7, <1>9, QuietStep
<1> QED
  BY <1>8, <1>9 DEF Subscribe, SubscribeFails, PollFails, Retry

LEMMA StopInv ==
    ASSUME IInv, NEW t \in Tasks, Stop(t)
    PROVE  IInv'
<1>1. PICK new \in TaskRecord : new = [Idle EXCEPT !.pc = "stopped"]
  BY DEF Idle, TaskRecord
<1>2. new.pc = "stopped"
  BY <1>1 DEF Idle
<1>3. <<>> \in Seq(Nat) /\ ~Speaking(new)
  BY <1>2 DEF Speaking, Alive
<1> QED
  BY <1>1, <1>2, <1>3, QuietStep DEF Stop, busVars, managerVars

LEMMA ReceiveInv ==
    ASSUME IInv, NEW t \in Tasks, Receive(t)
    PROVE  IInv'
<1> DEFINE j == task[t]
<1>1. /\ j \in TaskRecord /\ inbox[t] \in Seq(Nat)
      /\ Increasing(inbox[t]) /\ Within(inbox[t]) /\ TaskOK(t, j, inbox[t])
  BY TaskFacts
<1>2. /\ Speaking(j) /\ entry = t /\ j.pc = "polling"
      /\ \A w \in WebSockets : After(got[w], inbox[t])
  BY <1>1 DEF TaskOK, Speaking, Receive, Runs, Alive
<1>3. inbox[t] # <<>>
  BY DEF Receive
<1>4. PICK box \in Seq(Nat) : box = Tail(inbox[t])
  BY <1>1, <1>3, TailFacts
<1>5. PICK event \in Nat : event = Head(inbox[t])
  BY <1>1, <1>3, TailFacts
<1>6. /\ \A k \in 1..Len(box) : k \in Nat /\ k + 1 \in 1..Len(inbox[t])
                                /\ box[k] = inbox[t][k + 1]
      /\ 1 \in 1..Len(inbox[t])
      /\ event = inbox[t][1]
  BY <1>1, <1>3, <1>4, <1>5, TailFacts
<1>7. /\ inbox' = [inbox EXCEPT ![t] = box]
      /\ UNCHANGED <<channel, peer, keyed, active, entry, got>>
  BY <1>4 DEF Receive, busVars, managerVars
<1>8. Increasing(box) /\ Within(box) /\ Above(event, box)
  <2>1. \A k \in 1..Len(box) : event < box[k]
    BY <1>1, <1>6 DEF Increasing
  <2>2. \A k, l \in 1..Len(box) : k < l => box[k] < box[l]
    <3> SUFFICES ASSUME NEW k \in 1..Len(box), NEW l \in 1..Len(box), k < l
                 PROVE  box[k] < box[l]
      OBVIOUS
    <3>1. k + 1 \in 1..Len(inbox[t]) /\ l + 1 \in 1..Len(inbox[t]) /\ k + 1 < l + 1
      BY <1>6
    <3>2. inbox[t][k + 1] < inbox[t][l + 1]
      BY <1>1, <3>1 DEF Increasing
    <3> QED
      BY <1>6, <3>2
  <2> QED
    BY <1>1, <1>6, <2>1, <2>2 DEF Increasing, Within, Above
<1>9. /\ event \in 1..Len(channel)
      /\ \A w \in WebSockets : After(got[w], box) /\ Below(got[w], event)
  BY <1>1, <1>2, <1>6 DEF After, Below, Within
<1>10. got' \in [Clients -> Seq(Nat)] /\ \A c \in Clients : Within(got'[c])
  BY <1>7 DEF IInv, Types, QueuesInv
<1>11. CASE UNCHANGED task
  <2>1. task' = [task EXCEPT ![t] = j]
    BY <1>11 DEF IInv, Types
  <2>2. PICK new \in TaskRecord : new = j
    BY <1>1
  <2>3. TaskOK(t, new, box)'
    BY <1>2, <1>7, <1>9, <2>2 DEF TaskOK
  <2> QED
    BY <1>2, <1>6, <1>7, <1>8, <1>10, <2>1, <2>2, <2>3, TaskStep
<1>12. CASE SendTo(t, 1, [j EXCEPT !.event = event])
  <2>1. PICK w \in active :
           /\ Rank(w) = 1
           /\ task' = [task EXCEPT ![t] = [[j EXCEPT !.event = event]
                          EXCEPT !.pc = "broadcasting", !.at = 1, !.to = w]]
    BY <1>12 DEF SendTo
  <2>2. w \in WebSockets /\ peer[w] # "away"
    BY DEF IInv, Types, ConnectedInv
  <2> DEFINE k == [j EXCEPT !.event = event]
             new == [k EXCEPT !.pc = "broadcasting", !.at = 1, !.to = w]
  <2>3. /\ new \in TaskRecord
        /\ new.pc = "broadcasting" /\ new.event = event /\ new.at = 1 /\ new.to = w
    <3>1. k \in TaskRecord /\ k.event = event
      BY <1>1, <1>6 DEF TaskRecord
    <3> HIDE DEF k
    <3>2. [k EXCEPT !.pc = "broadcasting"] \in TaskRecord
      BY <3>1 DEF TaskRecord, Alive
    <3> QED
      BY <2>2, <3>1, <3>2 DEF TaskRecord
  <2>4. task' = [task EXCEPT ![t] = new]
    BY <2>1
  <2> HIDE DEF k, new
  <2>5. PICK x \in TaskRecord : x = new
    BY <2>3
  <2>6. (Cardinality(UpTo(x.to)) <= x.at)'
    <3>1. {v \in active' : v <= x.to} = {v \in active : v <= w}
      BY <1>7, <2>3, <2>5
    <3>2. Cardinality({v \in active : v <= w}) = 1
      BY <2>1 DEF Rank
    <3>3. x.at = 1
      BY <2>3, <2>5
    <3>4. Cardinality({v \in active' : v <= x.to}) = 1
      BY <3>1, <3>2, Zenon
    <3>5. Cardinality({v \in active' : v <= x.to}) <= x.at
      BY <3>3, <3>4
    <3> QED
      BY <3>5 DEF UpTo
  <2>7. \A v \in WebSockets : Below(got[v], event + 1)
    <3>1. \A v \in WebSockets : got[v] \in Seq(Nat)
      BY Kinds DEF IInv, Types
    <3> QED
      BY <1>6, <1>9, <3>1, SMTT(30) DEF Below
  <2>8. Broadcasting(x, box)'
    BY <1>7, <1>8, <1>9, <2>2, <2>3, <2>5, <2>6, <2>7 DEF Broadcasting
  <2>9. TaskOK(t, x, box)'
    BY <1>2, <1>7, <1>9, <2>3, <2>5, <2>8 DEF TaskOK
  <2> QED
    BY <1>2, <1>6, <1>7, <1>8, <1>10, <2>4, <2>5, <2>9, TaskStep
<1> QED
  BY <1>11, <1>12, <1>5 DEF Receive

-----------------------------------------------------------------------------
(* Steps of the publisher, of the connections and of the streams *)

LEMMA PublishInv ==
    ASSUME IInv, NEW e \in Events, PublishToChannel(e)
    PROVE  IInv'
<1>1. UNCHANGED <<peer, keyed, active, entry, task, got>>
  BY DEF PublishToChannel, managerVars
<1>2. CASE UNCHANGED <<channel, inbox>>
  BY <1>1, <1>2 DEF IInv, Types, ConnectedInv, QueuesInv, TasksInv, TaskOK,
     Broadcasting, Within, UpTo
<1>3. CASE /\ channel' = Append(channel, e)
           /\ inbox' = [s \in Subscribers |->
                           IF Subscribed(s) THEN Append(inbox[s], Len(channel) + 1)
                                            ELSE inbox[s]]
  <2>1. /\ channel \in Seq(Events) /\ channel' \in Seq(Events)
        /\ Len(channel) \in Nat /\ Len(channel') = Len(channel) + 1
    BY <1>3 DEF IInv, Types
  <2>2. PICK n \in Nat : n = Len(channel) + 1
    BY <2>1
  <2>3. ASSUME NEW s \in Subscribers
        PROVE  /\ inbox[s] \in Seq(Nat) /\ inbox'[s] \in Seq(Nat)
               /\ \A k \in 1..Len(inbox'[s]) :
                     \/ k \in 1..Len(inbox[s]) /\ inbox'[s][k] = inbox[s][k]
                     \/ inbox'[s][k] = n
               /\ Increasing(inbox'[s])
               /\ Within(inbox[s])'
    <3>1. /\ inbox[s] \in Seq(Nat) /\ Increasing(inbox[s]) /\ Within(inbox[s])
      BY DEF IInv, Types, QueuesInv
    <3>2. CASE inbox'[s] = inbox[s]
      BY <2>1, <3>1, <3>2 DEF Within
    <3>3. CASE inbox'[s] = Append(inbox[s], n)
      <4>1. /\ inbox'[s] \in Seq(Nat) /\ Len(inbox'[s]) = Len(inbox[s]) + 1
            /\ \A k \in 1..Len(inbox'[s]) :
                  \/ k \in 1..Len(inbox[s]) /\ inbox'[s][k] = inbox[s][k]
                  \/ k = Len(inbox[s]) + 1 /\ inbox'[s][k] = n
        BY <3>1, <3>3
      <4>2. \A k \in 1..Len(inbox[s]) : inbox[s][k] \in Nat /\ inbox[s][k] < n
        BY <2>1, <2>2, <3>1 DEF Within
      <4>3. Increasing(inbox'[s])
        <5> SUFFICES ASSUME NEW k \in 1..Len(inbox'[s]), NEW l \in 1..Len(inbox'[s]), k < l
                     PROVE  inbox'[s][k] < inbox'[s][l]
          BY DEF Increasing
        <5>1. k \in 1..Len(inbox[s]) /\ inbox'[s][k] = inbox[s][k]
          <6>1. Len(inbox[s]) \in Nat /\ l \in 1..(Len(inbox[s]) + 1) /\ k \in Nat
            BY <3>1, <4>1
          <6>2. k # Len(inbox[s]) + 1
            BY <6>1
          <6> QED
            BY <4>1, <6>2
        <5>2. CASE l \in 1..Len(inbox[s]) /\ inbox'[s][l] = inbox[s][l]
          BY <3>1, <5>1, <5>2 DEF Increasing
        <5>3. CASE inbox'[s][l] = n
          BY <4>2, <5>1, <5>3
        <5> QED
          BY <4>1, <5>2, <5>3
      <4>4. \A k \in 1..Len(inbox'[s]) : inbox'[s][k] \in 1..Len(channel')
        <5>1. \A k \in 1..Len(inbox[s]) : inbox[s][k] \in 1..Len(channel')
          BY <2>1, <3>1 DEF Within
        <5>2. n \in 1..Len(channel')
          BY <2>1, <2>2
        <5> QED
          BY <4>1, <5>1, <5>2
      <4> QED
        BY <3>1, <4>1, <4>3, <4>4 DEF Within
    <3> QED
      BY <1>3, <2>2, <3>2, <3>3
  <2>4. \A c \in Clients : got[c] \in Seq(Nat) /\ Within(got[c]) /\ Within(got[c])'
                           /\ Below(got[c], n)
    BY <1>1, <2>1, <2>2 DEF IInv, Types, QueuesInv, Within, Below
  <2>5. ASSUME NEW c \in Clients, NEW s \in Subscribers, After(got[c], inbox[s])
        PROVE  After(got[c], inbox'[s])
    BY <2>3, <2>4, <2>5 DEF After, Below
  <2>6. Types'
    <3>1. inbox' \in [Subscribers -> Seq(Nat)]
      BY <1>3, <2>3
    <3> QED
      BY <1>1, <2>1, <3>1 DEF IInv, Types
  <2>7. ConnectedInv'
    BY <1>1 DEF IInv, ConnectedInv
  <2>8. QueuesInv'
    BY <1>1, <2>3, <2>4, <2>5, Kinds DEF IInv, QueuesInv
  <2>9. ASSUME NEW t \in Tasks
        PROVE  TaskOK(t, task[t], inbox[t])'
    <3>1. TaskOK(t, task[t], inbox[t]) /\ t \in Subscribers /\ task[t] \in TaskRecord
      BY TaskFacts, Kinds
    <3>2. task[t].pc \in {"unborn", "subscribing"} => inbox'[t] = inbox[t]
      BY <1>3, <3>1 DEF Subscribed
    <3>3. \A w \in WebSockets : After(got[w], inbox[t]) => After(got[w], inbox'[t])
      BY <2>5, <3>1, Kinds
    <3>4. ASSUME Broadcasting(task[t], inbox[t])
          PROVE  Broadcasting(task[t], inbox[t])'
      <4>1. Above(task[t].event, inbox'[t])
        <5>1. task[t].event \in Nat /\ task[t].event < n
          BY <2>1, <2>2, <3>4 DEF Broadcasting
        <5>2. \A k \in 1..Len(inbox[t]) : task[t].event < inbox[t][k]
          BY <3>4 DEF Broadcasting, Above
        <5> QED
          BY <2>3, <3>1, <5>1, <5>2 DEF Above
      <4>2. task[t].event \in 1..Len(channel')
        BY <2>1, <3>4 DEF Broadcasting
      <4> QED
        BY <1>1, <3>4, <4>1, <4>2 DEF Broadcasting, UpTo
    <3> QED
      BY <1>1, <3>1, <3>2, <3>3, <3>4 DEF TaskOK
  <2> QED
    BY <2>6, <2>7, <2>8, <2>9 DEF IInv, TasksInv
<1> QED
  BY <1>2, <1>3 DEF PublishToChannel

LEMMA ConnectInv ==
    ASSUME IInv, NEW w \in WebSockets, Connect(w)
    PROVE  IInv'
<1>1. UNCHANGED <<channel, inbox, got>>
  BY DEF Connect, busVars
<1>2. /\ peer' = [peer EXCEPT ![w] = "in"] /\ peer[w] = "away"
      /\ keyed' = TRUE /\ active' = active \union {w}
  BY DEF Connect
<1>3. \A v \in WebSockets : v \in Clients /\ v \in Nat
  BY Kinds
<1>4. /\ peer' \in [Clients -> {"away", "in", "gone", "left"}]
      /\ peer'[w] = "in" /\ \A c \in Clients \ {w} : peer'[c] = peer[c]
  BY <1>2, <1>3 DEF IInv, Types
<1>5. /\ entry' # None
      /\ entry' \in Tasks /\ task' \in [Tasks -> TaskRecord]
      /\ \/ entry' = entry /\ task' = task
         \/ /\ entry = None
            /\ task'[entry'].pc = "subscribing" /\ inbox[entry'] = <<>>
            /\ \A u \in Tasks \ {entry'} : task'[u] = task[u]
  <2>1. CASE entry # None
    BY <2>1 DEF Connect, IInv, Types
  <2>2. CASE entry = None
    <3>1. PICK t \in Unborn :
             entry' = t /\ task' = [task EXCEPT ![t] = [task[t] EXCEPT !.pc = "subscribing"]]
      BY <2>2 DEF Connect
    <3>2. t \in Tasks /\ task[t] \in TaskRecord /\ inbox[t] = <<>>
      BY TaskFacts DEF Unborn, TaskOK
    <3>3. [task[t] EXCEPT !.pc = "subscribing"] \in TaskRecord
      BY <3>2 DEF TaskRecord, Alive
    <3>4. [task[t] EXCEPT !.pc = "subscribing"].pc = "subscribing"
      BY <3>2 DEF TaskRecord
    <3>5. task \in [Tasks -> TaskRecord]
      BY DEF IInv, Types
    <3> QED
      BY <2>2, <3>1, <3>2, <3>3, <3>4, <3>5, Kinds
  <2> QED
    BY <2>1, <2>2
<1>6. Types'
  BY <1>1, <1>2, <1>4, <1>5 DEF IInv, Types
<1>7. ConnectedInv'
  <2>1. IsFiniteSet(active')
    BY <1>2, FS_AddElement DEF IInv, ConnectedInv
  <2>2. \A v \in active' : peer'[v] \in {"in", "gone"}
    BY <1>2, <1>3, <1>4 DEF IInv, ConnectedInv, Types
  <2>3. ASSUME NEW v \in WebSockets, NEW x \in WebSockets, v < x, peer'[x] # "away"
        PROVE  peer'[v] # "away"
    <3>1. CASE x = w
      BY <1>3, <1>4, <2>3, <3>1 DEF Connect, Earlier
    <3>2. CASE x # w
      BY <1>3, <1>4, <2>3, <3>2 DEF IInv, ConnectedInv
    <3> QED
      BY <3>1, <3>2
  <2> QED
    BY <1>2, <1>5, <2>1, <2>2, <2>3 DEF ConnectedInv
<1>8. QueuesInv'
  BY <1>1 DEF IInv, QueuesInv, Within
<1>9. ASSUME NEW t \in Tasks
      PROVE  TaskOK(t, task[t], inbox[t])'
  <2>1. TaskOK(t, task[t], inbox[t]) /\ task[t] \in TaskRecord
    BY TaskFacts
  <2>2. CASE entry = None /\ t = entry' /\ task'[t].pc = "subscribing" /\ inbox[t] = <<>>
    BY <1>1, <2>2 DEF TaskOK, After
  <2>3. CASE entry = None /\ task'[t] = task[t]
    <3>1. ~Speaking(task[t])
      BY <2>1, <2>3, Kinds DEF TaskOK
    <3> QED
      BY <1>1, <2>1, <2>3, <3>1 DEF TaskOK
  <2>4. CASE entry' = entry /\ task' = task
    <3>1. ASSUME Broadcasting(task[t], inbox[t])
          PROVE  Broadcasting(task[t], inbox[t])'
      <4>1. PICK to \in WebSockets : to = task[t].to
        BY <3>1 DEF Broadcasting
      <4>2. peer[to] # "away" /\ ~(w <= to)
        BY <1>2, <1>3, <3>1, <4>1 DEF Broadcasting, IInv, ConnectedInv
      <4>3. {v \in active' : v <= to} = UpTo(to)
        BY <1>2, <4>2 DEF UpTo
      <4>4. peer'[to] # "away"
        BY <1>3, <1>4, <4>2
      <4>5. Cardinality({v \in active' : v <= task'[t].to}) <= task'[t].at
        BY <2>4, <3>1, <4>1, <4>3 DEF Broadcasting
      <4>6. (Cardinality(UpTo(task[t].to)) <= task[t].at)'
        BY <4>5 DEF UpTo
      <4> QED
        BY <1>1, <2>4, <3>1, <4>1, <4>4, <4>6 DEF Broadcasting
    <3> QED
      BY <1>1, <2>1, <2>4, <3>1 DEF TaskOK
  <2> QED
    BY <1>5, <2>2, <2>3, <2>4
<1> QED
  BY <1>6, <1>7, <1>8, <1>9 DEF IInv, TasksInv

\* A connection that was there stays known; the list can only get shorter.
LEMMA GoneInv ==
    ASSUME IInv, NEW c \in Clients, peer[c] # "away",
           NEW p \in {"gone", "left"}, peer' = [peer EXCEPT ![c] = p],
           active' \subseteq active,
           \A v \in active' : v = c => p = "gone",
           UNCHANGED <<channel, keyed, entry, task, inbox, got>>
    PROVE  IInv'
<1>1. /\ peer' \in [Clients -> {"away", "in", "gone", "left"}]
      /\ \A d \in Clients : peer'[d] # peer[d] => d = c /\ peer'[d] = p
      /\ \A d \in Clients : peer'[d] = "away" <=> peer[d] = "away"
  BY DEF IInv, Types
<1>2. Types'
  BY <1>1 DEF IInv, Types
<1>3. ConnectedInv'
  <2>1. IsFiniteSet(active')
    BY FS_Subset DEF IInv, ConnectedInv
  <2> QED
    BY <1>1, <2>1, Kinds DEF IInv, ConnectedInv, Types
<1>4. QueuesInv'
  BY DEF IInv, QueuesInv, Within
<1>5. ASSUME NEW t \in Tasks
      PROVE  TaskOK(t, task[t], inbox[t])'
  <2>1. TaskOK(t, task[t], inbox[t]) /\ task[t] \in TaskRecord
    BY TaskFacts
  <2>2. ASSUME Broadcasting(task[t], inbox[t])
        PROVE  Broadcasting(task[t], inbox[t])'
    <3>1. PICK to \in WebSockets : to = task[t].to
      BY <2>2 DEF Broadcasting
    <3>2. PICK at \in Nat : at = task[t].at
      BY <2>1 DEF TaskRecord
    <3>3. Cardinality({v \in active' : v <= to}) <= at
      BY <2>2, <3>1, <3>2, UpToShrinks DEF Broadcasting
    <3>4. (Cardinality(UpTo(task[t].to)) <= task[t].at)'
      BY <3>1, <3>2, <3>3 DEF UpTo
    <3> QED
      BY <1>1, <2>2, <3>4, Kinds DEF Broadcasting
  <2> QED
    BY <2>1, <2>2 DEF TaskOK
<1> QED
  BY <1>2, <1>3, <1>4, <1>5 DEF IInv, TasksInv

LEMMA DisconnectInv ==
    ASSUME IInv, NEW w \in WebSockets, Disconnect(w)
    PROVE  IInv'
<1>1. w \in Clients /\ w \in active \union (WebSockets \ active)
  BY Kinds
<1>2. CASE active \ {w} = {} /\ keyed
  <2>1. /\ active' = {} /\ keyed' = FALSE /\ entry' = None
        /\ task' = [task EXCEPT ![entry] = [task[entry] EXCEPT !.cancelled = TRUE]]
        /\ peer' = [peer EXCEPT ![w] = "left"] /\ peer[w] = "gone"
        /\ UNCHANGED <<channel, inbox, got>>
    BY <1>2 DEF Disconnect, busVars
  <2>2. entry \in Tasks
    BY <1>2 DEF IInv, Types, ConnectedInv
  <2>3. /\ task \in [Tasks -> TaskRecord]
        /\ [task[entry] EXCEPT !.cancelled = TRUE] \in TaskRecord
        /\ [task[entry] EXCEPT !.cancelled = TRUE].cancelled
        /\ [task[entry] EXCEPT !.cancelled = TRUE].pc = task[entry].pc
    BY <2>2 DEF IInv, Types, TaskRecord
  <2>4. Types'
    BY <2>1, <2>2, <2>3, <1>1 DEF IInv, Types
  <2>5. ConnectedInv'
    <3>1. \A v \in WebSockets : peer'[v] = "away" <=> peer[v] = "away"
      BY <2>1, Kinds DEF IInv, Types
    <3> QED
      BY <2>1, <3>1, FS_EmptySet DEF IInv, ConnectedInv
  <2>6. QueuesInv'
    BY <2>1 DEF IInv, QueuesInv, Within
  <2>7. ASSUME NEW t \in Tasks
        PROVE  TaskOK(t, task[t], inbox[t])'
    <3>1. TaskOK(t, task[t], inbox[t])
      BY TaskFacts
    <3>2. task'[t].pc = task[t].pc /\ ~Speaking(task'[t])
      <4>1. CASE t = entry
        BY <2>1, <2>2, <2>3, <4>1 DEF Speaking
      <4>2. CASE t # entry
        BY <2>1, <2>3, <3>1, <4>2 DEF TaskOK
      <4> QED
        BY <4>1, <4>2
    <3> QED
      BY <2>1, <3>1, <3>2 DEF TaskOK, Speaking
  <2> QED
    BY <2>4, <2>5, <2>6, <2>7 DEF IInv, TasksInv
<1>3. CASE ~(active \ {w} = {} /\ keyed)
  BY <1>1, <1>3, GoneInv DEF Disconnect, busVars
<1> QED
  BY <1>2, <1>3

\* A stream takes from its inbox, and gets no more than it took.
LEMMA StreamStep ==
    ASSUME IInv, NEW s \in Streams, NEW box \in Seq(Nat),
           inbox' = [inbox EXCEPT ![s] = box],
           Increasing(box), Within(box),
           got' \in [Clients -> Seq(Nat)],
           \A c \in Clients \ {s} : got'[c] = got[c],
           Within(got'[s]), After(got'[s], box),
           peer' \in [Clients -> {"away", "in", "gone", "left"}],
           \A c \in Clients \ {s} : peer'[c] = peer[c],
           UNCHANGED <<channel, keyed, active, entry, task>>
    PROVE  IInv'
<1>1. /\ s \in Subscribers /\ s \notin Tasks /\ s \notin WebSockets /\ s \in Clients
  BY Kinds
<1>2. /\ inbox' \in [Subscribers -> Seq(Nat)] /\ inbox'[s] = box
      /\ \A r \in Subscribers \ {s} : inbox'[r] = inbox[r]
  BY <1>1 DEF IInv, Types
<1>3. Types'
  BY <1>2 DEF IInv, Types
<1>4. \A w \in WebSockets : peer'[w] = peer[w] /\ got'[w] = got[w]
  BY <1>1, Kinds
<1>5. ConnectedInv'
  <2>1. active \subseteq WebSockets
    BY DEF IInv, Types
  <2> QED
    BY <1>4, <2>1 DEF IInv, ConnectedInv
<1>6. QueuesInv'
  <2>1. \A r \in Subscribers : Increasing(inbox'[r]) /\ Within(inbox[r])'
    BY <1>2 DEF IInv, QueuesInv, Within
  <2>2. \A c \in Clients : Within(got[c])'
    BY DEF IInv, QueuesInv, Within
  <2>3. \A r \in Streams : After(got'[r], inbox'[r])
    BY <1>2, Kinds DEF IInv, QueuesInv
  <2> QED
    BY <2>1, <2>2, <2>3 DEF QueuesInv
<1>7. ASSUME NEW t \in Tasks
      PROVE  TaskOK(t, task[t], inbox[t])'
  <2>1. TaskOK(t, task[t], inbox[t]) /\ inbox'[t] = inbox[t]
    BY <1>1, <1>2, TaskFacts, Kinds
  <2>2. Broadcasting(task[t], inbox[t]) => Broadcasting(task[t], inbox[t])'
    BY <1>4, <2>1 DEF Broadcasting, UpTo
  <2> QED
    BY <1>4, <2>1, <2>2 DEF TaskOK
<1> QED
  BY <1>3, <1>5, <1>6, <1>7 DEF IInv, TasksInv

LEMMA StreamFacts ==
    ASSUME IInv, NEW s \in Streams
    PROVE  /\ inbox[s] \in Seq(Nat) /\ got[s] \in Seq(Nat)
           /\ Increasing(inbox[s]) /\ Within(inbox[s])
           /\ Within(got[s]) /\ After(got[s], inbox[s])
           /\ s \in Clients /\ s \in Subscribers
BY Kinds DEF IInv, Types, QueuesInv

LEMMA YieldInv ==
    ASSUME IInv, NEW s \in Streams, Yield(s)
    PROVE  IInv'
<1>1. /\ inbox[s] \in Seq(Nat) /\ got[s] \in Seq(Nat)
      /\ Increasing(inbox[s]) /\ Within(inbox[s])
      /\ Within(got[s]) /\ After(got[s], inbox[s])
      /\ s \in Clients /\ inbox[s] # <<>>
  BY StreamFacts DEF Yield
<1>2. PICK box \in Seq(Nat) : box = Tail(inbox[s])
  BY <1>1, TailFacts
<1>3. PICK event \in Nat : event = Head(inbox[s])
  BY <1>1, TailFacts
<1>4. /\ \A k \in 1..Len(box) : k \in Nat /\ k + 1 \in 1..Len(inbox[s])
                                /\ box[k] = inbox[s][k + 1]
      /\ 1 \in 1..Len(inbox[s]) /\ event = inbox[s][1]
  BY <1>1, <1>2, <1>3, TailFacts
<1>5. /\ inbox' = [inbox EXCEPT ![s] = box]
      /\ got' = [got EXCEPT ![s] = Append(got[s], event)]
      /\ UNCHANGED <<channel, peer, keyed, active, entry, task>>
  BY <1>2, <1>3 DEF Yield, busVars, managerVars
<1>6. Increasing(box)
  <2> SUFFICES ASSUME NEW k \in 1..Len(box), NEW l \in 1..Len(box), k < l
               PROVE  box[k] < box[l]
    BY DEF Increasing
  <2>1. k + 1 \in 1..Len(inbox[s]) /\ l + 1 \in 1..Len(inbox[s]) /\ k + 1 < l + 1
    BY <1>4
  <2>2. inbox[s][k + 1] < inbox[s][l + 1]
    BY <1>1, <2>1 DEF Increasing
  <2> QED
    BY <1>4, <2>2
<1>7. Within(box) /\ event \in 1..Len(channel)
  BY <1>1, <1>4 DEF Within
<1>8. \A k \in 1..Len(box) : event < box[k]
  BY <1>1, <1>4 DEF Increasing
<1>9. /\ got' \in [Clients -> Seq(Nat)]
      /\ \A c \in Clients \ {s} : got'[c] = got[c]
      /\ got'[s] = Append(got[s], event)
  BY <1>1, <1>5 DEF IInv, Types
<1>10. \A k \in 1..Len(got'[s]) :
          \/ k \in 1..Len(got[s]) /\ got'[s][k] = got[s][k]
          \/ got'[s][k] = event
  BY <1>1, <1>9, AppendFacts
<1>11. Within(got'[s])
  BY <1>1, <1>7, <1>10 DEF Within
<1>12. After(got'[s], box)
  <2>1. \A k \in 1..Len(got[s]), l \in 1..Len(box) : got[s][k] < box[l]
    BY <1>1, <1>4 DEF After
  <2> QED
    BY <1>8, <1>10, <2>1 DEF After
<1>13. peer' \in [Clients -> {"away", "in", "gone", "left"}]
  BY <1>5 DEF IInv, Types
<1> QED
  BY <1>5, <1>6, <1>7, <1>9, <1>11, <1>12, <1>13, StreamStep

LEMMA StreamInv ==
    ASSUME IInv, NEW s \in Streams, Open(s) \/ StreamFails(s) \/ Close(s)
    PROVE  IInv'
<1>1. /\ inbox[s] \in Seq(Nat) /\ <<>> \in Seq(Nat)
      /\ Increasing(inbox[s]) /\ Within(inbox[s])
      /\ Increasing(<<>>) /\ Within(<<>>)
      /\ Within(got[s]) /\ After(got[s], inbox[s]) /\ After(got[s], <<>>)
  <2>1. Len(<<>>) = 0 /\ 1..0 = {} /\ <<>> \in Seq(Nat)
    OBVIOUS
  <2>2. Increasing(<<>>) /\ Within(<<>>) /\ After(got[s], <<>>)
    BY <2>1 DEF Increasing, Within, After
  <2> QED
    BY <2>1, <2>2, StreamFacts
<1>2. /\ got' = got /\ got \in [Clients -> Seq(Nat)]
      /\ UNCHANGED <<channel, keyed, active, entry, task>>
  BY DEF IInv, Types, Open, StreamFails, Close, busVars, managerVars
<1>3. /\ peer' \in [Clients -> {"away", "in", "gone", "left"}]
      /\ \A c \in Clients \ {s} : peer'[c] = peer[c]
  BY DEF IInv, Types, Open, StreamFails, Close
<1>4. CASE Open(s)
  <2>1. inbox' = [inbox EXCEPT ![s] = inbox[s]]
    BY <1>4 DEF Open, IInv, Types
  <2> QED
    BY <1>1, <1>2, <1>3, <2>1, StreamStep
<1>5. CASE StreamFails(s) \/ Close(s)
  <2>1. inbox' = [inbox EXCEPT ![s] = <<>>]
    BY <1>5 DEF StreamFails, Close
  <2> QED
    BY <1>1, <1>2, <1>3, <2>1, StreamStep
<1> QED
  BY <1>4, <1>5

LEMMA UnchangedInv ==
    ASSUME IInv, UNCHANGED <<channel, peer, keyed, active, entry, task, inbox, got>>
    PROVE  IInv'
BY DEF IInv, Types, ConnectedInv, QueuesInv, TasksInv, TaskOK, Broadcasting, Within,
   UpTo, TaskRecord

LEMMA NextInv == IInv /\ [Next]_vars => IInv'
<1> SUFFICES ASSUME IInv, [Next]_vars
             PROVE  IInv'
  OBVIOUS
<1>1. ASSUME NEW e \in Events, Publisher(e)
      PROVE  IInv'
  <2>1. CASE AppendToStream(e)
    BY <2>1, UnchangedInv DEF AppendToStream, managerVars
  <2>2. CASE PublishToChannel(e)
    BY <2>2, PublishInv
  <2> QED
    BY <1>1, <2>1, <2>2 DEF Publisher
<1>2. ASSUME NEW t \in Tasks, Step(t) \/ SubscribeFails(t) \/ PollFails(t)
      PROVE  IInv'
  BY <1>2, QuietInv, ReceiveInv, SentInv, NotSentInv, StopInv DEF Step
<1>3. ASSUME NEW w \in WebSockets, Connect(w) \/ Disconnect(w)
      PROVE  IInv'
  BY <1>3, ConnectInv, DisconnectInv
<1>4. ASSUME NEW s \in Streams, Open(s) \/ Serve(s) \/ StreamFails(s)
      PROVE  IInv'
  BY <1>4, YieldInv, StreamInv DEF Serve
<1>5. ASSUME NEW c \in Clients, Leave(c)
      PROVE  IInv'
  BY <1>5, GoneInv DEF Leave, busVars, managerVars
<1>6. CASE UNCHANGED vars
  BY <1>6, UnchangedInv DEF vars
<1> QED
  BY <1>1, <1>2, <1>3, <1>4, <1>5, <1>6 DEF Next

-----------------------------------------------------------------------------
\* However clients come and go and Redis fails, at most one task speaks for the
\* conversation, and it is the one in subscription_tasks.
THEOREM OneTaskSpeaks == Spec => []OneSpeaker
<1>1. IInv => OneSpeaker
  <2> SUFFICES ASSUME IInv
               PROVE  OneSpeaker
    OBVIOUS
  <2>1. ASSUME NEW t \in Tasks, task[t].pc \in Alive, ~task[t].cancelled
        PROVE  entry = t
    BY <2>1, TaskFacts DEF TaskOK, Speaking
  <2>2. (entry # None) <=> keyed
    BY DEF IInv, ConnectedInv
  <2>3. \A w \in WebSockets : w \in active => peer[w] \in {"in", "gone"}
    BY DEF IInv, ConnectedInv
  <2> QED
    BY <2>1, <2>2, <2>3 DEF OneSpeaker
<1> QED
  BY <1>1, InitInv, NextInv, PTL DEF Spec

LEMMA HandSent ==
    ASSUME IInv, NEW t \in Tasks, Sent(t)
    PROVE  F!FeedNext
<1>1. Broadcasting(task[t], inbox[t])
  BY TaskFacts DEF Sent, Runs, TaskOK, Speaking, Alive
<1>2. /\ task[t].to \in WebSockets /\ task[t].to \in Clients
      /\ task[t].event \in 1..Len(channel)
      /\ Below(got[task[t].to], task[t].event)
  <2>1. task[t].event \in 1..Len(channel)
    BY <1>1 DEF Broadcasting
  <2>2. task[t].to \in WebSockets /\ task[t].to \in Nat
    BY <1>1, Kinds DEF Broadcasting
  <2>3. \A w \in WebSockets : task[t].to <= w => Below(got[w], task[t].event)
    BY <1>1 DEF Broadcasting
  <2> QED
    BY <2>1, <2>2, <2>3, Kinds
<1>3. F!Hand(task[t].to, task[t].event)
  BY <1>2 DEF F!Hand, Sent, busVars, Below
<1> QED
  BY <1>2, <1>3 DEF F!FeedNext

LEMMA HandYielded ==
    ASSUME IInv, NEW s \in Streams, Yield(s)
    PROVE  F!FeedNext
<1>1. /\ inbox[s] \in Seq(Nat) /\ inbox[s] # <<>> /\ s \in Clients
      /\ Within(inbox[s]) /\ After(got[s], inbox[s])
  BY StreamFacts DEF Yield
<1>2. 1 \in 1..Len(inbox[s]) /\ Head(inbox[s]) = inbox[s][1]
  BY <1>1, TailFacts
<1>3. /\ Head(inbox[s]) \in 1..Len(channel)
      /\ \A k \in 1..Len(got[s]) : got[s][k] < Head(inbox[s])
  BY <1>1, <1>2 DEF Within, After
<1>4. F!Hand(s, Head(inbox[s]))
  BY <1>3 DEF F!Hand, Yield, busVars
<1> QED
  BY <1>1, <1>3, <1>4 DEF F!FeedNext

\* Whatever happens, every websocket and every stream gets what Feed promises.
THEOREM GetsAFeed == Spec => ImplementsFeed
<1>1. Init => F!FeedInit
  BY DEF Init, F!FeedInit
<1>2. ASSUME IInv, [Next]_vars
      PROVE  [F!FeedNext]_(F!feedVars)
  <2>1. ASSUME UNCHANGED <<channel, got>>
        PROVE  [F!FeedNext]_(F!feedVars)
    BY <2>1 DEF F!feedVars
  <2>2. ASSUME NEW e \in Events, PublishToChannel(e)
        PROVE  [F!FeedNext]_(F!feedVars)
    <3>1. CASE channel' = Append(channel, e)
      <4>1. Len(channel') = Len(channel) + 1
        BY <1>2, <3>1 DEF IInv, Types
      <4> QED
        BY <2>2, <4>1 DEF PublishToChannel, F!FeedNext, F!Publish
    <3> QED
      BY <2>1, <2>2, <3>1 DEF PublishToChannel
  <2>3. CASE \E t \in Tasks : Sent(t)
    BY <1>2, <2>3, HandSent
  <2>4. CASE \E s \in Streams : Yield(s)
    BY <1>2, <2>4, HandYielded
  <2>5. CASE UNCHANGED vars
    BY <2>1, <2>5 DEF vars
  <2>6. CASE \E e \in Events : AppendToStream(e)
    BY <2>1, <2>6 DEF AppendToStream
  <2>7. CASE \E t \in Tasks : \/ Subscribe(t) \/ SubscribeFails(t) \/ Receive(t)
                              \/ NotSent(t) \/ PollFails(t) \/ Retry(t) \/ Stop(t)
    BY <2>1, <2>7 DEF Subscribe, SubscribeFails, Receive, NotSent, PollFails, Retry,
       Stop, busVars
  <2>8. CASE \E w \in WebSockets : Connect(w) \/ Disconnect(w)
    BY <2>1, <2>8 DEF Connect, Disconnect, busVars
  <2>9. CASE \E s \in Streams : Open(s) \/ StreamFails(s) \/ Close(s)
    BY <2>1, <2>9 DEF Open, StreamFails, Close, busVars
  <2>10. CASE \E c \in Clients : Leave(c)
    BY <2>1, <2>10 DEF Leave, busVars
  <2> QED
    BY <1>2, <2>2, <2>3, <2>4, <2>5, <2>6, <2>7, <2>8, <2>9, <2>10
       DEF Next, Publisher, Step, Serve
<1> QED
  BY <1>1, <1>2, InitInv, NextInv, PTL DEF Spec, ImplementsFeed, F!FeedSpec

-----------------------------------------------------------------------------
(* What Feed promises *)

FeedTypeOK ==
    /\ Len(channel) \in Nat
    /\ got \in [Clients -> Seq(1..Len(channel))]

FeedInv == FeedTypeOK /\ F!InOrder

LEMMA FeedInitInv == F!FeedInit => FeedInv
BY DEF F!FeedInit, FeedInv, FeedTypeOK, F!InOrder

LEMMA FeedPublishInv ==
    ASSUME FeedInv, F!Publish
    PROVE  FeedInv'
<1> USE DEF FeedInv, FeedTypeOK, F!Publish
<1>1. Len(channel') \in Nat /\ 1..Len(channel) \subseteq 1..Len(channel')
  OBVIOUS
<1>2. \A c \in Clients : got'[c] \in Seq(1..Len(channel'))
  BY <1>1
<1>3. got' \in [Clients -> Seq(1..Len(channel'))]
  BY <1>2
<1>4. F!InOrder'
  BY <1>1 DEF F!InOrder
<1> QED
  BY <1>1, <1>3, <1>4

LEMMA FeedHandInv ==
    ASSUME FeedInv, NEW c \in Clients, NEW e \in 1..Len(channel), F!Hand(c, e)
    PROVE  FeedInv'
<1> USE DEF FeedInv, FeedTypeOK, F!Hand
<1>1. got' \in [Clients -> Seq(1..Len(channel))]
  OBVIOUS
<1>2. ASSUME NEW d \in Clients
      PROVE  /\ \A k \in 1..Len(got'[d]) : got'[d][k] \in 1..Len(channel)
             /\ \A k, l \in 1..Len(got'[d]) : k < l => got'[d][k] < got'[d][l]
  <2>1. CASE d = c
    <3>1. got'[d] = Append(got[c], e)
      BY <2>1
    <3>2. Len(got'[d]) = Len(got[c]) + 1
      BY <3>1
    <3>3. \A k \in 1..Len(got[c]) : got'[d][k] = got[c][k]
      <4>1. got[c] \in Seq(1..Len(channel))
        OBVIOUS
      <4> HIDE DEF FeedInv, FeedTypeOK, F!Hand
      <4> QED
        BY <3>1, <4>1
    <3>4. got'[d][Len(got[c]) + 1] = e
      BY <3>1
    <3>5. \A k \in 1..Len(got[c]) : got[c][k] < e
      OBVIOUS
    <3> QED
      BY <3>2, <3>3, <3>4, <3>5 DEF F!InOrder
  <2>2. CASE d # c
    BY <2>2 DEF F!InOrder
  <2> QED
    BY <2>1, <2>2
<1>3. F!InOrder'
  BY <1>2 DEF F!InOrder
<1> QED
  BY <1>1, <1>3

LEMMA FeedNextInv == FeedInv /\ [F!FeedNext]_(F!feedVars) => FeedInv'
<1> SUFFICES ASSUME FeedInv, [F!FeedNext]_(F!feedVars)
             PROVE  FeedInv'
  OBVIOUS
<1>1. CASE F!Publish
  BY <1>1, FeedPublishInv
<1>2. CASE \E c \in Clients : \E e \in 1..Len(channel) : F!Hand(c, e)
  BY <1>2, FeedHandInv
<1>3. CASE UNCHANGED F!feedVars
  BY <1>3 DEF F!feedVars, FeedInv, FeedTypeOK, F!InOrder
<1> QED
  BY <1>1, <1>2, <1>3 DEF F!FeedNext

\* Each client has a strictly increasing selection of what the channel carried:
\* that follows from what Feed lets it get.
THEOREM InOrderAlways == Spec => []F!InOrder
<1>1. FeedInv => F!InOrder
  BY DEF FeedInv
<1> QED
  BY <1>1, FeedInitInv, FeedNextInv, GetsAFeed, PTL DEF F!FeedSpec, ImplementsFeed

-----------------------------------------------------------------------------
(* The history *)

KeptInv ==
    /\ sending \in [Events -> {"append", "publish", "done"}]
    /\ history \in Seq(Events)
    /\ \A k \in 1..Len(channel) : sending[channel[k]] = "done"
    /\ \A e \in Events \ Unlucky :
          sending[e] # "append" => Contains(history, e) \/ Len(history) >= MaxStreamLen

LEMMA KeptInit == Init => KeptInv
BY DEF Init, KeptInv

\* What is in a sequence stays when something is appended, and comes to be in it.
LEMMA AppendContains ==
    ASSUME NEW S, NEW q \in Seq(S), NEW e \in S
    PROVE  /\ Contains(Append(q, e), e)
           /\ \A f : Contains(q, f) => Contains(Append(q, e), f)
           /\ Len(Append(q, e)) = Len(q) + 1
<1>1. /\ Len(Append(q, e)) = Len(q) + 1 /\ Len(q) \in Nat
      /\ Append(q, e)[Len(q) + 1] = e
      /\ \A k \in 1..Len(q) : Append(q, e)[k] = q[k] /\ k \in 1..(Len(q) + 1)
  OBVIOUS
<1>2. Len(q) + 1 \in 1..(Len(q) + 1)
  BY <1>1
<1> QED
  BY <1>1, <1>2 DEF Contains

LEMMA KeptStep ==
    ASSUME KeptInv, channel \in Seq(Events), [Next]_vars
    PROVE  KeptInv'
<1>1. ASSUME UNCHANGED <<sending, history, channel>>
      PROVE  KeptInv'
  BY <1>1 DEF KeptInv
<1>2. ASSUME NEW e \in Events, AppendToStream(e)
      PROVE  KeptInv'
  <2>1. /\ sending' = [sending EXCEPT ![e] = "publish"] /\ sending[e] = "append"
        /\ UNCHANGED channel
    BY <1>2 DEF AppendToStream
  <2>2. \A k \in 1..Len(channel) : channel[k] # e /\ channel[k] \in Events
    BY <2>1 DEF KeptInv
  <2>3. /\ history' \in Seq(Events)
        /\ \A f \in Events : (Contains(history, f) \/ Len(history) >= MaxStreamLen)
              => (Contains(history', f) \/ Len(history') >= MaxStreamLen)
        /\ e \in Unlucky \/ Contains(history', e) \/ Len(history') >= MaxStreamLen
    <3>1. history \in Seq(Events) /\ Len(history) \in Nat /\ MaxStreamLen \in Nat
      BY MaxStreamLenAssumption DEF KeptInv
    <3>2. CASE history' = Append(history, e)
      <4>1. Len(history') >= Len(history) /\ history' \in Seq(Events)
        BY <3>1, <3>2
      <4> QED
        BY <3>1, <3>2, <4>1, AppendContains
    <3>3. CASE Len(history) >= MaxStreamLen /\ history' = Append(Tail(history), e)
      <4>1. CASE history = <<>>
        <5>1. MaxStreamLen = 0
          BY <3>1, <3>3, <4>1
        <5>2. Len(history') >= 0 /\ history' \in Seq(Events)
          BY <3>3, <4>1
        <5> QED
          BY <5>1, <5>2
      <4>2. CASE history # <<>>
        <5>1. Tail(history) \in Seq(Events) /\ Len(Tail(history)) = Len(history) - 1
          BY <3>1, <4>2
        <5>2. history' \in Seq(Events) /\ Len(history') = Len(history)
          BY <3>1, <3>3, <5>1
        <5> QED
          BY <3>3, <5>2
      <4> QED
        BY <4>1, <4>2
    <3>4. CASE e \in Unlucky /\ UNCHANGED history
      BY <3>1, <3>4
    <3> QED
      BY <1>2, <3>2, <3>3, <3>4 DEF AppendToStream
  <2> QED
    BY <2>1, <2>2, <2>3 DEF KeptInv
<1>3. ASSUME NEW e \in Events, PublishToChannel(e)
      PROVE  KeptInv'
  <2>1. /\ sending' = [sending EXCEPT ![e] = "done"] /\ sending[e] = "publish"
        /\ UNCHANGED history
        /\ channel' = Append(channel, e) \/ channel' = channel
    BY <1>3 DEF PublishToChannel
  <2>2. \A k \in 1..Len(channel') :
           channel'[k] = e \/ (k \in 1..Len(channel) /\ channel'[k] = channel[k])
    <3>1. CASE channel' = Append(channel, e)
      <4>1. /\ Len(channel') = Len(channel) + 1 /\ Len(channel) \in Nat
            /\ channel'[Len(channel) + 1] = e
            /\ \A k \in 1..Len(channel) : channel'[k] = channel[k]
        BY <3>1
      <4> QED
        BY <4>1
    <3> QED
      BY <2>1, <3>1
  <2>3. \A k \in 1..Len(channel') : sending'[channel'[k]] = "done"
    BY <2>1, <2>2 DEF KeptInv
  <2> QED
    BY <2>1, <2>3 DEF KeptInv
<1>4. ASSUME NEW t \in Tasks, Step(t) \/ SubscribeFails(t) \/ PollFails(t)
      PROVE  KeptInv'
  BY <1>1, <1>4 DEF Step, Subscribe, SubscribeFails, Receive, Sent, NotSent, PollFails,
     Retry, Stop, busVars
<1>5. ASSUME NEW w \in WebSockets, Connect(w) \/ Disconnect(w)
      PROVE  KeptInv'
  BY <1>1, <1>5 DEF Connect, Disconnect, busVars
<1>6. ASSUME NEW s \in Streams, Open(s) \/ Serve(s) \/ StreamFails(s)
      PROVE  KeptInv'
  BY <1>1, <1>6 DEF Open, Serve, Yield, Close, StreamFails, busVars
<1>7. ASSUME NEW c \in Clients, Leave(c)
      PROVE  KeptInv'
  BY <1>1, <1>7 DEF Leave, busVars
<1>8. CASE UNCHANGED vars
  BY <1>1, <1>8 DEF vars
<1> QED
  BY <1>2, <1>3, <1>4, <1>5, <1>6, <1>7, <1>8 DEF Next, Publisher

\* What was published live can be found in the history, unless its append
\* failed or the stream was full.
THEOREM LiveKept == Spec => []LiveIsKept
<1>1. IInv /\ KeptInv => LiveIsKept
  <2> SUFFICES ASSUME IInv, KeptInv, NEW e \in ToSet(channel) \ Unlucky
               PROVE  Contains(history, e) \/ Len(history) >= MaxStreamLen
    BY DEF LiveIsKept
  <2>1. channel \in Seq(Events)
    BY DEF IInv, Types
  <2>2. PICK k \in 1..Len(channel) : e = channel[k]
    BY <2>1 DEF ToSet
  <2> QED
    BY <2>1, <2>2 DEF KeptInv
<1>2. IInv => channel \in Seq(Events)
  BY DEF IInv, Types
<1> QED
  BY <1>1, <1>2, InitInv, NextInv, KeptInit, KeptStep, PTL DEF Spec

-----------------------------------------------------------------------------
(* Types, with the bound on positions *)

EventsInv ==
    /\ lossy \subseteq MayFail
    /\ \A t \in Tasks : task[t].event \in 0..Len(channel)

\* A step leaves the event of a task, forgets it or takes one from the inbox.
LEMMA EventsStep ==
    ASSUME IInv, IInv', EventsInv, [Next]_vars
    PROVE  EventsInv'
<1>1. /\ task \in [Tasks -> TaskRecord] /\ Len(channel) \in Nat /\ Len(channel') \in Nat
      /\ Idle.event = 0
  BY DEF IInv, Types, Idle
<1>2. ASSUME Len(channel) <= Len(channel'), lossy' \subseteq MayFail,
             \A t \in Tasks : task'[t].event \in {0, task[t].event}
      PROVE  EventsInv'
  BY <1>1, <1>2 DEF EventsInv
<1>3. ASSUME NEW t \in Tasks, UNCHANGED channel, lossy' \subseteq MayFail,
             NEW new, task' = [task EXCEPT ![t] = new], new.event \in 0..Len(channel)
      PROVE  EventsInv'
  BY <1>1, <1>3 DEF EventsInv
<1>4. lossy' \subseteq MayFail
  BY DEF EventsInv, Next, vars, Publisher, AppendToStream, PublishToChannel, Step,
     Subscribe, SubscribeFails, Receive, Sent, NotSent, PollFails, Retry, Stop, Connect,
     Disconnect, Open, Serve, Yield, Close, StreamFails, Leave, managerVars
<1>5. ASSUME UNCHANGED <<channel, task>>
      PROVE  EventsInv'
  BY <1>4, <1>5 DEF EventsInv
<1>6. ASSUME NEW e \in Events, Publisher(e)
      PROVE  EventsInv'
  <2>1. CASE AppendToStream(e)
    BY <1>5, <2>1 DEF AppendToStream
  <2>2. CASE PublishToChannel(e)
    <3>1. UNCHANGED task /\ (channel' = channel \/ channel' = Append(channel, e))
      BY <2>2 DEF PublishToChannel
    <3>2. Len(channel) <= Len(channel')
      BY <1>1, <3>1 DEF IInv, Types
    <3> QED
      BY <1>2, <1>4, <3>1, <3>2
  <2> QED
    BY <1>6, <2>1, <2>2 DEF Publisher
<1>7. ASSUME NEW t \in Tasks, NEW failed \in SUBSET WebSockets, Advance(t, failed),
             UNCHANGED channel
      PROVE  EventsInv'
  <2>1. PICK n \in Nat : n = task[t].at + 1
    BY <1>1 DEF TaskRecord
  <2>2. PICK j \in TaskRecord : j = [task[t] EXCEPT !.failed = failed]
    BY <1>1, <1>7 DEF TaskRecord
  <2>3. j.event = task[t].event /\ j.event \in 0..Len(channel)
    BY <1>1, <2>2 DEF TaskRecord, EventsInv
  <2>4. CASE Finish(t, failed)
    <3>1. PICK new : new = [Idle EXCEPT !.pc = "polling"]
      OBVIOUS
    <3>2. new.event = 0 /\ 0 \in 0..Len(channel)
      BY <1>1, <3>1 DEF Idle
    <3>3. task' = [task EXCEPT ![t] = new]
      BY <2>4, <3>1 DEF Finish
    <3> QED
      BY <1>3, <1>4, <1>7, <3>2, <3>3
  <2>5. CASE SendTo(t, n, j)
    <3>1. PICK w \in active :
             task' = [task EXCEPT ![t] =
                        [j EXCEPT !.pc = "broadcasting", !.at = n, !.to = w]]
      BY <2>5 DEF SendTo
    <3>2. [j EXCEPT !.pc = "broadcasting", !.at = n, !.to = w].event = j.event
      BY DEF TaskRecord
    <3> QED
      BY <1>3, <1>4, <1>7, <2>3, <3>1, <3>2
  <2> QED
    BY <1>7, <2>1, <2>2, <2>4, <2>5 DEF Advance
<1>8. ASSUME NEW t \in Tasks, Step(t) \/ SubscribeFails(t) \/ PollFails(t)
      PROVE  EventsInv'
  <2>1. CASE Subscribe(t) \/ SubscribeFails(t) \/ PollFails(t) \/ Retry(t)
    <3>1. UNCHANGED channel /\ \E pc : task' = [task EXCEPT ![t] = [task[t] EXCEPT !.pc = pc]]
      BY <2>1 DEF Subscribe, SubscribeFails, PollFails, Retry, busVars
    <3>2. \A pc : [task[t] EXCEPT !.pc = pc].event = task[t].event
      BY <1>1 DEF TaskRecord
    <3> QED
      BY <1>3, <1>4, <3>1, <3>2 DEF EventsInv
  <2>2. CASE Stop(t)
    <3>1. PICK new : new = [Idle EXCEPT !.pc = "stopped"]
      OBVIOUS
    <3>2. new.event = 0 /\ 0 \in 0..Len(channel)
      BY <1>1, <3>1 DEF Idle
    <3>3. task' = [task EXCEPT ![t] = new] /\ UNCHANGED channel
      BY <2>2, <3>1 DEF Stop, busVars
    <3> QED
      BY <1>3, <1>4, <3>2, <3>3
  <2>3. CASE Receive(t)
    <3>1. inbox[t] \in Seq(Nat) /\ inbox[t] # <<>> /\ Within(inbox[t]) /\ UNCHANGED channel
      BY <2>3, TaskFacts DEF Receive, busVars
    <3>2. PICK event \in 0..Len(channel) : event = Head(inbox[t])
      BY <1>1, <3>1, TailFacts DEF Within
    <3>3. PICK j \in TaskRecord : j = [task[t] EXCEPT !.event = event]
      <4>1. event \in Nat /\ task[t] \in TaskRecord
        BY <1>1, <3>2
      <4> QED
        BY <4>1 DEF TaskRecord
    <3>4. j.event = event
      BY <1>1, <3>3 DEF TaskRecord
    <3>5. CASE SendTo(t, 1, j)
      <4>1. PICK w \in active :
               task' = [task EXCEPT ![t] =
                          [j EXCEPT !.pc = "broadcasting", !.at = 1, !.to = w]]
        BY <3>5 DEF SendTo
      <4>2. [j EXCEPT !.pc = "broadcasting", !.at = 1, !.to = w].event = j.event
        BY DEF TaskRecord
      <4> QED
        BY <1>3, <1>4, <3>1, <3>2, <3>4, <4>1, <4>2
    <3>6. CASE UNCHANGED task
      BY <1>5, <3>1, <3>6
    <3> QED
      BY <2>3, <3>2, <3>3, <3>5, <3>6 DEF Receive
  <2>4. CASE Sent(t) \/ NotSent(t)
    <3>1. task[t].failed \in SUBSET WebSockets /\ UNCHANGED channel
      BY <1>1, <2>4 DEF TaskRecord, Sent, NotSent, busVars
    <3>2. CASE Sent(t)
      BY <1>7, <3>1, <3>2 DEF Sent
    <3>3. CASE NotSent(t)
      <4>1. task[t].to \in WebSockets
        BY <3>3, TaskFacts DEF NotSent, Runs, TaskOK, Speaking, Alive, Broadcasting
      <4>2. PICK failed \in {task[t].failed, task[t].failed \union {task[t].to}} :
               Advance(t, failed)
        BY <3>3 DEF NotSent
      <4> QED
        BY <1>7, <3>1, <4>1, <4>2
    <3> QED
      BY <2>4, <3>2, <3>3
  <2> QED
    BY <1>8, <2>1, <2>2, <2>3, <2>4 DEF Step
<1>9. ASSUME NEW w \in WebSockets, Connect(w) \/ Disconnect(w)
      PROVE  EventsInv'
  <2>1. UNCHANGED channel
    BY <1>9 DEF Connect, Disconnect, busVars
  <2>2. \A t \in Tasks : task'[t].event = task[t].event
    <3>1. \/ UNCHANGED task
          \/ \E u : task' = [task EXCEPT ![u].pc = "subscribing"]
          \/ \E u : task' = [task EXCEPT ![u].cancelled = TRUE]
      BY <1>9 DEF Connect, Disconnect
    <3> QED
      BY <1>1, <3>1 DEF TaskRecord
  <2> QED
    BY <1>1, <1>2, <1>4, <2>1, <2>2
<1>10. ASSUME NEW s \in Streams, Open(s) \/ Serve(s) \/ StreamFails(s)
      PROVE  EventsInv'
  BY <1>5, <1>10 DEF Open, Serve, Yield, Close, StreamFails, busVars
<1>11. ASSUME NEW c \in Clients, Leave(c)
      PROVE  EventsInv'
  BY <1>5, <1>11 DEF Leave, busVars
<1>12. CASE UNCHANGED vars
  BY <1>5, <1>12 DEF vars
<1> QED
  BY <1>6, <1>8, <1>9, <1>10, <1>11, <1>12 DEF Next

LEMMA SeqOfPositions ==
    ASSUME NEW q \in Seq(Nat), Within(q)
    PROVE  q \in Seq(Positions)
<1>1. \A k \in 1..Len(q) : q[k] \in Positions
  BY DEF Within, Positions
<1> QED
  BY <1>1

\* Everything stays well-formed, and nobody names an event that the channel has
\* not carried.
THEOREM TypeCorrect == Spec => []TypeOK
<1>1. Init => EventsInv
  BY DEF Init, EventsInv, Idle
<1>2. IInv /\ KeptInv /\ EventsInv => TypeOK
  <2> SUFFICES ASSUME IInv, KeptInv, EventsInv
               PROVE  TypeOK
    OBVIOUS
  <2>1. \A c \in Clients : got[c] \in Seq(Positions)
    BY SeqOfPositions DEF IInv, Types, QueuesInv
  <2>2. \A s \in Subscribers : inbox[s] \in Seq(Positions)
    BY SeqOfPositions DEF IInv, Types, QueuesInv
  <2>3. \A t \in Tasks : task[t].event \in Positions \union {0}
    BY DEF EventsInv, Positions, IInv, Types
  <2>4. task \in [Tasks -> [pc : Alive \union {"unborn", "dead", "stopped"},
                            cancelled : BOOLEAN, event : Positions \union {0}, at : Nat,
                            to : WebSockets \union {None}, failed : SUBSET WebSockets]]
    BY <2>3 DEF IInv, Types, TaskRecord
  <2>5. got \in [Clients -> Seq(Positions)] /\ inbox \in [Subscribers -> Seq(Positions)]
    BY <2>1, <2>2 DEF IInv, Types
  <2> QED
    BY <2>4, <2>5 DEF TypeOK, IInv, Types, KeptInv, EventsInv
<1>3. IInv => channel \in Seq(Events)
  BY DEF IInv, Types
<1> QED
  BY <1>1, <1>2, <1>3, InitInv, NextInv, KeptInit, KeptStep, EventsStep, PTL DEF Spec

-----------------------------------------------------------------------------
(* What a stream misses *)

Gapless(q) == \A k \in 1..Len(q) - 1 : q[k + 1] = q[k] + 1

\* what q and then r hold are the last events of the first n
Upto(q, r, n) ==
    LET base == n - (Len(q) + Len(r)) IN
    /\ \A k \in 1..Len(q) : q[k] = base + k
    /\ \A k \in 1..Len(r) : r[k] = base + Len(q) + k

StreamOK(s) ==
    /\ peer[s] = "away" => got[s] = <<>> /\ inbox[s] = <<>>
    /\ s \notin lossy =>
          /\ peer[s] = "in" => Upto(got[s], inbox[s], Len(channel))
          /\ Gapless(got[s])

StreamsInv == \A s \in Streams : StreamOK(s)

LEMMA UptoAppended ==
    ASSUME NEW q \in Seq(Nat), NEW r \in Seq(Nat), NEW n \in Nat, Upto(q, r, n)
    PROVE  Upto(q, Append(r, n + 1), n + 1)
<1>1. PICK m \in Nat : m = n + 1
  OBVIOUS
<1>2. PICK a \in Seq(Nat) : a = Append(r, m)
  BY AppendFacts
<1>3. /\ Len(a) = Len(r) + 1 /\ a[Len(r) + 1] = m
      /\ \A k \in 1..Len(r) : a[k] = r[k]
      /\ Len(q) \in Nat /\ Len(r) \in Nat
  BY <1>2
<1>4. /\ \A k \in 1..Len(q) : q[k] = n - (Len(q) + Len(r)) + k
      /\ \A k \in 1..Len(r) : r[k] = n - (Len(q) + Len(r)) + Len(q) + k
  BY DEF Upto
<1>5. m - (Len(q) + Len(a)) = n - (Len(q) + Len(r))
  BY <1>1, <1>3
<1>6. ASSUME NEW k \in 1..Len(a)
      PROVE  a[k] = m - (Len(q) + Len(a)) + Len(q) + k
  <2>1. CASE k = Len(r) + 1
    BY <1>1, <1>3, <2>1
  <2>2. CASE k \in 1..Len(r)
    BY <1>3, <1>4, <1>5, <2>2
  <2> QED
    BY <1>3, <2>1, <2>2
<1>7. \A k \in 1..Len(q) : q[k] = m - (Len(q) + Len(a)) + k
  BY <1>4, <1>5
<1>8. Upto(q, a, m)
  BY <1>6, <1>7 DEF Upto
<1> QED
  BY <1>1, <1>2, <1>8

LEMMA UptoHanded ==
    ASSUME NEW q \in Seq(Nat), NEW r \in Seq(Nat), NEW n \in Nat, Upto(q, r, n),
           r # <<>>
    PROVE  Upto(Append(q, Head(r)), Tail(r), n)
<1>1. PICK h \in Nat : h = Head(r)
  BY TailFacts
<1>2. PICK a \in Seq(Nat) : a = Append(q, h)
  BY AppendFacts
<1>3. PICK b \in Seq(Nat) : b = Tail(r)
  BY TailFacts
<1>4. /\ Len(a) = Len(q) + 1 /\ a[Len(q) + 1] = h
      /\ \A k \in 1..Len(q) : a[k] = q[k]
      /\ Len(q) \in Nat /\ Len(r) \in Nat
  BY <1>2
<1>5. /\ Len(b) = Len(r) - 1 /\ h = r[1] /\ 1 \in 1..Len(r)
      /\ \A k \in 1..Len(b) : k + 1 \in 1..Len(r) /\ b[k] = r[k + 1]
  BY <1>1, <1>3, TailFacts
<1>6. PICK base \in Int : base = n - (Len(q) + Len(r))
  <2>1. n - (Len(q) + Len(r)) \in Int
    OBVIOUS
  <2> QED
    BY <2>1, Zenon
<1>7. /\ \A k \in 1..Len(q) : q[k] = base + k
      /\ \A k \in 1..Len(r) : r[k] = base + Len(q) + k
  BY <1>6 DEF Upto
<1>8. n - (Len(a) + Len(b)) = base
  BY <1>4, <1>5, <1>6
<1>9. ASSUME NEW k \in 1..Len(a)
      PROVE  a[k] = base + k
  <2>1. CASE k = Len(q) + 1
    <3>1. h = base + Len(q) + 1
      BY <1>5, <1>7
    <3> QED
      BY <1>4, <2>1, <3>1
  <2>2. CASE k \in 1..Len(q)
    BY <1>4, <1>7, <2>2
  <2> QED
    BY <1>4, <2>1, <2>2
<1>10. ASSUME NEW k \in 1..Len(b)
       PROVE  b[k] = base + Len(a) + k
  <2>1. r[k + 1] = base + Len(q) + (k + 1)
    BY <1>5, <1>7
  <2> QED
    BY <1>4, <1>5, <2>1
<1>11. Upto(a, b, n)
  BY <1>8, <1>9, <1>10 DEF Upto
<1> QED
  BY <1>1, <1>2, <1>3, <1>11

LEMMA UptoGapless ==
    ASSUME NEW q \in Seq(Nat), NEW r \in Seq(Nat), NEW n \in Nat, Upto(q, r, n)
    PROVE  Gapless(q)
<1>1. PICK base \in Int : base = n - (Len(q) + Len(r))
  <2>1. n - (Len(q) + Len(r)) \in Int
    OBVIOUS
  <2> QED
    BY <2>1, Zenon
<1>2. \A k \in 1..Len(q) : q[k] = base + k
  BY <1>1 DEF Upto
<1> SUFFICES ASSUME NEW k \in 1..Len(q) - 1
             PROVE  q[k + 1] = q[k] + 1
  BY DEF Gapless
<1>3. k \in 1..Len(q) /\ k + 1 \in 1..Len(q)
  OBVIOUS
<1> QED
  BY <1>2, <1>3

\* What happens elsewhere is nothing to a stream.
LEMMA StreamAlone ==
    ASSUME NEW s \in Streams, StreamOK(s), UNCHANGED <<channel, peer[s], got[s], inbox[s]>>,
           lossy \subseteq lossy'
    PROVE  StreamOK(s)'
BY DEF StreamOK

LEMMA StreamsStep ==
    ASSUME IInv, IInv', StreamsInv, [Next]_vars
    PROVE  StreamsInv'
<1> SUFFICES ASSUME NEW s \in Streams
             PROVE  StreamOK(s)'
  BY DEF StreamsInv
<1>1. StreamOK(s) /\ s \in Clients /\ s \in Subscribers /\ s \notin Tasks /\ s \notin WebSockets
  BY Kinds DEF StreamsInv
<1>2. /\ inbox[s] \in Seq(Nat) /\ got[s] \in Seq(Nat) /\ Len(channel) \in Nat
      /\ channel \in Seq(Events)
      /\ inbox \in [Subscribers -> Seq(Nat)] /\ got \in [Clients -> Seq(Nat)]
      /\ peer \in [Clients -> {"away", "in", "gone", "left"}]
  BY <1>1 DEF IInv, Types
<1>3. lossy \subseteq lossy'
  BY DEF Next, vars, Publisher, AppendToStream, PublishToChannel, Step,
     Subscribe, SubscribeFails, Receive, Sent, NotSent, PollFails, Retry, Stop, Connect,
     Disconnect, Open, Serve, Yield, Close, StreamFails, Leave, managerVars
<1>4. ASSUME UNCHANGED <<channel, peer[s], got[s], inbox[s]>>
      PROVE  StreamOK(s)'
  BY <1>1, <1>3, <1>4, StreamAlone
<1>5. ASSUME NEW e \in Events, Publisher(e)
      PROVE  StreamOK(s)'
  <2>1. CASE UNCHANGED <<channel, inbox>>
    BY <1>4, <1>5, <2>1 DEF Publisher, AppendToStream, PublishToChannel
  <2>2. CASE /\ PublishToChannel(e) /\ channel' = Append(channel, e)
             /\ inbox' = [r \in Subscribers |->
                             IF Subscribed(r) THEN Append(inbox[r], Len(channel) + 1)
                                              ELSE inbox[r]]
    <3>1. Len(channel') = Len(channel) + 1 /\ peer' = peer /\ got' = got /\ lossy' = lossy
      BY <1>2, <2>2 DEF PublishToChannel, managerVars
    <3>2. CASE peer[s] = "in"
      <4>1. inbox'[s] = Append(inbox[s], Len(channel) + 1)
        BY <1>1, <2>2, <3>2 DEF Subscribed
      <4>2. s \notin lossy => Upto(got[s], inbox'[s], Len(channel'))
        BY <1>1, <1>2, <3>1, <3>2, <4>1, UptoAppended DEF StreamOK
      <4> QED
        BY <1>1, <3>1, <3>2, <4>2 DEF StreamOK
    <3>3. CASE peer[s] # "in"
      <4>1. inbox'[s] = inbox[s]
        BY <1>1, <2>2, <3>3 DEF Subscribed
      <4> QED
        BY <1>1, <3>1, <3>3, <4>1 DEF StreamOK
    <3> QED
      BY <3>2, <3>3
  <2> QED
    BY <1>5, <2>1, <2>2 DEF Publisher, AppendToStream, PublishToChannel
<1>6. ASSUME NEW t \in Tasks, Step(t) \/ SubscribeFails(t) \/ PollFails(t)
      PROVE  StreamOK(s)'
  <2>1. UNCHANGED <<channel, peer>>
    BY <1>6 DEF Step, Subscribe, SubscribeFails, Receive, Sent, NotSent, PollFails,
       Retry, Stop, busVars
  <2>2. inbox'[s] = inbox[s]
    <3>1. UNCHANGED inbox \/ \E box : inbox' = [inbox EXCEPT ![t] = box]
      BY <1>6 DEF Step, Subscribe, SubscribeFails, Receive, Sent, NotSent, PollFails,
         Retry, Stop
    <3> QED
      BY <1>1, <1>2, <3>1
  <2>3. got'[s] = got[s]
    <3>1. CASE Sent(t)
      <4>1. task[t].to \in WebSockets
        BY <3>1, TaskFacts DEF Sent, Runs, TaskOK, Speaking, Alive, Broadcasting
      <4> QED
        BY <1>1, <1>2, <3>1, <4>1 DEF Sent
    <3>2. CASE ~Sent(t)
      BY <1>6, <3>2 DEF Step, Subscribe, SubscribeFails, Receive, NotSent, PollFails,
         Retry, Stop
    <3> QED
      BY <3>1, <3>2
  <2> QED
    BY <1>4, <2>1, <2>2, <2>3
<1>7. ASSUME NEW w \in WebSockets, Connect(w) \/ Disconnect(w)
      PROVE  StreamOK(s)'
  <2>1. UNCHANGED <<channel, got, inbox>> /\ \E p : peer' = [peer EXCEPT ![w] = p]
    BY <1>7 DEF Connect, Disconnect, busVars
  <2>2. peer'[s] = peer[s]
    BY <1>1, <1>2, <2>1
  <2> QED
    BY <1>4, <2>1, <2>2
<1>8. ASSUME NEW r \in Streams, r # s, Open(r) \/ Serve(r) \/ StreamFails(r)
      PROVE  StreamOK(s)'
  <2>1. UNCHANGED <<channel, peer[s], got[s], inbox[s]>>
    BY <1>1, <1>2, <1>8 DEF Open, Serve, Yield, Close, StreamFails, busVars
  <2> QED
    BY <1>4, <2>1
<1>9. ASSUME UNCHANGED got, peer'[s] \in {"gone", "left"}
      PROVE  StreamOK(s)'
  BY <1>1, <1>3, <1>9 DEF StreamOK
<1>10. CASE Open(s)
  <2>1. /\ got[s] = <<>> /\ inbox[s] = <<>> /\ UNCHANGED <<got, inbox, channel>>
        /\ peer'[s] \in {"in", "left"}
    BY <1>1, <1>2, <1>10 DEF StreamOK, Open, busVars
  <2>2. Upto(<<>>, <<>>, Len(channel)) /\ Gapless(<<>>)
    <3>1. Len(<<>>) = 0 /\ 1..0 = {} /\ 1..(0 - 1) = {}
      OBVIOUS
    <3> QED
      BY <3>1 DEF Upto, Gapless
  <2>3. CASE peer'[s] = "left"
    BY <1>9, <2>1, <2>3
  <2>4. CASE peer'[s] = "in"
    BY <2>1, <2>2, <2>4 DEF StreamOK
  <2> QED
    BY <2>1, <2>3, <2>4
<1>11. CASE Yield(s)
  <2>1. /\ inbox[s] # <<>> /\ peer[s] = "in" /\ UNCHANGED <<channel, peer, lossy>>
        /\ got'[s] = Append(got[s], Head(inbox[s])) /\ inbox'[s] = Tail(inbox[s])
    BY <1>1, <1>2, <1>11 DEF Yield, busVars, managerVars
  <2>2. got'[s] \in Seq(Nat) /\ inbox'[s] \in Seq(Nat)
    BY <1>1 DEF IInv, Types
  <2>3. s \notin lossy => Upto(got'[s], inbox'[s], Len(channel))
    BY <1>1, <1>2, <2>1, UptoHanded DEF StreamOK
  <2>4. s \notin lossy => Gapless(got'[s])
    BY <1>2, <2>2, <2>3, UptoGapless
  <2> QED
    BY <2>1, <2>3, <2>4 DEF StreamOK
<1>12. CASE StreamFails(s)
  BY <1>12 DEF StreamOK, StreamFails
<1>13. CASE Close(s)
  BY <1>1, <1>2, <1>9, <1>13 DEF Close
<1>14. ASSUME NEW c \in Clients, Leave(c)
       PROVE  StreamOK(s)'
  <2>1. CASE c = s
    BY <1>2, <1>9, <1>14, <2>1 DEF Leave
  <2>2. CASE c # s
    <3>1. UNCHANGED <<channel, peer[s], got, inbox>>
      BY <1>1, <1>2, <1>14, <2>2 DEF Leave, busVars
    <3> QED
      BY <1>4, <3>1
  <2> QED
    BY <2>1, <2>2
<1>15. CASE UNCHANGED vars
  BY <1>4, <1>15 DEF vars
<1> QED
  BY <1>5, <1>6, <1>7, <1>8, <1>10, <1>11, <1>12, <1>13, <1>14, <1>15 DEF Next, Serve

-----------------------------------------------------------------------------
(* What a websocket misses *)

\* nobody that connected before v has left
AllStay(v) == \A u \in Earlier(v) : peer[u] # "left"

Has(v, e) == Contains(got[v], e)

\* The broadcast of j.event has come to j.to: everyone before it has the event,
\* and if nobody before it has left, its place in the list is still the index.
Served(j) ==
    /\ j.to \in active \/ peer[j.to] = "left"
    /\ \A v \in Earlier(j.to) :
          (peer[v] = "in" /\ AllStay(v)) => Has(v, j.event)
    /\ (j.to \in active /\ AllStay(j.to)) => Cardinality(UpTo(j.to)) = j.at

NotBehind(v, w) ==
    (peer[v] = "in" /\ AllStay(v)) => \A k \in 1..Len(got[w]) : Has(v, got[w][k])

ListInv ==
    \A w \in WebSockets :
        /\ peer[w] = "in" => w \in active
        /\ peer[w] = "away" => got[w] = <<>>

ServedInv ==
    \A t \in Tasks :
        /\ \A w \in task[t].failed : peer[w] # "in" /\ peer[w] # "away"
        /\ Runs(t, "broadcasting") => Served(task[t])

SocketsInv ==
    /\ ListInv
    /\ ServedInv
    /\ \A w \in WebSockets : \A v \in Earlier(w) : NotBehind(v, w)

LEMMA SocketsInit == Init => SocketsInv
<1> SUFFICES ASSUME Init
             PROVE  SocketsInv
  OBVIOUS
<1>1. \A w \in WebSockets : peer[w] = "away" /\ got[w] = <<>> /\ Len(got[w]) = 0
  BY Kinds DEF Init
<1>2. ListInv
  BY <1>1 DEF ListInv
<1>3. ServedInv
  BY DEF Init, ServedInv, Runs, Idle
<1>4. \A w \in WebSockets : \A v \in Earlier(w) : NotBehind(v, w)
  BY <1>1 DEF NotBehind
<1> QED
  BY <1>2, <1>3, <1>4 DEF SocketsInv

\* A running broadcast is that of the one task that speaks, to a websocket.
LEMMA RunsFacts ==
    ASSUME IInv, NEW t \in Tasks, Runs(t, "broadcasting")
    PROVE  /\ entry = t
           /\ task[t].to \in WebSockets /\ task[t].at \in Nat
           /\ peer[task[t].to] # "away"
           /\ \A u \in Tasks \ {t} : ~Speaking(task[u])
<1>1. TaskOK(t, task[t], inbox[t]) /\ task[t] \in TaskRecord
  BY TaskFacts
<1>2. Broadcasting(task[t], inbox[t]) /\ entry = t
  BY <1>1 DEF TaskOK, Speaking, Runs, Alive
<1>3. \A u \in Tasks : Speaking(task[u]) => entry = u
  BY TaskFacts DEF TaskOK
<1> QED
  BY <1>1, <1>2, <1>3 DEF Broadcasting, TaskRecord

\* what the lemmas need of IInv: the list
LEMMA ListFacts ==
    ASSUME IInv
    PROVE  /\ active \subseteq WebSockets /\ active \subseteq Nat
           /\ \A w \in Nat : /\ IsFiniteSet(UpTo(w))
                             /\ Cardinality(UpTo(w)) \in Nat
<1>1. active \subseteq WebSockets /\ active \subseteq Nat
  BY Kinds DEF IInv, Types
<1>2. ASSUME NEW w \in Nat
      PROVE  IsFiniteSet(UpTo(w)) /\ Cardinality(UpTo(w)) \in Nat
  <2>1. UpTo(w) \subseteq active
    BY DEF UpTo
  <2> QED
    BY <2>1, FS_Subset, FS_CardinalityType DEF IInv, ConnectedInv
<1> QED
  BY <1>1, <1>2

LEMMA RankGrows ==
    ASSUME IInv, NEW v \in Nat, NEW w \in active, v < w
    PROVE  Cardinality(UpTo(v)) < Cardinality(UpTo(w))
<1>1. w \in Nat /\ \A u \in active : u \in Nat
  BY ListFacts
<1>2. w \notin UpTo(v) /\ UpTo(v) \union {w} \subseteq UpTo(w)
  <2>1. \A u \in active : u <= v => u <= w
    BY <1>1
  <2>2. w <= w /\ ~(w <= v)
    BY <1>1
  <2> QED
    BY <2>1, <2>2 DEF UpTo
<1>3. /\ IsFiniteSet(UpTo(v) \union {w})
      /\ Cardinality(UpTo(v) \union {w}) = Cardinality(UpTo(v)) + 1
  BY <1>2, ListFacts, FS_AddElement
<1>4. Cardinality(UpTo(v) \union {w}) <= Cardinality(UpTo(w))
  BY <1>1, <1>2, ListFacts, FS_Subset
<1> QED
  BY <1>1, <1>3, <1>4, ListFacts

\* Nothing happened to the websockets, the list and the broadcast.
LEMMA SocketsAlone ==
    ASSUME IInv, SocketsInv, UNCHANGED active,
           \A w \in WebSockets : peer'[w] = peer[w] /\ got'[w] = got[w],
           \A t \in Tasks : /\ task'[t].failed \subseteq task[t].failed
                            /\ Runs(t, "broadcasting")' => task'[t] = task[t]
    PROVE  SocketsInv'
<1>1. \A v \in WebSockets : Earlier(v) \subseteq WebSockets
  BY DEF Earlier
<1>2. ListInv'
  BY DEF SocketsInv, ListInv
<1>3. ASSUME NEW w \in WebSockets, NEW v \in Earlier(w)
      PROVE  NotBehind(v, w)'
  <2>1. v \in WebSockets /\ NotBehind(v, w)
    BY <1>1, <1>3 DEF SocketsInv
  <2> QED
    BY <1>1, <2>1 DEF NotBehind, AllStay, Has
<1>4. ASSUME NEW t \in Tasks
      PROVE  /\ \A w \in task'[t].failed : peer'[w] # "in" /\ peer'[w] # "away"
             /\ Runs(t, "broadcasting")' => Served(task[t])'
  <2>1. task[t].failed \subseteq WebSockets
    BY TaskFacts DEF TaskRecord
  <2>2. ASSUME Runs(t, "broadcasting")'
        PROVE  Served(task[t])'
    <3>1. task'[t] = task[t] /\ Runs(t, "broadcasting")
      BY <2>2 DEF Runs
    <3>2. Served(task[t]) /\ task[t].to \in WebSockets
      BY <3>1, RunsFacts DEF SocketsInv, ServedInv
    <3> QED
      BY <1>1, <3>1, <3>2 DEF Served, AllStay, Has, UpTo
  <2> QED
    BY <2>1, <2>2 DEF SocketsInv, ServedInv
<1> QED
  BY <1>2, <1>3, <1>4 DEF SocketsInv, ServedInv

\* A client that has left does not come back.
LEMMA StayBefore ==
    ASSUME NEW v \in WebSockets,
           \A u \in WebSockets : peer[u] = "left" => peer'[u] = "left",
           AllStay(v)'
    PROVE  AllStay(v)
BY DEF AllStay, Earlier

\* A websocket goes away; only if it has left it is taken from the list.
LEMMA AwayStep ==
    ASSUME IInv, SocketsInv, NEW w \in WebSockets, NEW p \in {"gone", "left"},
           peer' = [peer EXCEPT ![w] = p], peer[w] \in {"in", "gone"},
           active' \subseteq active, UNCHANGED got,
           \A v \in active \ active' : v = w /\ p = "left",
           \A t \in Tasks : /\ task'[t].failed = task[t].failed
                            /\ Runs(t, "broadcasting")' => task'[t] = task[t]
    PROVE  SocketsInv'
<1>1. /\ peer'[w] = p /\ \A v \in WebSockets \ {w} : peer'[v] = peer[v]
      /\ \A v \in WebSockets : Earlier(v) \subseteq WebSockets
  BY Kinds DEF IInv, Types, Earlier
<1>2. \A v \in WebSockets : /\ peer[v] = "left" => peer'[v] = "left"
                            /\ peer'[v] = "in" => v # w /\ peer[v] = "in"
                            /\ peer'[v] = "away" => v # w /\ peer[v] = "away"
  BY <1>1
<1>3. ListInv'
  BY <1>2 DEF SocketsInv, ListInv
<1>4. ASSUME NEW x \in WebSockets, NEW v \in Earlier(x)
      PROVE  NotBehind(v, x)'
  <2>1. v \in WebSockets /\ NotBehind(v, x)
    BY <1>1, <1>4 DEF SocketsInv
  <2>2. AllStay(v)' => AllStay(v)
    BY <1>2, <2>1, StayBefore
  <2> QED
    BY <1>2, <2>1, <2>2 DEF NotBehind, Has
<1>5. ASSUME NEW t \in Tasks, Runs(t, "broadcasting")'
      PROVE  Served(task[t])'
  <2>1. task'[t] = task[t] /\ Runs(t, "broadcasting")
    BY <1>5 DEF Runs
  <2>2. PICK to \in WebSockets : to = task[t].to
    BY <2>1, RunsFacts
  <2>3. Served(task[t])
    BY <2>1 DEF SocketsInv, ServedInv
  <2>4. to \in active' \/ peer'[to] = "left"
    BY <1>1, <1>2, <2>2, <2>3 DEF Served
  <2>5. \A v \in Earlier(to) :
           (peer'[v] = "in" /\ AllStay(v)') => Has(v, task[t].event)'
    <3> SUFFICES ASSUME NEW v \in Earlier(to), peer'[v] = "in", AllStay(v)'
                 PROVE  Has(v, task[t].event)'
      OBVIOUS
    <3>1. v \in WebSockets /\ peer[v] = "in"
      BY <1>1, <1>2
    <3>2. AllStay(v)
      BY <1>2, <3>1, StayBefore
    <3> QED
      BY <2>1, <2>2, <2>3, <3>1, <3>2 DEF Served, Has
  <2>6. ASSUME to \in active', AllStay(to)'
        PROVE  UpTo(to)' = UpTo(to)
    <3>1. ASSUME NEW v \in active, v <= to
          PROVE  v \in active'
      <4>1. CASE v = to
        BY <2>6, <4>1
      <4>2. CASE v # to
        <5>1. v \in Earlier(to)
          BY <3>1, <4>2, Kinds, ListFacts DEF Earlier
        <5>2. peer'[v] # "left"
          BY <2>6, <5>1 DEF AllStay, Earlier
        <5> QED
          BY <1>1, <5>2
      <4> QED
        BY <4>1, <4>2
    <3> QED
      BY <3>1 DEF UpTo
  <2>7. ASSUME to \in active', AllStay(to)'
        PROVE  Cardinality(UpTo(to))' = task[t].at
    <3>1. AllStay(to)
      BY <1>2, <2>7, StayBefore
    <3>2. Cardinality(UpTo(to)) = task[t].at
      BY <2>2, <2>3, <2>7, <3>1 DEF Served
    <3> QED
      BY <2>6, <2>7, <3>2
  <2> QED
    BY <2>1, <2>2, <2>4, <2>5, <2>7 DEF Served
<1>6. \A t \in Tasks : \A v \in task'[t].failed : peer'[v] # "in" /\ peer'[v] # "away"
  <2>1. \A t \in Tasks : task[t].failed \subseteq WebSockets
    BY TaskFacts DEF TaskRecord
  <2> QED
    BY <1>2, <2>1 DEF SocketsInv, ServedInv
<1> QED
  BY <1>3, <1>4, <1>5, <1>6 DEF SocketsInv, ServedInv

LEMMA ConnectSockets ==
    ASSUME IInv, SocketsInv, NEW w \in WebSockets, Connect(w)
    PROVE  SocketsInv'
<1>1. /\ peer' = [peer EXCEPT ![w] = "in"] /\ peer[w] = "away"
      /\ active' = active \union {w} /\ UNCHANGED got
  BY DEF Connect
<1>2. /\ peer'[w] = "in" /\ \A v \in WebSockets \ {w} : peer'[v] = peer[v]
      /\ \A v \in WebSockets : Earlier(v) \subseteq WebSockets
  BY <1>1, Kinds DEF IInv, Types, Earlier
<1>3. \A v \in WebSockets : peer[v] = "left" => peer'[v] = "left"
  BY <1>1, <1>2
<1>4. \A x \in WebSockets : w < x => peer[x] = "away"
  BY <1>1 DEF IInv, ConnectedInv
<1>5. got[w] = <<>> /\ Len(got[w]) = 0
  BY <1>1 DEF SocketsInv, ListInv
<1>6. \A t \in Tasks : /\ task'[t].failed = task[t].failed
                       /\ Runs(t, "broadcasting")' => task'[t] = task[t]
  <2>1. CASE UNCHANGED task
    BY <2>1
  <2>2. CASE \E u \in Unborn :
               task' = [task EXCEPT ![u] = [task[u] EXCEPT !.pc = "subscribing"]]
    <3>1. PICK u \in Tasks :
             task' = [task EXCEPT ![u] = [task[u] EXCEPT !.pc = "subscribing"]]
      BY <2>2 DEF Unborn
    <3>2. task \in [Tasks -> TaskRecord]
      BY DEF IInv, Types
    <3>3. /\ [task[u] EXCEPT !.pc = "subscribing"].pc = "subscribing"
          /\ [task[u] EXCEPT !.pc = "subscribing"].failed = task[u].failed
      BY <3>2 DEF TaskRecord
    <3> QED
      BY <3>1, <3>2, <3>3 DEF Runs
  <2> QED
    BY <2>1, <2>2 DEF Connect
<1>7. ListInv'
  <2> SUFFICES ASSUME NEW v \in WebSockets
               PROVE  /\ peer'[v] = "in" => v \in active'
                      /\ peer'[v] = "away" => got'[v] = <<>>
    BY DEF ListInv
  <2> QED
    BY <1>1, <1>2 DEF SocketsInv, ListInv
<1>8. ASSUME NEW x \in WebSockets, NEW v \in Earlier(x)
      PROVE  NotBehind(v, x)'
  <2>1. v \in WebSockets /\ NotBehind(v, x) /\ v < x
    BY <1>2, <1>8 DEF SocketsInv, Earlier
  <2>2. CASE v = w
    <3>1. got[x] = <<>> /\ Len(got[x]) = 0
      BY <1>4, <2>1, <2>2 DEF SocketsInv, ListInv
    <3> QED
      BY <1>1, <3>1 DEF NotBehind
  <2>3. CASE v # w
    <3>1. AllStay(v)' => AllStay(v)
      BY <1>3, <2>1, StayBefore
    <3> QED
      BY <1>1, <1>2, <2>1, <2>3, <3>1 DEF NotBehind, Has
  <2> QED
    BY <2>2, <2>3
<1>9. ASSUME NEW t \in Tasks, Runs(t, "broadcasting")'
      PROVE  Served(task[t])'
  <2>1. task'[t] = task[t] /\ Runs(t, "broadcasting")
    BY <1>6, <1>9 DEF Runs
  <2>2. PICK to \in WebSockets : to = task[t].to
    BY <2>1, RunsFacts
  <2>3. Served(task[t]) /\ peer[to] # "away"
    BY <2>1, <2>2, RunsFacts DEF SocketsInv, ServedInv
  <2>4. to # w /\ ~(w <= to)
    BY <1>1, <1>4, <2>3, Kinds DEF IInv, ConnectedInv
  <2>5. UpTo(to)' = UpTo(to)
    BY <1>1, <2>4 DEF UpTo
  <2>6. \A v \in Earlier(to) : v \in WebSockets /\ v # w
    BY <2>4, Kinds DEF Earlier
  <2>7. AllStay(to)' => AllStay(to)
    BY <1>3, StayBefore
  <2>8. \A v \in Earlier(to) : AllStay(v)' => AllStay(v)
    BY <1>3, <2>6, StayBefore
  <2>9. \A v \in Earlier(to) :
           (peer'[v] = "in" /\ AllStay(v)') => Has(v, task[t].event)'
    BY <1>1, <1>2, <2>1, <2>2, <2>3, <2>6, <2>8 DEF Served, Has
  <2>10. to \in active' \/ peer'[to] = "left"
    BY <1>1, <1>3, <2>2, <2>3 DEF Served
  <2>11. (to \in active' /\ AllStay(to)') => Cardinality(UpTo(to))' = task[t].at
    BY <1>1, <2>2, <2>3, <2>4, <2>5, <2>7 DEF Served
  <2> QED
    BY <2>1, <2>2, <2>9, <2>10, <2>11 DEF Served
<1>10. \A t \in Tasks : \A v \in task'[t].failed : peer'[v] # "in" /\ peer'[v] # "away"
  <2>1. \A t \in Tasks : task[t].failed \subseteq WebSockets
    BY TaskFacts DEF TaskRecord
  <2> QED
    BY <1>1, <1>2, <1>6, <2>1 DEF SocketsInv, ServedInv
<1> QED
  BY <1>7, <1>8, <1>9, <1>10 DEF SocketsInv, ServedInv

\* The speaking task turns to w for its broadcast: nobody was left out on the way.
LEMMA ServeNext ==
    ASSUME IInv, NEW j \in TaskRecord, NEW w \in active, j.to = w,
           Cardinality(UpTo(w)) = j.at, UNCHANGED <<peer, active>>,
           \A v \in Earlier(w) : (peer[v] = "in" /\ AllStay(v)) => Has(v, j.event)'
    PROVE  Served(j)'
BY DEF Served, AllStay, UpTo

LEMMA ReceiveSockets ==
    ASSUME IInv, SocketsInv, NEW t \in Tasks, Receive(t)
    PROVE  SocketsInv'
<1>1. UNCHANGED <<peer, active, got>> /\ task[t] \in TaskRecord /\ Speaking(task[t])
  BY TaskFacts DEF Receive, busVars, managerVars, Runs, Speaking, Alive
<1>2. CASE UNCHANGED task
  BY <1>1, <1>2, SocketsAlone
<1>3. CASE SendTo(t, 1, [task[t] EXCEPT !.event = Head(inbox[t])])
  <2>1. PICK event \in Nat : event = Head(inbox[t])
    BY TaskFacts, TailFacts DEF Receive
  <2>2. PICK i \in TaskRecord : i = [task[t] EXCEPT !.event = event]
    BY <1>1, <2>1 DEF TaskRecord
  <2>3. i.failed = task[t].failed
    BY <1>1, <2>2 DEF TaskRecord
  <2>4. PICK w \in active :
           /\ Rank(w) = 1
           /\ task' = [task EXCEPT ![t] =
                         [i EXCEPT !.pc = "broadcasting", !.at = 1, !.to = w]]
    BY <1>3, <2>1, <2>2 DEF SendTo
  <2>5. w \in WebSockets /\ w \in Nat
    BY ListFacts
  <2>6. PICK j \in TaskRecord :
           j = [i EXCEPT !.pc = "broadcasting", !.at = 1, !.to = w]
    <3>1. [i EXCEPT !.pc = "broadcasting"] \in TaskRecord
      BY DEF TaskRecord, Alive
    <3> QED
      BY <2>5, <3>1 DEF TaskRecord
  <2>7. j.to = w /\ j.at = 1 /\ j.failed = task[t].failed
    BY <2>3, <2>6 DEF TaskRecord
  <2>8. /\ task'[t] = j /\ \A u \in Tasks \ {t} : task'[u] = task[u] /\ ~Speaking(task[u])
    <3>1. task \in [Tasks -> TaskRecord] /\ \A u \in Tasks : Speaking(task[u]) => entry = u
      BY TaskFacts DEF TaskOK, IInv, Types
    <3> QED
      BY <1>1, <2>4, <2>6, <3>1
  <2>9. Cardinality(UpTo(w)) = 1
    BY <2>4 DEF Rank, UpTo
  <2>10. \A v \in Earlier(w) : peer[v] # "in"
    <3> SUFFICES ASSUME NEW v \in Earlier(w), peer[v] = "in"
                 PROVE  FALSE
      OBVIOUS
    <3>1. v \in active /\ v \in Nat /\ v < w
      BY Kinds DEF SocketsInv, ListInv, Earlier
    <3>2. v \in UpTo(v)
      BY <3>1 DEF UpTo
    <3>3. Cardinality(UpTo(v)) # 0
      BY <3>1, <3>2, ListFacts, FS_EmptySet
    <3> QED
      BY <2>9, <3>1, <3>3, ListFacts, RankGrows
  <2>11. Served(j)'
    BY <1>1, <2>7, <2>9, <2>10, ServeNext
  <2>12. ServedInv'
    <3> SUFFICES ASSUME NEW u \in Tasks
                 PROVE  /\ \A v \in task'[u].failed : peer'[v] # "in" /\ peer'[v] # "away"
                        /\ Runs(u, "broadcasting")' => Served(task[u])'
      BY DEF ServedInv
    <3>1. task'[u].failed = task[u].failed
      BY <2>7, <2>8
    <3>2. u # t => ~Runs(u, "broadcasting")'
      BY <2>8 DEF Runs, Speaking, Alive
    <3>3. u = t => Served(task[u])'
      BY <2>8, <2>11
    <3> QED
      BY <1>1, <3>1, <3>2, <3>3 DEF SocketsInv, ServedInv
  <2> QED
    BY <1>1, <2>12 DEF SocketsInv, ListInv, NotBehind, AllStay, Has
<1> QED
  BY <1>2, <1>3 DEF Receive

\* Those that connected later than the one being served come later in the list,
\* unless somebody before them has left.
LEMMA LaterRank ==
    ASSUME IInv, SocketsInv, NEW t \in Tasks, Runs(t, "broadcasting"),
           NEW v \in WebSockets, peer[v] = "in", AllStay(v), task[t].to < v
    PROVE  v \in active /\ task[t].at < Cardinality(UpTo(v))
<1>1. PICK to \in WebSockets : to = task[t].to
  BY RunsFacts
<1>2. to \in Nat /\ v \in Nat /\ v \in active
  BY Kinds DEF SocketsInv, ListInv
<1>3. to \in Earlier(v) /\ peer[to] # "left"
  BY <1>1 DEF Earlier, AllStay
<1>4. AllStay(to)
  BY <1>2, <1>3, Kinds DEF AllStay, Earlier
<1>5. Served(task[t])
  BY DEF SocketsInv, ServedInv
<1>6. Cardinality(UpTo(to)) = task[t].at
  BY <1>1, <1>3, <1>4, <1>5 DEF Served
<1> QED
  BY <1>1, <1>2, <1>6, RankGrows

LEMMA AdvanceSockets ==
    ASSUME IInv, SocketsInv, NEW t \in Tasks, Runs(t, "broadcasting"),
           NEW to \in WebSockets, to = task[t].to,
           NEW event \in Nat, event = task[t].event,
           NEW failed \in SUBSET WebSockets, Advance(t, failed), UNCHANGED peer,
           \A w \in failed : peer[w] # "in" /\ peer[w] # "away",
           \A w \in WebSockets : w # to => got'[w] = got[w],
           \A k \in 1..Len(got'[to]) :
              Contains(got[to], got'[to][k]) \/ got'[to][k] = event,
           \A e : Has(to, e) => Has(to, e)',
           peer[to] = "in" => Has(to, event)'
    PROVE  SocketsInv'
<1>1. PICK n \in Nat : n = task[t].at
  BY RunsFacts
<1>2. Served(task[t]) /\ peer[to] # "away"
  BY RunsFacts DEF SocketsInv, ServedInv
<1>3. /\ task[t] \in TaskRecord /\ task \in [Tasks -> TaskRecord]
      /\ \A u \in Tasks \ {t} : ~Speaking(task[u])
  BY TaskFacts, RunsFacts DEF IInv, Types
<1>4. \A w \in WebSockets : w \in Nat /\ Earlier(w) \subseteq WebSockets
  BY Kinds DEF Earlier
<1>5. \A v \in WebSockets : \A e : Has(v, e) => Has(v, e)'
  BY DEF Has
\* everyone before the one being served has the event, and so has that one
<1>6. ASSUME NEW v \in WebSockets, v < to \/ v = to, peer[v] = "in", AllStay(v)
      PROVE  Has(v, event)'
  <2>1. CASE v = to
    BY <1>6, <2>1
  <2>2. CASE v < to
    <3>1. Has(v, event)
      BY <1>2, <1>6, <2>2 DEF Served, Earlier
    <3> QED
      BY <1>5, <3>1
  <2> QED
    BY <1>6, <2>1, <2>2
<1>7. ASSUME NEW w \in WebSockets, NEW v \in Earlier(w)
      PROVE  NotBehind(v, w)'
  <2>1. v \in WebSockets /\ v < w /\ NotBehind(v, w)
    BY <1>4 DEF Earlier, SocketsInv
  <2> SUFFICES ASSUME peer[v] = "in", AllStay(v), NEW k \in 1..Len(got'[w]),
                      NEW e, e = got'[w][k]
               PROVE  Has(v, e)'
    BY DEF NotBehind, AllStay, Has
  <2>2. Contains(got[w], e) => Has(v, e)
    BY <2>1 DEF NotBehind, Contains
  <2>3. CASE w = to
    <3>1. Contains(got[w], e) \/ e = event
      BY <2>3
    <3>2. Has(v, event)'
      BY <1>6, <2>1, <2>3
    <3> QED
      BY <1>5, <2>1, <2>2, <3>1, <3>2
  <2>4. CASE w # to
    <3>1. Contains(got[w], e)
      BY <2>4 DEF Contains
    <3> QED
      BY <1>5, <2>1, <2>2, <3>1
  <2> QED
    BY <2>3, <2>4
<1>8. ASSUME NEW j, task' = [task EXCEPT ![t] = j],
             \A w \in j.failed : peer[w] # "in" /\ peer[w] # "away",
             (j.pc = "broadcasting" /\ ~j.cancelled) => Served(j)'
      PROVE  ServedInv'
  <2> SUFFICES ASSUME NEW u \in Tasks
               PROVE  /\ \A v \in task'[u].failed : peer'[v] # "in" /\ peer'[v] # "away"
                      /\ Runs(u, "broadcasting")' => Served(task[u])'
    BY DEF ServedInv
  <2>1. CASE u = t
    <3>1. task'[u] = j
      BY <1>3, <1>8, <2>1
    <3> QED
      BY <1>8, <3>1 DEF Runs
  <2>2. CASE u # t
    <3>1. task'[u] = task[u] /\ ~Speaking(task[u])
      BY <1>3, <1>8, <2>2
    <3> QED
      BY <3>1 DEF Runs, Speaking, Alive, SocketsInv, ServedInv
  <2> QED
    BY <2>1, <2>2
<1>9. CASE Finish(t, failed)
  <2>1. PICK j : j = [Idle EXCEPT !.pc = "polling"]
    OBVIOUS
  <2>2. j.pc = "polling" /\ j.failed = {} /\ task' = [task EXCEPT ![t] = j]
    BY <1>9, <2>1 DEF Finish, Idle
  <2>3. ServedInv'
    BY <1>8, <2>2
  <2>4. ListInv'
    <3> SUFFICES ASSUME NEW w \in WebSockets
                 PROVE  /\ peer[w] = "in" => w \in active'
                        /\ peer[w] = "away" => got'[w] = <<>>
      BY DEF ListInv
    <3> QED
      BY <1>2, <1>9 DEF Finish, SocketsInv, ListInv
  <2> QED
    BY <1>7, <2>3, <2>4 DEF SocketsInv
<1>10. CASE /\ SendTo(t, n + 1, [task[t] EXCEPT !.failed = failed])
            /\ UNCHANGED active
  <2>1. PICK i \in TaskRecord : i = [task[t] EXCEPT !.failed = failed]
    BY <1>3 DEF TaskRecord
  <2>2. i.failed = failed /\ i.event = event
    BY <1>3, <2>1 DEF TaskRecord
  <2>3. PICK m \in Nat : m = n + 1
    OBVIOUS
  <2>4. PICK w \in active :
           /\ Rank(w) = m
           /\ task' = [task EXCEPT ![t] =
                         [i EXCEPT !.pc = "broadcasting", !.at = m, !.to = w]]
    BY <1>10, <2>1, <2>3 DEF SendTo
  <2>5. w \in WebSockets /\ w \in Nat
    BY ListFacts
  <2>6. PICK j \in TaskRecord :
           j = [i EXCEPT !.pc = "broadcasting", !.at = m, !.to = w]
    <3>1. [i EXCEPT !.pc = "broadcasting"] \in TaskRecord
      BY DEF TaskRecord, Alive
    <3> QED
      BY <2>5, <3>1 DEF TaskRecord
  <2>7. j.to = w /\ j.at = m /\ j.failed = failed /\ j.event = event
    BY <2>2, <2>6 DEF TaskRecord
  <2>8. Cardinality(UpTo(w)) = m
    BY <2>4 DEF Rank, UpTo
  <2>9. ASSUME NEW v \in Earlier(w), peer[v] = "in", AllStay(v)
        PROVE  Has(v, event)'
    <3>1. v \in WebSockets /\ v \in Nat /\ v < w /\ to \in Nat
      BY <1>4 DEF Earlier
    <3>2. CASE to < v
      <4>1. v \in active /\ n < Cardinality(UpTo(v))
        BY <1>1, <2>9, <3>1, <3>2, LaterRank
      <4>2. Cardinality(UpTo(v)) < Cardinality(UpTo(w))
        BY <3>1, RankGrows
      <4> QED
        BY <2>3, <2>5, <2>8, <3>1, <4>1, <4>2, ListFacts
    <3> QED
      BY <1>6, <2>9, <3>1, <3>2
  <2>10. Served(j)'
    BY <1>10, <2>7, <2>8, <2>9, ServeNext
  <2>11. ServedInv'
    BY <1>8, <2>4, <2>6, <2>7, <2>10
  <2>12. ListInv'
    <3> SUFFICES ASSUME NEW v \in WebSockets
                 PROVE  /\ peer[v] = "in" => v \in active'
                        /\ peer[v] = "away" => got'[v] = <<>>
      BY DEF ListInv
    <3> QED
      BY <1>2, <1>10 DEF SocketsInv, ListInv
  <2> QED
    BY <1>7, <2>11, <2>12 DEF SocketsInv
<1> QED
  BY <1>1, <1>9, <1>10 DEF Advance

LEMMA SentSockets ==
    ASSUME IInv, SocketsInv, NEW t \in Tasks, Sent(t) \/ NotSent(t)
    PROVE  SocketsInv'
<1>1. Runs(t, "broadcasting") /\ UNCHANGED peer /\ task[t] \in TaskRecord
  BY TaskFacts DEF Sent, NotSent
<1>2. PICK to \in WebSockets : to = task[t].to
  BY <1>1, RunsFacts
<1>3. PICK event \in Nat : event = task[t].event
  BY <1>1 DEF TaskRecord
<1>4. /\ task[t].failed \in SUBSET WebSockets
      /\ \A w \in task[t].failed : peer[w] # "in" /\ peer[w] # "away"
  BY <1>1 DEF TaskRecord, SocketsInv, ServedInv
<1>5. peer[to] # "away" /\ to \in Clients /\ got \in [Clients -> Seq(Nat)]
  BY <1>1, <1>2, RunsFacts, Kinds DEF IInv, Types
<1>6. CASE Sent(t)
  <2>1. /\ got' = [got EXCEPT ![to] = Append(got[to], event)]
        /\ Advance(t, task[t].failed)
    BY <1>2, <1>3, <1>6 DEF Sent
  <2>2. got'[to] = Append(got[to], event) /\ got[to] \in Seq(Nat)
    BY <1>5, <2>1
  <2>3. \A w \in WebSockets : w # to => got'[w] = got[w]
    BY <1>5, <2>1, Kinds
  <2>4. \A k \in 1..Len(got'[to]) :
           Contains(got[to], got'[to][k]) \/ got'[to][k] = event
    BY <2>2, AppendFacts DEF Contains
  <2>5. Has(to, event)' /\ \A e : Has(to, e) => Has(to, e)'
    BY <2>2, AppendContains DEF Has
  <2> QED
    BY <1>1, <1>2, <1>3, <1>4, <2>1, <2>3, <2>4, <2>5, AdvanceSockets
<1>7. CASE NotSent(t)
  <2>1. UNCHANGED got /\ peer[to] # "in"
    BY <1>2, <1>7 DEF NotSent
  <2>2. PICK failed \in {task[t].failed, task[t].failed \union {to}} : Advance(t, failed)
    BY <1>2, <1>7 DEF NotSent
  <2>3. /\ failed \in SUBSET WebSockets
        /\ \A w \in failed : peer[w] # "in" /\ peer[w] # "away"
    BY <1>4, <1>5, <2>1
  <2>4. \A k \in 1..Len(got'[to]) :
           Contains(got[to], got'[to][k]) \/ got'[to][k] = event
    BY <2>1 DEF Contains
  <2>5. \A e : Has(to, e) => Has(to, e)'
    BY <2>1 DEF Has
  <2> QED
    BY <1>1, <1>2, <1>3, <2>1, <2>2, <2>3, <2>4, <2>5, AdvanceSockets
<1> QED
  BY <1>6, <1>7

LEMMA SocketsStep ==
    ASSUME IInv, SocketsInv, [Next]_vars
    PROVE  SocketsInv'
<1>1. /\ \A w \in WebSockets : w \in Clients /\ w \notin Streams
      /\ peer \in [Clients -> {"away", "in", "gone", "left"}]
      /\ got \in [Clients -> Seq(Nat)] /\ task \in [Tasks -> TaskRecord]
  BY Kinds DEF IInv, Types
<1>2. ASSUME UNCHANGED <<active, task>>,
             \A w \in WebSockets : peer'[w] = peer[w] /\ got'[w] = got[w]
      PROVE  SocketsInv'
  BY <1>2, SocketsAlone
<1>3. ASSUME NEW e \in Events, Publisher(e)
      PROVE  SocketsInv'
  BY <1>2, <1>3 DEF Publisher, AppendToStream, PublishToChannel, managerVars
<1>4. ASSUME NEW t \in Tasks, \/ Subscribe(t) \/ SubscribeFails(t) \/ PollFails(t)
                              \/ Retry(t) \/ Stop(t)
      PROVE  SocketsInv'
  <2>1. UNCHANGED <<peer, active, got>>
    BY <1>4 DEF Subscribe, SubscribeFails, PollFails, Retry, Stop, managerVars
  <2>2. PICK j : /\ task' = [task EXCEPT ![t] = j]
                 /\ j.failed \subseteq task[t].failed /\ j.pc # "broadcasting"
    <3>1. CASE Stop(t)
      <4>1. PICK j : j = [Idle EXCEPT !.pc = "stopped"]
        OBVIOUS
      <4>2. j.failed = {} /\ j.pc = "stopped" /\ task' = [task EXCEPT ![t] = j]
        BY <3>1, <4>1 DEF Stop, Idle
      <4> QED
        BY <4>2
    <3>2. CASE Subscribe(t) \/ SubscribeFails(t) \/ PollFails(t) \/ Retry(t)
      <4>1. PICK pc \in {"polling", "dead", "backoff"} :
               task' = [task EXCEPT ![t] = [task[t] EXCEPT !.pc = pc]]
        BY <3>2 DEF Subscribe, SubscribeFails, PollFails, Retry
      <4>2. PICK j : j = [task[t] EXCEPT !.pc = pc]
        OBVIOUS
      <4>3. j.failed = task[t].failed /\ j.pc = pc
        BY <1>1, <4>2 DEF TaskRecord
      <4> QED
        BY <4>1, <4>2, <4>3
    <3> QED
      BY <1>4, <3>1, <3>2
  <2>3. \A u \in Tasks : /\ task'[u].failed \subseteq task[u].failed
                         /\ Runs(u, "broadcasting")' => task'[u] = task[u]
    BY <1>1, <2>2 DEF Runs
  <2> QED
    BY <2>1, <2>3, SocketsAlone
<1>5. ASSUME NEW s \in Streams, Open(s) \/ Serve(s) \/ StreamFails(s)
      PROVE  SocketsInv'
  <2>1. /\ UNCHANGED <<active, task>>
        /\ UNCHANGED peer \/ \E p : peer' = [peer EXCEPT ![s] = p]
        /\ UNCHANGED got \/ \E q : got' = [got EXCEPT ![s] = q]
    BY <1>5 DEF Open, Serve, Yield, Close, StreamFails, managerVars
  <2>2. \A w \in WebSockets : peer'[w] = peer[w] /\ got'[w] = got[w]
    BY <1>1, <2>1
  <2> QED
    BY <1>2, <2>1, <2>2
<1>6. ASSUME NEW w \in WebSockets, Leave(w) \/ Disconnect(w)
      PROVE  SocketsInv'
  <2>1. CASE Leave(w)
    BY <2>1, AwayStep DEF Leave, managerVars
  <2>2. CASE Disconnect(w)
    <3>1. /\ peer' = [peer EXCEPT ![w] = "left"] /\ peer[w] = "gone" /\ UNCHANGED got
          /\ active' = active \ {w}
      BY <2>2 DEF Disconnect
    <3>2. \A t \in Tasks : /\ task'[t].failed = task[t].failed
                           /\ Runs(t, "broadcasting")' => task'[t] = task[t]
      <4>1. CASE UNCHANGED task
        BY <4>1
      <4>2. CASE task' = [task EXCEPT ![entry] = [task[entry] EXCEPT !.cancelled = TRUE]]
        <5>1. \A t \in Tasks :
                 /\ [task[t] EXCEPT !.cancelled = TRUE].cancelled
                 /\ [task[t] EXCEPT !.cancelled = TRUE].failed = task[t].failed
          BY <1>1 DEF TaskRecord
        <5> QED
          BY <1>1, <4>2, <5>1 DEF Runs
      <4> QED
        BY <2>2, <4>1, <4>2 DEF Disconnect
    <3> QED
      BY <3>1, <3>2, AwayStep
  <2> QED
    BY <1>6, <2>1, <2>2
<1>7. ASSUME NEW c \in Clients, Leave(c)
      PROVE  SocketsInv'
  <2>1. CASE c \in WebSockets
    BY <1>6, <1>7, <2>1
  <2>2. CASE c \notin WebSockets
    <3>1. /\ UNCHANGED <<active, task, got>> /\ peer' = [peer EXCEPT ![c] = "gone"]
      BY <1>7 DEF Leave, managerVars
    <3> QED
      BY <1>1, <1>2, <2>2, <3>1
  <2> QED
    BY <2>1, <2>2
<1>8. CASE UNCHANGED vars
  BY <1>2, <1>8 DEF vars
<1> QED
  BY <1>3, <1>4, <1>5, <1>6, <1>7, <1>8, ConnectSockets, ReceiveSockets, SentSockets
     DEF Next, Step

\* A stream has every event between two that it has, and of two websockets the one
\* that connected earlier has all that the other has, unless one before it left.
THEOREM NothingMissed == Spec => []MissesNothing
<1>1. Init => StreamsInv
  <2> SUFFICES ASSUME Init, NEW s \in Streams
               PROVE  StreamOK(s)
    BY DEF StreamsInv
  <2>1. peer[s] = "away" /\ got[s] = <<>> /\ inbox[s] = <<>> /\ Len(<<>>) = 0
    BY Kinds DEF Init
  <2> QED
    BY <2>1 DEF StreamOK, Gapless
<1>2. IInv /\ StreamsInv /\ SocketsInv => MissesNothing
  <2> SUFFICES ASSUME IInv, StreamsInv, SocketsInv
               PROVE  MissesNothing
    OBVIOUS
  <2>1. \A s \in Streams \ lossy : \A k \in 1..Len(got[s]) - 1 :
           got[s][k + 1] = got[s][k] + 1
    BY DEF StreamsInv, StreamOK, Gapless
  <2>2. ASSUME NEW w \in WebSockets, NEW v \in Earlier(w), peer[v] = "in", AllStay(v)
        PROVE  ToSet(got[w]) \subseteq ToSet(got[v])
    <3>1. v \in WebSockets /\ NotBehind(v, w)
      BY DEF SocketsInv, Earlier
    <3>2. got[v] \in Seq(Nat) /\ got[w] \in Seq(Nat)
      BY <3>1, Kinds DEF IInv, Types
    <3>3. \A k \in 1..Len(got[w]) : \E i \in 1..Len(got[v]) : got[v][i] = got[w][k]
      BY <2>2, <3>1 DEF NotBehind, Has, Contains
    <3>4. DOMAIN got[w] = 1..Len(got[w]) /\ DOMAIN got[v] = 1..Len(got[v])
      BY <3>2
    <3> QED
      BY <3>3, <3>4 DEF ToSet
  <2> QED
    BY <2>1, <2>2 DEF MissesNothing, AllStay
<1> QED
  BY <1>1, <1>2, InitInv, NextInv, StreamsStep, SocketsInit, SocketsStep, PTL DEF Spec
=============================================================================
