------------------------------- MODULE Notify -------------------------------
(***************************************************************************)
(* Push notifications to the devices of one user: DeviceRepository, the    *)
(* two entry points of NotificationService and the OneSignal provider with *)
(* its retries.  A batch is one call of send_to_user or send_to_devices in *)
(* a session of its own; its sends run concurrently under asyncio.gather,  *)
(* and what they return is settled afterwards, one result at a time.       *)
(*                                                                         *)
(* NotificationService does not commit: the caller that does is external,  *)
(* as is OneSignal, which is modelled by the answers that send() tells     *)
(* apart.  A device is its (user_id, notification_token).                  *)
(***************************************************************************)
EXTENDS Naturals, Sequences, SequencesExt, FiniteSets, Relation

CONSTANTS
    Devices,
    Platforms,
    Batches,
    Targets,        \* Targets[b]: the ids send_to_devices is given, Nil for send_to_user
    Modes,          \* Modes[b]: the settings b's process may run with
    PlatformsOf,    \* PlatformsOf[d]: the platforms a registration of d may name
    Faulty,         \* <<b, d>>: the sends whose requests may go wrong
    MayRegister, MayLeave, MayDelete,   \* who registers again, unsubscribes, is deleted
    Gone,           \* the devices whose app was removed before the calls begin
    MayAbort,       \* the batches whose caller may roll back
    Nil

\* "off": NOTIFICATIONS_ENABLED is false; "unset": OneSignal's keys are missing
Mode == {"on", "off", "unset"}

ASSUME DevicesAssumption == IsFiniteSet(Devices)
\* the caller of send_to_devices is external; it names a device once, and for no
\* device at all the call would return at once
ASSUME TargetsAssumption ==
    \A b \in Batches :
        \/ Targets[b] = Nil
        \/ /\ Targets[b] \in Seq(Devices) \ {<<>>}
           /\ \A i, j \in DOMAIN Targets[b] : Targets[b][i] = Targets[b][j] => i = j
ASSUME InputsAssumption ==
    /\ Modes \in [Batches -> SUBSET Mode]
    /\ PlatformsOf \in [Devices -> SUBSET Platforms]
    /\ Faulty \subseteq Batches \X Devices
    /\ MayRegister \union MayLeave \union MayDelete \union Gone \subseteq Devices

VARIABLES
    row,            \* devices: "absent", "active" or "inactive"
    platform,       \* devices.platform
    subscribed,     \* the tokens OneSignal accepts
    batch,          \* the calls
    pushed          \* how often a batch's notification has reached a device

vars == <<row, platform, subscribed, batch, pushed>>

MaxRetries == 2

Result == {"sent", "invalid_token", "error"}
Task == [state : {"ready"} \union Result, attempt : 0 .. MaxRetries]
Stats == [sent : 0 .. Cardinality(Devices), failed : 0 .. Cardinality(Devices),
          deactivated : 0 .. Cardinality(Devices)]

NoTask == [state |-> "ready", attempt |-> 0]
NoStats == [sent |-> 0, failed |-> 0, deactivated |-> 0]
NoBatch == [pc |-> "idle", mode |-> "on", asked |-> 0, list |-> <<>>, order |-> <<>>,
            task |-> [d \in Devices |-> NoTask], stats |-> NoStats, off |-> {}]

\* the app registers every device once before the calls begin
Init ==
    /\ row = [d \in Devices |-> "active"]
    /\ platform \in [Devices -> Platforms]
    /\ \A d \in Devices : platform[d] \in PlatformsOf[d]
    /\ subscribed = Devices \ Gone
    /\ batch = [b \in Batches |-> NoBatch]
    /\ pushed = [b \in Batches |-> [d \in Devices |-> 0]]

At(b, pc) == batch[b].pc = pc
Set(b, call) == batch' = [batch EXCEPT ![b] = call]

Open(b) == batch[b].pc \in {"reading", "sending", "settling", "returned"}

\* rows that an open transaction has updated stay locked
Locked(d) == \E b \in Batches : Open(b) /\ d \in batch[b].off

-----------------------------------------------------------------------------
(* The devices. *)

\* upsert: a row of this (user_id, token) is updated and becomes active again
Register(d) ==
    /\ d \in MayRegister
    /\ ~ Locked(d)
    /\ \E p \in PlatformsOf[d] : platform' = [platform EXCEPT ![d] = p]
    /\ row' = [row EXCEPT ![d] = "active"]
    /\ subscribed' = subscribed \union {d}
    /\ UNCHANGED <<batch, pushed>>

Delete(d) ==
    /\ d \in MayDelete
    /\ row[d] # "absent"
    /\ ~ Locked(d)
    /\ row' = [row EXCEPT ![d] = "absent"]
    /\ UNCHANGED <<platform, subscribed, batch, pushed>>

\* the user turns notifications off, or removes the app
Leave(d) ==
    /\ d \in MayLeave \intersect subscribed
    /\ subscribed' = subscribed \ {d}
    /\ UNCHANGED <<row, platform, batch, pushed>>

-----------------------------------------------------------------------------
(* The devices a batch sends to. *)

Entry(d) == [id |-> d, platform |-> platform[d]]
ActiveNow == {Entry(d) : d \in {e \in Devices : row[e] = "active"}}

\* grouped by platform, the platforms in the order of their first device: a device
\* moves behind those whose platform comes up before its own
Grouped(list) ==
    LET Places == 1 .. Len(list)
        Ahead(i) == {k \in Places : \A m \in 1 .. k : list[m].platform # list[i].platform}
        Place(i) == Cardinality({j \in Places :
                        IF Ahead(j) = Ahead(i) THEN j <= i ELSE Ahead(j) \subseteq Ahead(i)})
    IN [n \in Places |-> list[CHOOSE i \in Places : Place(i) = n]]

\* the state of a batch once its devices are known
Gather(call, list, order) ==
    [call EXCEPT !.list = list, !.order = order,
                 !.pc = IF list = <<>> THEN "returned" ELSE "sending"]

\* the rows come in any order: the query has no ORDER BY
ReadUser(b) ==
    /\ At(b, "idle")
    /\ Targets[b] = Nil
    /\ \E mode \in Modes[b] : \E list \in SetToSeqs(ActiveNow) :
          Set(b, Gather([batch[b] EXCEPT !.mode = mode], list, Grouped(list)))
    /\ UNCHANGED <<row, platform, subscribed, pushed>>

\* one SELECT for each id: what they see may change between them
ReadDevice(b) ==
    /\ Targets[b] # Nil
    /\ batch[b].pc \in {"idle", "reading"}
    /\ LET n == batch[b].asked + 1
           list == IF row[Targets[b][n]] = "active"
                   THEN Append(batch[b].list, Entry(Targets[b][n])) ELSE batch[b].list
           read(mode) == [batch[b] EXCEPT !.mode = mode, !.asked = n]
       IN \E mode \in IF n = 1 THEN Modes[b] ELSE {batch[b].mode} :
             Set(b, IF n < Len(Targets[b])
                    THEN [read(mode) EXCEPT !.list = list, !.pc = "reading"]
                    ELSE Gather(read(mode), list, list))
    /\ UNCHANGED <<row, platform, subscribed, pushed>>

-----------------------------------------------------------------------------
(* One send. *)

Sends(b, d) == At(b, "sending") /\ \E i \in 1 .. Len(batch[b].order) : batch[b].order[i].id = d
State(b, d) == batch[b].task[d].state
Becomes(b, d, state) == Set(b, [batch[b] EXCEPT !.task[d].state = state])

\* the no-op provider, and the error of get_notification_provider
WithoutProvider(b, d) ==
    /\ Sends(b, d)
    /\ State(b, d) = "ready"
    /\ batch[b].mode # "on"
    /\ Becomes(b, d, IF batch[b].mode = "off" THEN "sent" ELSE "error")
    /\ UNCHANGED <<row, platform, subscribed, pushed>>

\* How a request may end: OneSignal accepts it or calls the token invalid, be it
\* with 200 or 4xx; no connection, no answer in time or a 5xx; another 4xx, or a
\* 200 whose body is no JSON.
Answers(b, d) ==
    {IF d \in subscribed THEN "sent" ELSE "invalid_token"}
        \union (IF <<b, d>> \in Faulty THEN {"again", "error"} ELSE {})

\* a request that did not succeed may have reached the device all the same
Reached(b, d, answer) ==
    IF d \notin subscribed THEN {0} ELSE IF answer = "sent" THEN {1} ELSE {0, 1}

\* once more: the next attempt
Again(b, d) == Set(b, [batch[b] EXCEPT !.task[d].attempt = @ + 1])

\* mutant: an attempt too many
Retry_OneMore(b, d) ==
    IF batch[b].task[d].attempt <= MaxRetries THEN Again(b, d) ELSE Becomes(b, d, "error")

\* mutant: the loop ends without raising
Retry_Lenient(b, d) ==
    IF batch[b].task[d].attempt < MaxRetries THEN Again(b, d) ELSE Becomes(b, d, "sent")

\* again, after a pause
Retry(b, d) ==
    IF batch[b].task[d].attempt < MaxRetries THEN Again(b, d) ELSE Becomes(b, d, "error")

Attempt(b, d) ==
    /\ Sends(b, d)
    /\ State(b, d) = "ready"
    /\ batch[b].mode = "on"
    /\ \E answer \in Answers(b, d) :
          /\ IF answer = "again" THEN Retry(b, d) ELSE Becomes(b, d, answer)
          /\ \E n \in Reached(b, d, answer) : pushed' = [pushed EXCEPT ![b][d] = @ + n]
    /\ UNCHANGED <<row, platform, subscribed>>

-----------------------------------------------------------------------------
(* The results. *)

Settled(b) == batch[b].stats.sent + batch[b].stats.failed

\* gather: all of them have returned
Collect(b) ==
    /\ At(b, "sending")
    /\ \A i \in 1 .. Len(batch[b].order) : State(b, batch[b].order[i].id) \in Result
    /\ Set(b, [batch[b] EXCEPT !.pc = "settling"])
    /\ UNCHANGED <<row, platform, subscribed, pushed>>

\* the n-th result, and the device it is taken to belong to
ResultAt(b, n) == State(b, batch[b].order[n].id)

\* mutant: the results are matched with the ids that were asked for, active or not
DeviceAt_Target(b, n) == IF Targets[b] = Nil THEN batch[b].list[n].id ELSE Targets[b][n]

DeviceAt(b, n) == batch[b].list[n].id

\* the UPDATE that the next result calls for, on a row that is still there
ToDeactivate(b) ==
    LET n == Settled(b) + 1
    IN IF At(b, "settling") /\ n <= Len(batch[b].order) /\ ResultAt(b, n) = "invalid_token"
       THEN {DeviceAt(b, n)} \ {d \in Devices : row[d] = "absent"}
       ELSE {}

WaitsFor(b, c) == b # c /\ Open(c) /\ ToDeactivate(b) \intersect batch[c].off # {}

Settle(b) ==
    /\ At(b, "settling")
    /\ \A c \in Batches : ~ WaitsFor(b, c)
    /\ LET n == Settled(b) + 1
           stats == batch[b].stats
       IN Set(b, [batch[b] EXCEPT
             !.off = @ \union ToDeactivate(b),
             !.stats = CASE ResultAt(b, n) = "sent" -> [stats EXCEPT !.sent = @ + 1]
                         [] ResultAt(b, n) = "invalid_token" ->
                                [stats EXCEPT !.failed = @ + 1, !.deactivated = @ + 1]
                         [] OTHER -> [stats EXCEPT !.failed = @ + 1],
             !.pc = IF n = Len(batch[b].order) THEN "returned" ELSE "settling"])
    /\ UNCHANGED <<row, platform, subscribed, pushed>>

\* the caller commits
Commit(b) ==
    /\ At(b, "returned")
    /\ row' = [d \in Devices |-> IF d \in batch[b].off THEN "inactive" ELSE row[d]]
    /\ Set(b, [batch[b] EXCEPT !.pc = "done"])
    /\ UNCHANGED <<platform, subscribed, pushed>>

Rollback(b) ==
    /\ Set(b, [batch[b] EXCEPT !.pc = "aborted"])
    /\ UNCHANGED <<row, platform, subscribed, pushed>>

\* the caller, or its process, fails
Abort(b) == b \in MayAbort /\ Open(b) /\ Rollback(b)

\* mutant: nobody resolves the deadlock
Victim_None(b) == FALSE /\ Rollback(b)

\* Batches that deactivate the same devices in different orders wait for each
\* other in a circle; PostgreSQL aborts one of them.
Victim(b) ==
    /\ TransitiveClosure([e \in Batches \X Batches |-> WaitsFor(e[1], e[2])], Batches)[b, b]
    /\ Rollback(b)

-----------------------------------------------------------------------------
Step(b) ==
    \/ ReadUser(b) \/ ReadDevice(b)
    \/ \E d \in Devices : WithoutProvider(b, d) \/ Attempt(b, d)
    \/ Collect(b) \/ Settle(b) \/ Commit(b) \/ Victim(b)

Next ==
    \/ \E d \in Devices : Register(d) \/ Delete(d) \/ Leave(d)
    \/ \E b \in Batches : Step(b) \/ Abort(b)

\* Requests time out and pauses end: every send of a batch goes on, and so does
\* the batch; its caller commits.  A step of one send cannot be put off by the
\* others, as each of them comes to an end.
Fairness == \A b \in Batches : WF_vars(Step(b) /\ Open(b))

Spec == Init /\ [][Next]_vars
FairSpec == Spec /\ Fairness

-----------------------------------------------------------------------------
TypeOK ==
    /\ row \in [Devices -> {"absent", "active", "inactive"}]
    /\ platform \in [Devices -> Platforms]
    /\ subscribed \subseteq Devices
    /\ pushed \in [Batches -> [Devices -> 0 .. MaxRetries + 1]]
    /\ \A b \in Batches :
          /\ batch[b].pc \in {"idle", "reading", "sending", "settling", "returned",
                              "done", "aborted"}
          /\ batch[b].mode \in Mode
          /\ batch[b].pc \in {"settling", "returned"} =>
                ToSet(batch[b].list) = ToSet(batch[b].order)
          /\ batch[b].task \in [Devices -> Task]
          /\ batch[b].stats \in Stats
          /\ batch[b].off \subseteq Devices

\* do the platforms of the devices, in the order of the rows, alternate?
Alternates(list) ==
    \E i, j, k \in 1 .. Len(list) :
        i < j /\ j < k /\ list[i].platform = list[k].platform /\ list[i].platform # list[j].platform

\* A batch deactivates a device only if OneSignal has refused the device's own
\* token, unless it is a send_to_user and the rows came with their platforms
\* alternating, when the results are matched with other devices.
OwnTokenRefused ==
    \A b \in Batches : \A d \in batch[b].off :
        \/ State(b, d) = "invalid_token"
        \/ Targets[b] = Nil /\ Alternates(batch[b].list)

\* What a batch reports is true: the sends it counts as sent were accepted by
\* OneSignal, unless notifications are off, and sent and failed add up to total.
\* No device gets the notification more than MaxRetries + 1 times, and one that
\* gets it again belongs to a request that timed out.
ReportIsTrue ==
    \A b \in Batches : batch[b].pc \in {"returned", "done"} =>
        LET sent == {e \in ToSet(batch[b].list) : State(b, e.id) = "sent"}
            invalid == {e \in ToSet(batch[b].list) : State(b, e.id) = "invalid_token"}
        IN /\ Settled(b) = Len(batch[b].list)
           /\ batch[b].stats.sent = Cardinality(sent)
           /\ batch[b].stats.deactivated = Cardinality(invalid)
           /\ batch[b].mode = "on" =>
                 \A d \in Devices :
                    /\ (\E e \in sent : e.id = d) => pushed[b][d] >= 1
                    /\ pushed[b][d] <= batch[b].task[d].attempt + 1

\* Every call ends, although its sends retry and its rows may be locked.
CallsEnd == \A b \in Batches : Open(b) ~> batch[b].pc \in {"done", "aborted"}
=============================================================================
