------------------------------ MODULE Realtime ------------------------------
(***************************************************************************)
(* The events of one conversation on their way to the clients: EventBus    *)
(* (a Redis stream for history, a Redis channel for delivery), the         *)
(* websocket ConnectionManager of one API process with its subscription    *)
(* task, and the SSE endpoint, which has a subscription per client.        *)
(*                                                                         *)
(* An action is what a coroutine does between two awaits: the event loop   *)
(* runs nothing else in between.  In the channel, an event is named by its *)
(* position.                                                               *)
(***************************************************************************)
EXTENDS Naturals, Sequences, FiniteSets, SequencesExt

CONSTANTS
    Events,         \* the calls of EventBus.publish
    Before,         \* <<e, f>> in Before: f is published by a caller that awaited e
    WebSockets,     \* connections to /ws/conversations/{id}, numbered as they come
    Streams,        \* connections to /conversations/{id}/events
    Tasks,          \* the subscription tasks that may be created
    Unlucky,        \* events whose Redis calls may fail
    MayFail,        \* tasks and streams whose Redis calls may fail
    MayLeave,       \* clients that may go away
    MaxStreamLen,   \* EVENTS_MAX_STREAM_LEN
    None            \* no task, no websocket

Clients == WebSockets \union Streams
Subscribers == Tasks \union Streams
Earlier(w) == {v \in WebSockets : v < w}

ASSUME BeforeAssumption == Before \subseteq Events \X Events
ASSUME KindsAssumption ==
    WebSockets \intersect Streams = {} /\ Tasks \intersect Clients = {}
ASSUME WebSocketsAssumption == WebSockets \subseteq Nat
ASSUME NoneAssumption == None \notin Subscribers \union Clients
ASSUME MaxStreamLenAssumption == MaxStreamLen \in Nat

VARIABLES
    sending,    \* sending[e]: how far EventBus.publish has come with e
    history,    \* the Redis stream
    channel,    \* what the Redis channel has carried
    peer,       \* the connections
    keyed,      \* is the conversation a key of active_connections ...
    active,     \* ... and its list: a set, because the list is in connecting order
    entry,      \* the conversation's task in subscription_tasks
    task,       \* the tasks
    inbox,      \* what Redis holds for each subscriber
    lossy,      \* the subscribers whose connection to Redis broke (for the properties)
    got         \* the events each client has been sent

vars == <<sending, history, channel, peer, keyed, active, entry, task,
          inbox, lossy, got>>
busVars == <<sending, history, channel>>
managerVars == <<keyed, active, entry, lossy>>

Idle == [pc |-> "unborn", cancelled |-> FALSE, event |-> 0, at |-> 0, to |-> None,
         failed |-> {}]

Init ==
    /\ sending = [e \in Events |-> "append"]
    /\ history = <<>>
    /\ channel = <<>>
    /\ peer = [c \in Clients |-> "away"]
    /\ keyed = FALSE
    /\ active = {}
    /\ entry = None
    /\ task = [t \in Tasks |-> Idle]
    /\ inbox = [s \in Subscribers |-> <<>>]
    /\ lossy = {}
    /\ got = [c \in Clients |-> <<>>]

-----------------------------------------------------------------------------
(* EventBus.publish: append, then publish; each swallows its errors. *)

\* mutant: without a Redis connection append logs an error and goes on
AppendToStream_Offline(e) ==
    /\ sending[e] = "append"
    /\ \A f \in Events : <<f, e>> \in Before => sending[f] = "done"
    /\ sending' = [sending EXCEPT ![e] = "publish"]
    /\ UNCHANGED <<history, channel, peer, managerVars, task, inbox, got>>

\* XADD with an approximate maxlen: Redis trims when it likes
AppendToStream(e) ==
    /\ sending[e] = "append"
    /\ \A f \in Events : <<f, e>> \in Before => sending[f] = "done"
    /\ sending' = [sending EXCEPT ![e] = "publish"]
    /\ \/ history' = Append(history, e)
       \/ /\ Len(history) >= MaxStreamLen
          /\ history' = Append(Tail(history), e)
       \/ /\ e \in Unlucky
          /\ UNCHANGED history
    /\ UNCHANGED <<channel, peer, managerVars, task, inbox, got>>

Subscribed(s) ==
    IF s \in Tasks THEN task[s].pc \in {"polling", "broadcasting", "backoff"}
                   ELSE peer[s] = "in"

PublishToChannel(e) ==
    /\ sending[e] = "publish"
    /\ sending' = [sending EXCEPT ![e] = "done"]
    /\ \/ /\ channel' = Append(channel, e)
          /\ inbox' = [s \in Subscribers |->
                          IF Subscribed(s) THEN Append(inbox[s], Len(channel) + 1)
                                           ELSE inbox[s]]
       \/ /\ e \in Unlucky
          /\ UNCHANGED <<channel, inbox>>
    /\ UNCHANGED <<history, peer, managerVars, task, got>>

-----------------------------------------------------------------------------
(* ConnectionManager.connect and disconnect, each without an await. *)

Unborn == {t \in Tasks : task[t].pc = "unborn"}

Connect(w) ==
    /\ peer[w] = "away"
    /\ \A v \in Earlier(w) : peer[v] # "away"
    /\ peer' = [peer EXCEPT ![w] = "in"]
    /\ keyed' = TRUE
    /\ active' = active \union {w}
    /\ IF entry # None
       THEN UNCHANGED <<entry, task>>
       ELSE \E t \in Unborn :
               /\ entry' = t
               /\ task' = [task EXCEPT ![t].pc = "subscribing"]
    /\ UNCHANGED <<busVars, inbox, lossy, got>>

\* the client closes; the endpoint notices when receive_text raises
Leave(c) ==
    /\ c \in MayLeave
    /\ peer[c] = "in"
    /\ peer' = [peer EXCEPT ![c] = "gone"]
    /\ UNCHANGED <<busVars, managerVars, task, inbox, got>>

\* mutant: the task is forgotten but not cancelled
Disconnect_KeepsTask(w) ==
    /\ peer[w] = "gone"
    /\ peer' = [peer EXCEPT ![w] = "left"]
    /\ LET others == active \ {w} IN
       /\ active' = others
       /\ keyed' = (others # {})
       /\ entry' = IF others = {} THEN None ELSE entry
    /\ UNCHANGED <<busVars, task, inbox, lossy, got>>

\* whoever leaves last cancels the task, even if a broadcast emptied the list
Disconnect(w) ==
    /\ peer[w] = "gone"
    /\ peer' = [peer EXCEPT ![w] = "left"]
    /\ LET others == active \ {w} IN
       IF others = {} /\ keyed
       THEN /\ active' = {} /\ keyed' = FALSE /\ entry' = None
            /\ task' = [task EXCEPT ![entry].cancelled = TRUE]
       ELSE /\ active' = others
            /\ UNCHANGED <<keyed, entry, task>>
    /\ UNCHANGED <<busVars, inbox, lossy, got>>

-----------------------------------------------------------------------------
(* _subscribe_and_broadcast, the task. *)

Runs(t, pc) == task[t].pc = pc /\ ~task[t].cancelled

Subscribe(t) ==
    /\ Runs(t, "subscribing")
    /\ task' = [task EXCEPT ![t].pc = "polling"]
    /\ UNCHANGED <<busVars, peer, managerVars, inbox, got>>

\* the task ends, and its entry stays in subscription_tasks
SubscribeFails(t) ==
    /\ t \in MayFail
    /\ Runs(t, "subscribing")
    /\ task' = [task EXCEPT ![t].pc = "dead"]
    /\ UNCHANGED <<busVars, peer, managerVars, inbox, got>>

\* the place of a websocket in the list
Rank(w) == Cardinality({v \in active : v <= w})

\* send_text to the n-th websocket of the list, if there is one
SendTo(t, n, state) ==
    \E w \in active :
        /\ Rank(w) = n
        /\ task' = [task EXCEPT ![t] =
                      [state EXCEPT !.pc = "broadcasting", !.at = n, !.to = w]]

\* mutant: the event of the last broadcast is sent again
Receive_Stale(t) ==
    /\ Runs(t, "polling")
    /\ inbox[t] # <<>>
    /\ inbox' = [inbox EXCEPT ![t] = Tail(@)]
    /\ IF active = {} THEN UNCHANGED task ELSE SendTo(t, 1, task[t])
    /\ UNCHANGED <<busVars, peer, managerVars, got>>

\* get_message returns an event and the broadcast calls its first send_text
Receive(t) ==
    /\ Runs(t, "polling")
    /\ inbox[t] # <<>>
    /\ inbox' = [inbox EXCEPT ![t] = Tail(@)]
    /\ IF active = {}
       THEN UNCHANGED task
       ELSE SendTo(t, 1, [task[t] EXCEPT !.event = Head(inbox[t])])
    /\ UNCHANGED <<busVars, peer, managerVars, got>>

Finish(t, failed) ==
    /\ task' = [task EXCEPT ![t] = [Idle EXCEPT !.pc = "polling"]]
    /\ active' = active \ failed

\* mutant: the iteration ends before the last websocket
Advance_Short(t, failed) ==
    LET next == task[t].at + 1 IN
    IF next < Cardinality(active)
    THEN /\ SendTo(t, next, [task[t] EXCEPT !.failed = failed])
         /\ UNCHANGED active
    ELSE Finish(t, failed)

\* The list iterator goes by its index, whatever has become of the list.  At the
\* end the connections that failed are removed.
Advance(t, failed) ==
    LET next == task[t].at + 1 IN
    IF next <= Cardinality(active)
    THEN /\ SendTo(t, next, [task[t] EXCEPT !.failed = failed])
         /\ UNCHANGED active
    ELSE Finish(t, failed)

Sent(t) ==
    /\ Runs(t, "broadcasting")
    /\ peer[task[t].to] = "in"
    /\ got' = [got EXCEPT ![task[t].to] = Append(@, task[t].event)]
    /\ Advance(t, task[t].failed)
    /\ UNCHANGED <<busVars, peer, keyed, entry, inbox, lossy>>

\* mutant: a failed connection is removed while the list is being iterated
NotSent_RemovesAtOnce(t) ==
    /\ Runs(t, "broadcasting")
    /\ peer[task[t].to] # "in"
    /\ LET rest == active \ {task[t].to} IN
       /\ active' = rest
       /\ IF task[t].at + 1 <= Cardinality(rest)
          THEN \E w \in rest :
                  /\ Cardinality({v \in rest : v <= w}) = task[t].at + 1
                  /\ task' = [task EXCEPT ![t] = [@ EXCEPT !.at = @ + 1, !.to = w]]
          ELSE task' = [task EXCEPT ![t] = [Idle EXCEPT !.pc = "polling"]]
    /\ UNCHANGED <<busVars, peer, keyed, entry, inbox, lossy, got>>

\* the client is gone: send_text raises, or writes to a socket nobody reads
NotSent(t) ==
    /\ Runs(t, "broadcasting")
    /\ peer[task[t].to] # "in"
    /\ \E failed \in {task[t].failed, task[t].failed \union {task[t].to}} :
          Advance(t, failed)
    /\ UNCHANGED <<busVars, peer, keyed, entry, inbox, lossy, got>>

\* get_message raises: what Redis held for a broken connection is lost
PollFails(t) ==
    /\ t \in MayFail \ lossy
    /\ Runs(t, "polling")
    /\ task' = [task EXCEPT ![t].pc = "backoff"]
    /\ inbox' = [inbox EXCEPT ![t] = <<>>]
    /\ lossy' = lossy \union {t}
    /\ UNCHANGED <<busVars, peer, keyed, active, entry, got>>

\* unless get_message failed for another reason, the connection was down until
\* now, and Redis held nothing for it
Retry(t) ==
    /\ Runs(t, "backoff")
    /\ task' = [task EXCEPT ![t].pc = "polling"]
    /\ UNCHANGED inbox \/ inbox' = [inbox EXCEPT ![t] = <<>>]
    /\ UNCHANGED <<busVars, peer, managerVars, got>>

\* a cancelled task wakes up once more, from whatever it awaits, to end
Stop(t) ==
    /\ task[t].cancelled
    /\ task[t].pc \in {"subscribing", "polling", "broadcasting", "backoff"}
    /\ task' = [task EXCEPT ![t] = [Idle EXCEPT !.pc = "stopped"]]
    /\ inbox' = [inbox EXCEPT ![t] = <<>>]
    /\ UNCHANGED <<busVars, peer, managerVars, got>>

-----------------------------------------------------------------------------
(* sse_endpoint: a subscription for each client. *)

\* the generator subscribes, or ends at once because that fails
Open(s) ==
    /\ peer[s] = "away"
    /\ \/ peer' = [peer EXCEPT ![s] = "in"]
       \/ s \in MayFail /\ peer' = [peer EXCEPT ![s] = "left"]
    /\ UNCHANGED <<busVars, managerVars, task, inbox, got>>

Yield(s) ==
    /\ peer[s] = "in"
    /\ inbox[s] # <<>>
    /\ got' = [got EXCEPT ![s] = Append(@, Head(inbox[s]))]
    /\ inbox' = [inbox EXCEPT ![s] = Tail(@)]
    /\ UNCHANGED <<busVars, peer, managerVars, task>>

StreamFails(s) ==
    /\ s \in MayFail \ lossy
    /\ peer[s] = "in"
    /\ inbox' = [inbox EXCEPT ![s] = <<>>]
    /\ lossy' = lossy \union {s}
    /\ UNCHANGED <<busVars, peer, keyed, active, entry, task, got>>

\* the generator is cancelled and unsubscribes
Close(s) ==
    /\ peer[s] = "gone"
    /\ peer' = [peer EXCEPT ![s] = "left"]
    /\ inbox' = [inbox EXCEPT ![s] = <<>>]
    /\ UNCHANGED <<busVars, managerVars, task, got>>

-----------------------------------------------------------------------------
Publisher(e) == AppendToStream(e) \/ PublishToChannel(e)
Step(t) == \/ Subscribe(t) \/ Receive(t) \/ Sent(t) \/ NotSent(t) \/ Retry(t) \/ Stop(t)
Serve(s) == Yield(s) \/ Close(s)

Next ==
    \/ \E e \in Events : Publisher(e)
    \/ \E t \in Tasks : Step(t) \/ SubscribeFails(t) \/ PollFails(t)
    \/ \E w \in WebSockets : Connect(w) \/ Disconnect(w)
    \/ \E s \in Streams : Open(s) \/ Serve(s) \/ StreamFails(s)
    \/ \E c \in Clients : Leave(c)

\* The event loop runs every coroutine that is ready.  Clients owe us nothing.
Fairness ==
    /\ \A e \in Events : WF_vars(Publisher(e))
    /\ \A t \in Tasks : WF_vars(Step(t))
    /\ \A w \in WebSockets : WF_vars(Disconnect(w))
    /\ \A s \in Streams : WF_vars(Serve(s))

Spec == Init /\ [][Next]_vars
FairSpec == Spec /\ Fairness

-----------------------------------------------------------------------------
Alive == {"subscribing", "polling", "broadcasting", "backoff"}

Positions == 1..Len(channel)

TypeOK ==
    /\ sending \in [Events -> {"append", "publish", "done"}]
    /\ history \in Seq(Events)
    /\ channel \in Seq(Events)
    /\ peer \in [Clients -> {"away", "in", "gone", "left"}]
    /\ keyed \in BOOLEAN
    /\ active \subseteq WebSockets
    /\ entry \in Tasks \union {None}
    /\ task \in [Tasks -> [pc : Alive \union {"unborn", "dead", "stopped"},
                           cancelled : BOOLEAN,
                           event : Positions \union {0},
                           at : Nat,
                           to : WebSockets \union {None},
                           failed : SUBSET WebSockets]]
    /\ inbox \in [Subscribers -> Seq(Positions)]
    /\ lossy \subseteq MayFail
    /\ got \in [Clients -> Seq(Positions)]

\* Websockets and streams alike get what Feed promises: events in the order of
\* the channel, none twice, also across a change of the subscription task.
F == INSTANCE Feed WITH published <- Len(channel)
ImplementsFeed == F!FeedSpec

\* One task at a time speaks for the conversation: it is the one in
\* subscription_tasks, there as long as the conversation is in
\* active_connections, and everyone in the list is still to be disconnected.
OneSpeaker ==
    /\ \A t \in Tasks :
          (task[t].pc \in Alive /\ ~task[t].cancelled) => entry = t
    /\ (entry # None) <=> keyed
    /\ \A w \in WebSockets : w \in active => peer[w] \in {"in", "gone"}

\* An event some client can have seen is in the history too, unless the append
\* failed or the stream was full.
LiveIsKept ==
    \A e \in ToSet(channel) \ Unlucky :
        Contains(history, e) \/ Len(history) >= MaxStreamLen

\* Of two websockets the one that connected earlier is never behind: what the
\* other has been sent it has been sent too, unless somebody before it left.
\* Streams miss nothing between two events.
MissesNothing ==
    /\ \A s \in Streams \ lossy : \A k \in 1..Len(got[s]) - 1 :
          got[s][k + 1] = got[s][k] + 1
    /\ \A w \in WebSockets : \A v \in Earlier(w) :
          \/ peer[v] # "in"
          \/ \E u \in Earlier(v) : peer[u] = "left"
          \/ ToSet(got[w]) \subseteq ToSet(got[v])

\* broadcast_to_conversation broadcasts to all connections of the conversation.
NobodySkipped ==
    \A w \in WebSockets : \A v \in Earlier(w) :
        peer[v] = "in" => ToSet(got[w]) \subseteq ToSet(got[v])

\* An event that Redis holds for the manager's task reaches every websocket in
\* the list, unless that websocket or one that connected earlier goes away or the
\* connection to Redis breaks.
Held(e) == entry # None /\ Contains(inbox[entry], e)
Heard ==
    \A w \in WebSockets, e \in 1..Cardinality(Events) :
        (w \in active /\ Held(e))
            ~> \/ Contains(got[w], e)
               \/ lossy \intersect Tasks # {}
               \/ \E v \in Earlier(w) \union {w} : peer[v] # "in"
=============================================================================
