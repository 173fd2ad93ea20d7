------------------------------ MODULE Messages ------------------------------
(***************************************************************************)
(* MessagesService.create_message, one call per element of Posts, at the   *)
(* granularity at which concurrent calls can interleave: every database    *)
(* statement whose result another call can change, the commit, and the     *)
(* hand-over of the task to Celery, and the response.  The row lock that   *)
(* the UPDATE of increment_version holds until the transaction ends is     *)
(* explicit.                                                               *)
(***************************************************************************)
EXTENDS Ingest

CONSTANTS
    Faulty,     \* the calls whose process may die or whose broker may be down
    Nobody      \* no call: a free row lock, a lookup that found nothing

ASSUME NobodyAssumption == Nobody \notin Posts

VARIABLES
    pc,         \* how far each call is
    lock,       \* the call whose transaction holds the conversation's row
    drawn,      \* drawn[p]: the version p's open transaction has written
    found,      \* found[p]: the message the idempotency lookup returned
    reply       \* reply[p]: the response body, NoReply until there is one

Reply == [message : Posts \union {Nobody}, version : Nat, enqueued : BOOLEAN]
NoReply == [message |-> Nobody, version |-> 0, enqueued |-> FALSE]

vars == <<version, stamp, began, sent, pc, lock, drawn, found, reply>>

Running == {"lookup", "known", "fresh", "locked", "stored", "enqueued"}
Final == {"answered", "failed"}

Init ==
    /\ IngestInit
    /\ pc = [p \in Posts |-> "new"]
    /\ lock = Nobody
    /\ drawn = [p \in Posts |-> 0]
    /\ found = [p \in Posts |-> Nobody]
    /\ reply = [p \in Posts |-> NoReply]

Goto(p, from, to) == pc[p] = from /\ pc' = [pc EXCEPT ![p] = to]

Answer(p, message, v, enqueued) ==
    reply' = [reply EXCEPT ![p] =
        [message |-> message, version |-> v, enqueued |-> enqueued]]

(***************************************************************************)
(* The route's ownership query opens the transaction; PostgreSQL's now(),  *)
(* the default of created_at, is the time of this moment.                  *)
(***************************************************************************)
Open(p) ==
    /\ Goto(p, "new", "lookup")
    /\ Begin(p)
    /\ UNCHANGED <<lock, drawn, found, reply>>

Lookup(p) ==
    /\ \/ \E q \in Posts :
            /\ Stored(q) /\ SameKey(p, q)
            /\ Goto(p, "lookup", "known")
            /\ found' = [found EXCEPT ![p] = q]
       \/ /\ \A q \in Posts : Stored(q) => ~SameKey(p, q)
          /\ Goto(p, "lookup", "fresh")
          /\ UNCHANGED found
    /\ UNCHANGED <<version, stamp, began, sent, lock, drawn, reply>>

\* the version is read by a statement of its own, after the lookup
Replay(p) ==
    /\ Goto(p, "known", "answered")
    /\ Answer(p, found[p], version, FALSE)
    /\ UNCHANGED <<version, stamp, began, sent, lock, drawn, found>>

\* mutant: SELECT version, then UPDATE to version + 1, waits for nobody
Increment_Unlocked(p) ==
    /\ Goto(p, "fresh", "locked")
    /\ lock' = p
    /\ drawn' = [drawn EXCEPT ![p] = version + 1]
    /\ UNCHANGED <<version, stamp, began, sent, found, reply>>

\* UPDATE .. SET version = version + 1 RETURNING waits for the row, then
\* works on the row as last committed
Increment(p) ==
    /\ Goto(p, "fresh", "locked")
    /\ lock = Nobody
    /\ lock' = p
    /\ drawn' = [drawn EXCEPT ![p] = version + 1]
    /\ UNCHANGED <<version, stamp, began, sent, found, reply>>

\* mutant: the migration that adds the constraint has not run
Unique_Missing(p) == TRUE

\* the unique constraint on (conversation_id, client_message_id)
Unique(p) == \A q \in Posts : Stored(q) => ~SameKey(p, q)

Store(p) ==
    /\ Goto(p, "locked", "stored")
    /\ Unique(p)
    /\ version' = drawn[p]
    /\ stamp' = [stamp EXCEPT ![p] = drawn[p]]
    /\ lock' = Nobody
    /\ UNCHANGED <<began, sent, drawn, found, reply>>

\* mutant: the increment had a transaction of its own
Conflict_KeepsVersion(p) ==
    /\ Goto(p, "locked", "failed")
    /\ ~Unique(p)
    /\ lock' = Nobody
    /\ version' = drawn[p]
    /\ UNCHANGED <<stamp, began, sent, drawn, found, reply>>

\* IntegrityError: get_session rolls the transaction back, the increment with it
Conflict(p) ==
    /\ Goto(p, "locked", "failed")
    /\ ~Unique(p)
    /\ lock' = Nobody
    /\ UNCHANGED <<version, stamp, began, sent, drawn, found, reply>>

\* mutant: the task carries what the lookup found
SendTask_SendsFound(p) ==
    /\ Goto(p, "stored", "enqueued")
    /\ sent' = sent \union {found[p]}
    /\ UNCHANGED <<version, stamp, began, lock, drawn, found, reply>>

\* mutant: a broker error is swallowed
SendTask_Swallows(p) ==
    /\ Goto(p, "stored", "enqueued")
    /\ sent' \in {sent, sent \union {p}}
    /\ UNCHANGED <<version, stamp, began, lock, drawn, found, reply>>

SendTask(p) ==
    /\ Goto(p, "stored", "enqueued")
    /\ sent' = sent \union {p}
    /\ UNCHANGED <<version, stamp, began, lock, drawn, found, reply>>

\* after an event is published, which may be where the process dies
Respond(p) ==
    /\ Goto(p, "enqueued", "answered")
    /\ Answer(p, p, drawn[p], TRUE)
    /\ UNCHANGED <<version, stamp, began, sent, lock, drawn, found>>

\* mutant: a dead call's transaction stays open
Fail_KeepsLock(p) ==
    /\ p \in Faulty
    /\ pc[p] \in Running
    /\ pc' = [pc EXCEPT ![p] = "failed"]
    /\ UNCHANGED <<version, stamp, began, sent, lock, drawn, found, reply>>

\* the process dies, or send_task raises: an open transaction is rolled back,
\* a committed one stays
Fail(p) ==
    /\ p \in Faulty
    /\ pc[p] \in Running
    /\ pc' = [pc EXCEPT ![p] = "failed"]
    /\ lock' = IF lock = p THEN Nobody ELSE lock
    /\ UNCHANGED <<version, stamp, began, sent, drawn, found, reply>>

Step(p) ==
    \/ Lookup(p) \/ Replay(p) \/ Increment(p)
    \/ Store(p) \/ Conflict(p) \/ SendTask(p) \/ Respond(p)

Next == \E p \in Posts : Open(p) \/ Step(p) \/ Fail(p)

\* A call that has begun runs on: the event loop and PostgreSQL schedule it.
\* A waiter for the row lock needs no more than weak fairness, as the finitely
\* many calls before it each release the lock for good.
Fairness == \A p \in Posts : WF_vars(Step(p))

Spec == Init /\ [][Next]_vars
FairSpec == Spec /\ Fairness

-----------------------------------------------------------------------------
TypeOK ==
    /\ version \in Nat
    /\ stamp \in [Posts -> Nat]
    /\ began \in [Posts -> Nat]
    /\ sent \subseteq Posts
    /\ pc \in [Posts -> {"new"} \union Running \union Final]
    /\ lock \in Posts \union {Nobody}
    /\ drawn \in [Posts -> Nat]
    /\ found \in [Posts -> Posts \union {Nobody}]
    /\ reply \in [Posts -> Reply]

\* The stored messages carry the versions 1 .. version, each exactly one: a
\* version identifies a message (the worker looks its proposal up by it, and
\* compares it to detect staleness), and a rolled-back call burns no version.
VersionsIdentify ==
    /\ \A p, q \in Posts : Stored(p) /\ stamp[p] = stamp[q] => p = q
    /\ \A v \in 1..version : \E p \in Posts : stamp[p] = v
    /\ \A p \in Posts : stamp[p] <= version

\* A client message id stores one message, however its retries overlap.
OneMessagePerKey ==
    \A p, q \in Posts : Stored(p) /\ Stored(q) /\ SameKey(p, q) => p = q

\* A response names a stored message with the caller's own key, gives a version
\* at least the message's own, and claims "enqueued" only for a task that the
\* broker has.
ReplyIsTruthful ==
    \A p \in Posts : reply[p] # NoReply =>
        LET r == reply[p] IN
        /\ r.message \in Posts /\ Stored(r.message)
        /\ stamp[r.message] <= r.version
        /\ IF r.enqueued THEN r.message = p /\ p \in sent
                         ELSE SameKey(p, r.message) /\ r.message # p

\* The handler implements the atomic acceptance that the rest of the system
\* relies on.
ImplementsIngest == IngestSpec

\* Every call that began ends, so no call is left holding the row lock, not
\* even when the holder's process dies.
CallsEnd == \A p \in Posts : pc[p] \in Running ~> pc[p] \in Final
=============================================================================
