----------------------------- MODULE McpClient ------------------------------
(***************************************************************************)
(* The client of an MCP server that runs as a child process: coroutines of *)
(* one event loop share the process, a lock and a counter of request ids.  *)
(* A coroutine runs until it awaits, so a step reaches from one await to   *)
(* the next.  The lock is an asyncio.Lock: first come, first served, and   *)
(* not reentrant.                                                          *)
(***************************************************************************)
EXTENDS Naturals, Sequences, SequencesExt

CONSTANTS
    Callers,    \* coroutines, each with one call of the client:
    Starters,   \* these call start, the others list_tools or call_tool
    Troubles,   \* bound: how often a process dies, close is called or a call is cancelled
    Nil

ASSUME CallersAssumption ==
    Nil \notin Callers /\ Starters \subseteq Callers /\ Troubles \in Nat

VARIABLES
    proc,       \* _proc: a position in servers, 0: None
    nextId,     \* _next_id
    line,       \* _lock: who holds it, followed by those that wait for it
    servers,    \* the processes ever created, with what is in their pipes
    call,       \* the calls
    closing,    \* the process that close waits for, 0: none
    troubles    \* what is left of Troubles

vars == <<proc, nextId, line, servers, call, closing, troubles>>

\* a request and its answer carry an id; "of" is whose request it is, which is
\* nowhere in the bytes
Request == [id : Nat, of : Callers]
Server == [alive : BOOLEAN, stdin : Seq(Request), stdout : Seq(Request)]

\* got is whose answer a successful call returned
Call == [pc : {"idle", "waiting", "creating", "draining", "reading", "returned", "raised", "cancelled"},
         id : Nat, wrote : Nat, reads : Nat, got : Callers \union {Nil}]

New(pc, got) == [pc |-> pc, id |-> 0, wrote |-> 0, reads |-> 0, got |-> got]

Init ==
    /\ proc = 0 /\ nextId = 1 /\ line = <<>> /\ servers = <<>> /\ closing = 0
    /\ troubles = Troubles
    /\ call = [c \in Callers |-> New("idle", Nil)]

At(c, pc) == call[c].pc = pc
Ended(c) == call[c].pc \in {"returned", "raised", "cancelled"}
Live == proc > 0 /\ servers[proc].alive
Holds(c) == line # <<>> /\ Head(line) = c
\* c's latest place in the line is the first
Acquired(c) == Holds(c) /\ c \notin ToSet(Tail(line))
Become(c, new) == call' = [call EXCEPT ![c] = new]

\* one place of c's given up; which of them makes no difference
Without(q, c) ==
    IF c \in ToSet(q) THEN RemoveAt(q, CHOOSE i \in 1..Len(q) : q[i] = c) ELSE q

\* a call that ends leaves its place in the line, and the second that it has when
\* a start of its own waits for the lock it holds
Leave(c) == line' = Without(Without(line, c), c)
End(c, pc) == Leave(c) /\ Become(c, New(pc, Nil))

Trouble == troubles > 0 /\ troubles' = troubles - 1

-----------------------------------------------------------------------------
(* start, and _rpc up to its first await *)

BeginStart(c) ==
    /\ At(c, "idle") /\ c \in Starters
    /\ Become(c, [call[c] EXCEPT !.pc = IF Live THEN "returned" ELSE "creating"])
    /\ UNCHANGED <<proc, nextId, line, servers, closing, troubles>>

BeginRpc(c) ==
    /\ At(c, "idle") /\ c \notin Starters
    /\ Become(c, [call[c] EXCEPT !.pc = "waiting"])
    /\ line' = Append(line, c)
    /\ UNCHANGED <<proc, nextId, servers, closing, troubles>>

\* create_subprocess_exec returned: the process becomes _proc whatever _proc is by
\* now, and start sends "initialize" with an _rpc of its own, also when an _rpc
\* that holds the lock called it
Create(c) ==
    /\ At(c, "creating")
    /\ servers' = Append(servers, [alive |-> TRUE, stdin |-> <<>>, stdout |-> <<>>])
    /\ proc' = Len(servers) + 1
    /\ line' = Append(line, c)
    /\ Become(c, [call[c] EXCEPT !.pc = "waiting"])
    /\ UNCHANGED <<nextId, closing, troubles>>

CreateFails(c) ==
    /\ At(c, "creating")
    /\ End(c, "raised")
    /\ UNCHANGED <<proc, nextId, servers, closing, troubles>>

-----------------------------------------------------------------------------
(* _rpc with the lock *)

\* start finds no process to talk to
Restart(c) ==
    /\ At(c, "waiting") /\ Acquired(c)
    /\ ~Live
    /\ Become(c, [call[c] EXCEPT !.pc = "creating"])
    /\ UNCHANGED <<proc, nextId, line, servers, closing, troubles>>

\* mutant: a request that does not wait for the lock
Write_Unlocked(c) ==
    /\ At(c, "waiting")
    /\ Live
    /\ nextId' = nextId + 1
    /\ servers' = [servers EXCEPT ![proc].stdin = Append(@, [id |-> nextId, of |-> c])]
    /\ Become(c, [call[c] EXCEPT !.pc = "draining", !.id = nextId, !.wrote = proc])
    /\ UNCHANGED <<proc, line, closing, troubles>>

Write(c) ==
    /\ At(c, "waiting") /\ Acquired(c)
    /\ Live
    /\ nextId' = nextId + 1
    /\ servers' = [servers EXCEPT ![proc].stdin = Append(@, [id |-> nextId, of |-> c])]
    /\ Become(c, [call[c] EXCEPT !.pc = "draining", !.id = nextId, !.wrote = proc])
    /\ UNCHANGED <<proc, line, closing, troubles>>

\* drain returned; _proc is looked up again for its stdout
Drain(c) ==
    /\ At(c, "draining")
    /\ proc > 0
    /\ servers[call[c].wrote].alive
    /\ Become(c, [call[c] EXCEPT !.pc = "reading", !.reads = proc])
    /\ UNCHANGED <<proc, nextId, line, servers, closing, troubles>>

\* the pipe is broken, or close has set _proc to None
DrainFails(c) ==
    /\ At(c, "draining")
    /\ proc = 0 \/ ~servers[call[c].wrote].alive
    /\ End(c, "raised")
    /\ UNCHANGED <<proc, nextId, servers, closing, troubles>>

Stdout(c) == servers[call[c].reads].stdout

\* mutant: the id of the answer is not compared
IsAnswer_Any(c, answer) == TRUE
IsAnswer(c, answer) == answer.id = call[c].id

\* the next line, whoever it answers, is taken from the pipe; the answer may be an
\* error
Read(c) ==
    /\ At(c, "reading")
    /\ Stdout(c) # <<>>
    /\ servers' = [servers EXCEPT ![call[c].reads].stdout = Tail(@)]
    /\ Leave(c)
    /\ \/ IsAnswer(c, Head(Stdout(c))) /\ Become(c, New("returned", Head(Stdout(c)).of))
       \/ Become(c, New("raised", Nil))
    /\ UNCHANGED <<proc, nextId, closing, troubles>>

\* mutant: the exception leaves the lock taken
EndOfFile_KeepsLock(c) ==
    /\ At(c, "reading")
    /\ Stdout(c) = <<>> /\ ~servers[call[c].reads].alive
    /\ Become(c, [call[c] EXCEPT !.pc = "raised"])
    /\ UNCHANGED <<proc, nextId, line, servers, closing, troubles>>

EndOfFile(c) ==
    /\ At(c, "reading")
    /\ Stdout(c) = <<>> /\ ~servers[call[c].reads].alive
    /\ End(c, "raised")
    /\ UNCHANGED <<proc, nextId, servers, closing, troubles>>

\* a caller gives up, with wait_for say: an answer to what it wrote stays in the
\* pipe
Cancel(c) ==
    /\ Trouble
    /\ call[c].pc \in {"waiting", "creating", "draining", "reading"}
    /\ End(c, "cancelled")
    /\ UNCHANGED <<proc, nextId, servers, closing>>

-----------------------------------------------------------------------------
(* close, and the processes *)

Close ==
    /\ Trouble
    /\ closing = 0 /\ proc > 0
    /\ IF Live THEN closing' = proc /\ UNCHANGED proc
       ELSE proc' = 0 /\ UNCHANGED closing
    /\ UNCHANGED <<nextId, line, servers, call>>

\* the process is gone, or is killed after 3 seconds; whatever is _proc by now is
\* forgotten
Closed ==
    /\ closing > 0
    /\ servers' = [servers EXCEPT ![closing].alive = FALSE]
    /\ proc' = 0 /\ closing' = 0
    /\ UNCHANGED <<nextId, line, call, troubles>>

Dies(s) ==
    /\ Trouble
    /\ servers[s].alive
    /\ servers' = [servers EXCEPT ![s].alive = FALSE]
    /\ UNCHANGED <<proc, nextId, line, call, closing>>

\* requests are answered one by one
Answers(s) ==
    /\ servers[s].alive
    /\ servers[s].stdin # <<>>
    /\ servers' = [servers EXCEPT ![s].stdin = Tail(@),
                                   ![s].stdout = Append(@, Head(servers[s].stdin))]
    /\ UNCHANGED <<proc, nextId, line, call, closing, troubles>>

Work(c) == Create(c) \/ CreateFails(c) \/ Restart(c) \/ Write(c) \/ Drain(c) \/ DrainFails(c)
           \/ Read(c) \/ EndOfFile(c)

Next ==
    \/ \E c \in Callers : BeginStart(c) \/ BeginRpc(c) \/ Work(c) \/ Cancel(c)
    \/ Close \/ Closed
    \/ \E s \in DOMAIN servers : Dies(s) \/ Answers(s)

Spec == Init /\ [][Next]_vars

\* The event loop runs what can run, and a server answers while it lives: nothing
\* in the client bounds how long it waits for that.  Nobody has to give up.
FairSpec ==
    /\ Spec
    /\ \A c \in Callers : WF_vars(Work(c))
    /\ WF_vars(\E s \in DOMAIN servers : Answers(s))

-----------------------------------------------------------------------------
(* Properties *)

\* TypeOK: requests are written by the coroutine that holds the lock, one at a
\* time, and an id is drawn once.
TypeOK ==
    /\ servers \in Seq(Server)
    /\ proc \in 0..Len(servers) /\ closing \in 0..Len(servers)
    /\ nextId \in Nat \ {0}
    /\ troubles \in 0..Troubles
    /\ line \in Seq(Callers)
    /\ call \in [Callers -> Call]
    /\ \A c \in Callers : call[c].pc \in {"draining", "reading"} => Holds(c)

\* A call that returns a result returns that of its own request, although answers
\* nobody waits for any more stay in the pipes, and a restart may replace the
\* process between writing and reading.
AnswersOwn == \A c \in Callers : At(c, "returned") /\ call[c].got # Nil => call[c].got = c

\* Whoever holds the lock waits for it a second time: it found no live process and
\* restarted it.
WaitsForItself == \E c \in Callers : Holds(c) /\ At(c, "waiting") /\ ~Acquired(c)

\* Whoever holds the lock reads from a process it has not written to: another
\* start replaced _proc during drain.
ReadsElsewhere ==
    \E c \in Callers : At(c, "reading") /\ call[c].reads # call[c].wrote

\* A call ends, whatever dies or is closed under it, unless the lock is held by one
\* of the two that nobody can help: only these two races of start hang the client.
CallsEnd ==
    \A c \in Callers : (~At(c, "idle")) ~> (Ended(c) \/ WaitsForItself \/ ReadsElsewhere)
=============================================================================
