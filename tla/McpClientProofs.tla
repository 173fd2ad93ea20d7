-------------------------- MODULE McpClientProofs ---------------------------
(***************************************************************************)
(* A call of the client returns the answer to its own request, for any     *)
(* callers and any number of failures, and requests are written one at a   *)
(* time.  The argument for the first needs neither the lock nor that there *)
(* is one process: an id is drawn once, so whatever is in a pipe with the  *)
(* id a call waits for answers that call.  The second is LockInv, below.   *)
(***************************************************************************)
EXTENDS McpClient, TLAPS

Expects(state) == state.pc \in {"draining", "reading"}

\* a request, or its answer, when the ids below n are drawn
Fits(r, n, calls) ==
    /\ r.id < n
    /\ \A c \in Callers : (Expects(calls[c]) /\ calls[c].id = r.id) => r.of = c

FitAll(q, n, calls) == \A k \in 1..Len(q) : Fits(q[k], n, calls)

Types ==
    /\ nextId \in Nat
    /\ servers \in Seq(Server)
    /\ proc \in 0..Len(servers) /\ closing \in 0..Len(servers)
    /\ call \in [Callers -> Call]

CallOK(state, n, many) ==
    /\ Expects(state) => state.id < n
    /\ state.pc = "reading" => state.reads \in 1..many

IInv ==
    /\ Types
    /\ \A s \in 1..Len(servers) : /\ FitAll(servers[s].stdin, nextId, call)
                                  /\ FitAll(servers[s].stdout, nextId, call)
    /\ \A c \in Callers : CallOK(call[c], nextId, Len(servers))
    /\ \A c \in Callers : call[c].got \in {c, Nil}

-----------------------------------------------------------------------------
LEMMA TailAppend ==
    ASSUME NEW q \in Seq(Request), NEW r \in Request
    PROVE  /\ q # <<>> => /\ Tail(q) \in Seq(Request)
                          /\ Head(q) \in Request /\ 1 \in 1..Len(q) /\ Head(q) = q[1]
                          /\ \A k \in 1..Len(Tail(q)) : k + 1 \in 1..Len(q)
                                                        /\ Tail(q)[k] = q[k + 1]
           /\ Append(q, r) \in Seq(Request)
           /\ \A k \in 1..Len(Append(q, r)) :
                 \/ k \in 1..Len(q) /\ Append(q, r)[k] = q[k]
                 \/ Append(q, r)[k] = r
OBVIOUS

LEMMA NewCall ==
    ASSUME NEW pc \in {"returned", "raised", "cancelled", "idle"},
           NEW got \in Callers \union {Nil}
    PROVE  /\ New(pc, got) \in Call
           /\ New(pc, got).pc = pc /\ New(pc, got).got = got
           /\ ~Expects(New(pc, got))
BY DEF New, Call, Expects

LEMMA ServerFacts ==
    ASSUME Types, NEW s \in 1..Len(servers)
    PROVE  /\ servers[s] \in Server
           /\ servers[s].stdin \in Seq(Request) /\ servers[s].stdout \in Seq(Request)
<1>1. servers[s] \in Server
  BY DEF Types
<1> QED
  BY <1>1 DEF Server

LEMMA CallFacts ==
    ASSUME IInv, NEW c \in Callers
    PROVE  /\ call[c] \in Call
           /\ CallOK(call[c], nextId, Len(servers))
           /\ Len(servers) \in Nat /\ nextId \in Nat
           /\ call[c].got \in {c, Nil}
BY DEF IInv, Types

\* one call moves on, and no id is drawn
LEMMA CallStep ==
    ASSUME IInv, NEW c \in Callers, NEW new \in Call,
           Become(c, new), nextId' = nextId,
           servers' \in Seq(Server), Len(servers) <= Len(servers'),
           proc' \in 0..Len(servers'), closing' \in 0..Len(servers'),
           \A s \in 1..Len(servers') :
              /\ FitAll(servers'[s].stdin, nextId, call)
              /\ FitAll(servers'[s].stdout, nextId, call),
           Expects(new) => Expects(call[c]) /\ new.id = call[c].id,
           CallOK(new, nextId, Len(servers')),
           new.got \in {c, Nil}
    PROVE  IInv'
<1>1. /\ call' \in [Callers -> Call] /\ call'[c] = new
      /\ \A d \in Callers \ {c} : call'[d] = call[d]
  BY DEF IInv, Types, Become
<1>2. Types'
  BY <1>1 DEF IInv, Types
<1>3. \A r : Fits(r, nextId, call) => Fits(r, nextId, call')
  BY <1>1 DEF Fits
<1>4. \A d \in Callers : CallOK(call'[d], nextId, Len(servers'))
  <2>1. Len(servers) \in Nat /\ Len(servers') \in Nat
    BY DEF IInv, Types
  <2>2. \A d \in Callers \ {c} : CallOK(call[d], nextId, Len(servers))
    BY DEF IInv
  <2> QED
    BY <1>1, <2>1, <2>2 DEF CallOK
<1>5. \A d \in Callers : call'[d].got \in {d, Nil}
  BY <1>1 DEF IInv
<1> QED
  BY <1>2, <1>3, <1>4, <1>5 DEF IInv, FitAll

\* a step of a server or of close changes no call
LEMMA ServerStep ==
    ASSUME IInv, UNCHANGED <<call, nextId>>,
           servers' \in Seq(Server), Len(servers') = Len(servers),
           proc' \in 0..Len(servers), closing' \in 0..Len(servers),
           \A s \in 1..Len(servers) :
              /\ FitAll(servers'[s].stdin, nextId, call)
              /\ FitAll(servers'[s].stdout, nextId, call)
    PROVE  IInv'
BY DEF IInv, Types

LEMMA SameServers ==
    ASSUME IInv, UNCHANGED servers
    PROVE  /\ servers' \in Seq(Server) /\ Len(servers) <= Len(servers')
           /\ \A s \in 1..Len(servers') :
                 /\ FitAll(servers'[s].stdin, nextId, call)
                 /\ FitAll(servers'[s].stdout, nextId, call)
BY DEF IInv, Types

LEMMA DeadServer ==
    ASSUME IInv, NEW s \in 1..Len(servers),
           servers' = [servers EXCEPT ![s].alive = FALSE]
    PROVE  /\ servers' \in Seq(Server) /\ Len(servers') = Len(servers)
           /\ \A r \in 1..Len(servers) :
                 /\ FitAll(servers'[r].stdin, nextId, call)
                 /\ FitAll(servers'[r].stdout, nextId, call)
<1>1. servers \in Seq(Server)
  BY DEF IInv, Types
<1> DEFINE dead == [servers[s] EXCEPT !.alive = FALSE]
<1>2. servers[s] \in Server
  BY <1>1
<1>3. dead \in Server /\ dead.stdin = servers[s].stdin /\ dead.stdout = servers[s].stdout
  BY <1>2 DEF Server
<1>4. servers' = [servers EXCEPT ![s] = dead]
  OBVIOUS
<1> HIDE DEF dead
<1>5. /\ servers' \in Seq(Server) /\ Len(servers') = Len(servers)
      /\ servers'[s] = dead
      /\ \A r \in 1..Len(servers) : r # s => servers'[r] = servers[r]
  <2>1. servers \in [1..Len(servers) -> Server] /\ Len(servers) \in Nat
    BY <1>1
  <2>2. servers' \in [1..Len(servers) -> Server]
    BY <1>3, <1>4, <2>1
  <2> QED
    BY <1>3, <1>4, <2>1, <2>2
<1>6. \A r \in 1..Len(servers) : /\ servers'[r].stdin = servers[r].stdin
                                 /\ servers'[r].stdout = servers[r].stdout
  BY <1>3, <1>5
<1>7. \A r \in 1..Len(servers) : /\ FitAll(servers[r].stdin, nextId, call)
                                 /\ FitAll(servers[r].stdout, nextId, call)
  BY DEF IInv
<1> QED
  BY <1>5, <1>6, <1>7

-----------------------------------------------------------------------------
LEMMA EndInv ==
    ASSUME IInv, NEW c \in Callers, NEW pc \in {"raised", "cancelled"},
           End(c, pc), UNCHANGED <<proc, nextId, servers, closing>>
    PROVE  IInv'
<1>1. /\ New(pc, Nil) \in Call /\ ~Expects(New(pc, Nil))
      /\ New(pc, Nil).pc = pc /\ New(pc, Nil).got = Nil
  BY NewCall
<1>2. proc' \in 0..Len(servers') /\ closing' \in 0..Len(servers')
  BY DEF IInv, Types
<1>3. CallOK(New(pc, Nil), nextId, Len(servers'))
  BY <1>1 DEF CallOK
<1> QED
  BY <1>1, <1>2, <1>3, SameServers, CallStep DEF End

LEMMA MoveInv ==
    ASSUME IInv, NEW c \in Callers,
           \/ BeginStart(c) \/ BeginRpc(c) \/ Restart(c) \/ Drain(c)
    PROVE  IInv'
<1>1. /\ call[c] \in Call /\ CallOK(call[c], nextId, Len(servers))
      /\ call[c].got \in {c, Nil}
  BY CallFacts
<1>2. UNCHANGED <<proc, nextId, servers, closing>>
  BY DEF BeginStart, BeginRpc, Restart, Drain
<1>3. proc' \in 0..Len(servers') /\ closing' \in 0..Len(servers')
  BY <1>2 DEF IInv, Types
<1>4. CASE Drain(c)
  <2> DEFINE new == [call[c] EXCEPT !.pc = "reading", !.reads = proc]
  <2>1. proc \in Nat /\ proc \in 1..Len(servers)
    BY <1>4 DEF Drain, IInv, Types
  <2>2. /\ new \in Call /\ new.pc = "reading" /\ new.reads = proc /\ new.id = call[c].id
        /\ new.got = call[c].got
    BY <1>1, <2>1 DEF Call
  <2>3. Become(c, new) /\ call[c].pc = "draining"
    BY <1>4 DEF Drain, At
  <2> HIDE DEF new
  <2>4. Expects(call[c]) /\ CallOK(new, nextId, Len(servers'))
    BY <1>1, <1>2, <2>1, <2>2, <2>3 DEF Expects, CallOK
  <2> QED
    BY <1>1, <1>2, <1>3, <2>2, <2>3, <2>4, SameServers, CallStep
<1>5. CASE BeginStart(c) \/ BeginRpc(c) \/ Restart(c)
  <2>1. PICK pc \in {"returned", "creating", "waiting"} :
           Become(c, [call[c] EXCEPT !.pc = pc])
    BY <1>5 DEF BeginStart, BeginRpc, Restart
  <2> DEFINE new == [call[c] EXCEPT !.pc = pc]
  <2>2. /\ new \in Call /\ new.pc = pc /\ new.got = call[c].got
    BY <1>1 DEF Call
  <2> HIDE DEF new
  <2>3. ~Expects(new) /\ CallOK(new, nextId, Len(servers'))
    BY <2>2 DEF Expects, CallOK
  <2> QED
    BY <1>1, <1>2, <1>3, <2>1, <2>2, <2>3, SameServers, CallStep DEF new
<1> QED
  BY <1>4, <1>5

LEMMA CreateInv ==
    ASSUME IInv, NEW c \in Callers, Create(c)
    PROVE  IInv'
<1>1. /\ call[c] \in Call /\ call[c].got \in {c, Nil}
  BY CallFacts
<1> DEFINE new == [call[c] EXCEPT !.pc = "waiting"]
           fresh == [alive |-> TRUE, stdin |-> <<>>, stdout |-> <<>>]
<1>2. /\ new \in Call /\ new.pc = "waiting" /\ new.got = call[c].got
  BY <1>1 DEF Call
<1>3. /\ fresh \in Server /\ fresh.stdin = <<>> /\ fresh.stdout = <<>>
  BY DEF Server
<1>4. /\ Become(c, new) /\ servers' = Append(servers, fresh)
      /\ proc' = Len(servers) + 1 /\ UNCHANGED <<nextId, closing>>
  BY DEF Create
<1> HIDE DEF new, fresh
<1>5. servers \in Seq(Server) /\ Len(servers) \in Nat /\ closing \in 0..Len(servers)
  BY DEF IInv, Types
<1>6. /\ servers' \in Seq(Server) /\ Len(servers') = Len(servers) + 1
      /\ \A s \in 1..Len(servers') :
            \/ s \in 1..Len(servers) /\ servers'[s] = servers[s]
            \/ servers'[s] = fresh
  BY <1>3, <1>4, <1>5
<1>7. FitAll(<<>>, nextId, call)
  BY DEF FitAll
<1>8. \A s \in 1..Len(servers') : /\ FitAll(servers'[s].stdin, nextId, call)
                                  /\ FitAll(servers'[s].stdout, nextId, call)
  BY <1>3, <1>6, <1>7 DEF IInv
<1>9. ~Expects(new) /\ CallOK(new, nextId, Len(servers'))
  BY <1>2 DEF Expects, CallOK
<1>10. /\ Len(servers) <= Len(servers')
       /\ proc' \in 0..Len(servers') /\ closing' \in 0..Len(servers')
  BY <1>4, <1>5, <1>6
<1> QED
  BY <1>1, <1>2, <1>4, <1>6, <1>8, <1>9, <1>10, CallStep

\* the only step that draws an id
LEMMA WriteInv ==
    ASSUME IInv, NEW c \in Callers, Write(c)
    PROVE  IInv'
<1>1. /\ call[c] \in Call /\ call[c].got \in {c, Nil} /\ nextId \in Nat
  BY CallFacts
<1>2. /\ servers \in Seq(Server) /\ Len(servers) \in Nat /\ proc \in 1..Len(servers)
      /\ closing \in 0..Len(servers) /\ call \in [Callers -> Call]
  BY DEF IInv, Types, Write, Live
<1> DEFINE new == [call[c] EXCEPT !.pc = "draining", !.id = nextId, !.wrote = proc]
           r == [id |-> nextId, of |-> c]
           loaded == [servers[proc] EXCEPT !.stdin = Append(servers[proc].stdin, r)]
<1>3. /\ new \in Call /\ new.pc = "draining" /\ new.id = nextId /\ new.got = call[c].got
  <2>1. [call[c] EXCEPT !.pc = "draining"] \in Call
    BY <1>1 DEF Call
  <2>2. proc \in Nat
    BY <1>2
  <2> QED
    BY <1>1, <2>1, <2>2 DEF Call
<1>4. r \in Request /\ r.id = nextId /\ r.of = c
  BY <1>1 DEF Request
<1>5. /\ nextId' = nextId + 1 /\ Become(c, new) /\ UNCHANGED <<proc, closing>>
      /\ servers' = [servers EXCEPT ![proc] = loaded]
  BY DEF Write
<1> HIDE DEF new, r
<1>6. /\ servers[proc] \in Server
      /\ servers[proc].stdin \in Seq(Request) /\ servers[proc].stdout \in Seq(Request)
  BY <1>2, ServerFacts DEF IInv
<1>7. /\ loaded \in Server /\ loaded.stdin = Append(servers[proc].stdin, r)
      /\ loaded.stdout = servers[proc].stdout
  <2>1. Append(servers[proc].stdin, r) \in Seq(Request)
    BY <1>4, <1>6, TailAppend
  <2> QED
    BY <1>6, <2>1 DEF Server
<1> HIDE DEF loaded
<1>8. /\ servers' \in Seq(Server) /\ Len(servers') = Len(servers)
      /\ servers'[proc] = loaded
      /\ \A s \in 1..Len(servers) : s # proc => servers'[s] = servers[s]
  BY <1>2, <1>5, <1>7
<1>9. /\ call' \in [Callers -> Call] /\ call'[c] = new
      /\ \A d \in Callers \ {c} : call'[d] = call[d]
  BY <1>2, <1>3, <1>5 DEF Become
<1>10. \A d \in Callers : CallOK(call[d], nextId, Len(servers)) /\ call[d].id \in Nat
  BY <1>2 DEF IInv, Call
<1>11. ASSUME NEW q \in Seq(Request), NEW k \in 1..Len(q), Fits(q[k], nextId, call)
       PROVE  Fits(q[k], nextId', call')
  <2>1. q[k] \in Request
    BY <1>11
  <2>2. q[k].id \in Nat
    BY <2>1 DEF Request
  <2>3. q[k].id < nextId'
    BY <1>1, <1>5, <1>11, <2>2 DEF Fits
  <2>4. q[k].id # new.id
    BY <1>1, <1>3, <1>11, <2>2 DEF Fits
  <2> QED
    BY <1>9, <1>11, <2>3, <2>4 DEF Fits
<1>12. Fits(r, nextId', call')
  <2>1. \A d \in Callers \ {c} : ~(Expects(call[d]) /\ call[d].id = nextId)
    BY <1>1, <1>10 DEF CallOK
  <2> QED
    BY <1>1, <1>4, <1>5, <1>9, <2>1 DEF Fits
<1>13. ASSUME NEW s \in 1..Len(servers)
       PROVE  /\ FitAll(servers'[s].stdin, nextId', call')
              /\ FitAll(servers'[s].stdout, nextId', call')
  <2>1. /\ servers[s].stdin \in Seq(Request) /\ servers[s].stdout \in Seq(Request)
        /\ FitAll(servers[s].stdin, nextId, call)
        /\ FitAll(servers[s].stdout, nextId, call)
    BY ServerFacts DEF IInv
  <2>2. /\ FitAll(servers[s].stdin, nextId', call')
        /\ FitAll(servers[s].stdout, nextId', call')
    BY <1>11, <2>1 DEF FitAll
  <2>3. CASE s = proc
    <3>1. FitAll(Append(servers[s].stdin, r), nextId', call')
      BY <1>4, <1>12, <2>1, <2>2, TailAppend, SMTT(30) DEF FitAll
    <3> QED
      BY <1>7, <1>8, <2>2, <2>3, <3>1
  <2>4. CASE s # proc
    BY <1>8, <2>2, <2>4
  <2> QED
    BY <2>3, <2>4
<1>14. \A d \in Callers : CallOK(call'[d], nextId', Len(servers'))
  <2>1. CallOK(new, nextId', Len(servers'))
    BY <1>1, <1>3, <1>5 DEF CallOK
  <2>2. \A d \in Callers \ {c} : CallOK(call[d], nextId', Len(servers'))
    BY <1>1, <1>5, <1>8, <1>10 DEF CallOK
  <2> QED
    BY <1>9, <2>1, <2>2
<1>15. \A d \in Callers : call'[d].got \in {d, Nil}
  BY <1>1, <1>3, <1>9 DEF IInv
<1>16. Types'
  BY <1>1, <1>2, <1>5, <1>8, <1>9 DEF Types
<1> QED
  BY <1>8, <1>13, <1>14, <1>15, <1>16 DEF IInv

LEMMA ReadInv ==
    ASSUME IInv, NEW c \in Callers, Read(c)
    PROVE  IInv'
<1> DEFINE s == call[c].reads
           q == servers[s].stdout
<1>1. /\ s \in 1..Len(servers) /\ Expects(call[c]) /\ Types /\ Len(servers) \in Nat
  BY CallFacts DEF Read, At, CallOK, Expects, IInv
<1>2. /\ servers \in Seq(Server) /\ servers[s] \in Server /\ q \in Seq(Request)
      /\ FitAll(servers[s].stdin, nextId, call) /\ FitAll(q, nextId, call)
  BY <1>1, ServerFacts DEF IInv, Types
<1>3. q # <<>>
  BY DEF Read, Stdout
<1> DEFINE rest == [servers[s] EXCEPT !.stdout = Tail(q)]
<1>4. /\ rest \in Server /\ rest.stdin = servers[s].stdin /\ rest.stdout = Tail(q)
  <2>1. Tail(q) \in Seq(Request)
    BY <1>2, <1>3
  <2> QED
    BY <1>2, <2>1 DEF Server
<1>5. /\ servers' = [servers EXCEPT ![s] = rest] /\ UNCHANGED <<proc, nextId, closing>>
  BY DEF Read
<1> HIDE DEF rest
<1>6. /\ servers' \in Seq(Server) /\ Len(servers') = Len(servers)
      /\ servers'[s] = rest
      /\ \A p \in 1..Len(servers) : p # s => servers'[p] = servers[p]
  BY <1>1, <1>2, <1>4, <1>5
<1>7. /\ Head(q) \in Request /\ Head(q) = q[1] /\ 1 \in 1..Len(q)
      /\ \A k \in 1..Len(Tail(q)) : k + 1 \in 1..Len(q) /\ Tail(q)[k] = q[k + 1]
  BY <1>2, <1>3
<1>8. FitAll(Tail(q), nextId, call) /\ Fits(Head(q), nextId, call)
  BY <1>2, <1>7 DEF FitAll
<1>9. \A p \in 1..Len(servers') : /\ FitAll(servers'[p].stdin, nextId, call)
                                  /\ FitAll(servers'[p].stdout, nextId, call)
  BY <1>2, <1>4, <1>6, <1>8 DEF IInv
<1>10. PICK pc \in {"returned", "raised"}, got \in {c, Nil} : Become(c, New(pc, got))
  <2>1. CASE IsAnswer(c, Head(q)) /\ Become(c, New("returned", Head(q).of))
    <3>1. Head(q).of = c
      BY <1>1, <1>8, <2>1 DEF IsAnswer, Fits
    <3> QED
      BY <2>1, <3>1
  <2>2. CASE Become(c, New("raised", Nil))
    BY <2>2
  <2> QED
    BY <2>1, <2>2 DEF Read, Stdout
<1>11. /\ New(pc, got) \in Call /\ ~Expects(New(pc, got))
       /\ New(pc, got).pc = pc /\ New(pc, got).got = got
  BY NewCall
<1>12. CallOK(New(pc, got), nextId, Len(servers'))
  BY <1>11 DEF CallOK
<1>13. /\ Len(servers) <= Len(servers')
       /\ proc' \in 0..Len(servers') /\ closing' \in 0..Len(servers')
  BY <1>1, <1>5, <1>6 DEF Types
<1> QED
  BY <1>5, <1>6, <1>9, <1>10, <1>11, <1>12, <1>13, CallStep

LEMMA AnswersInv ==
    ASSUME IInv, NEW s \in 1..Len(servers), Answers(s)
    PROVE  IInv'
<1> DEFINE in == servers[s].stdin
           out == servers[s].stdout
<1>1. /\ servers \in Seq(Server) /\ servers[s] \in Server
      /\ in \in Seq(Request) /\ out \in Seq(Request)
      /\ FitAll(in, nextId, call) /\ FitAll(out, nextId, call)
      /\ in # <<>> /\ proc \in 0..Len(servers) /\ closing \in 0..Len(servers)
  BY ServerFacts DEF IInv, Types, Answers
<1>2. Head(in) \in Request /\ Tail(in) \in Seq(Request)
  BY <1>1
<1>3. Append(out, Head(in)) \in Seq(Request)
  BY <1>1, <1>2
<1> DEFINE now == [servers[s] EXCEPT !.stdin = Tail(in), !.stdout = Append(out, Head(in))]
<1>4. /\ now \in Server /\ now.stdin = Tail(in) /\ now.stdout = Append(out, Head(in))
  BY <1>1, <1>2, <1>3 DEF Server
<1>5. /\ servers' = [servers EXCEPT ![s] = now] /\ UNCHANGED <<proc, nextId, call, closing>>
  <2>1. servers' = [servers EXCEPT ![s].stdin = Tail(in), ![s].stdout = Append(out, Head(in))]
    BY DEF Answers
  <2> QED
    BY <1>1, <2>1 DEF Answers, Server
<1> HIDE DEF now
<1>6. /\ servers' \in Seq(Server) /\ Len(servers') = Len(servers)
      /\ servers'[s] = now
      /\ \A p \in 1..Len(servers) : p # s => servers'[p] = servers[p]
  BY <1>1, <1>4, <1>5
<1>7. FitAll(Tail(in), nextId, call) /\ Fits(Head(in), nextId, call)
  <2>1. /\ Head(in) = in[1] /\ 1 \in 1..Len(in)
        /\ \A k \in 1..Len(Tail(in)) : k + 1 \in 1..Len(in) /\ Tail(in)[k] = in[k + 1]
    BY <1>1
  <2> QED
    BY <1>1, <2>1 DEF FitAll
<1>8. FitAll(Append(out, Head(in)), nextId, call)
  BY <1>1, <1>2, <1>7, TailAppend DEF FitAll
<1>9. \A p \in 1..Len(servers) : /\ FitAll(servers'[p].stdin, nextId, call)
                                 /\ FitAll(servers'[p].stdout, nextId, call)
  BY <1>4, <1>6, <1>7, <1>8 DEF IInv
<1> QED
  BY <1>1, <1>5, <1>6, <1>9, ServerStep

LEMMA CloseInv ==
    ASSUME IInv, Close \/ Closed \/ \E s \in DOMAIN servers : Dies(s)
    PROVE  IInv'
<1>1. /\ servers \in Seq(Server) /\ Len(servers) \in Nat /\ DOMAIN servers = 1..Len(servers)
      /\ proc \in 0..Len(servers) /\ closing \in 0..Len(servers)
  BY DEF IInv, Types
<1>2. UNCHANGED <<call, nextId>>
  BY DEF Close, Closed, Dies
<1>3. CASE Close
  BY <1>1, <1>2, <1>3, SameServers, ServerStep DEF Close
<1>4. CASE Closed
  <2>1. /\ closing \in 1..Len(servers)
        /\ servers' = [servers EXCEPT ![closing].alive = FALSE]
        /\ proc' \in 0..Len(servers) /\ closing' \in 0..Len(servers)
    BY <1>1, <1>4 DEF Closed
  <2> QED
    BY <1>2, <2>1, DeadServer, ServerStep
<1>5. CASE \E s \in DOMAIN servers : Dies(s)
  BY <1>1, <1>2, <1>5, DeadServer, ServerStep DEF Dies
<1> QED
  BY <1>3, <1>4, <1>5

LEMMA InitInv == Init => IInv
<1> SUFFICES ASSUME Init PROVE IInv
  OBVIOUS
<1>1. /\ New("idle", Nil) \in Call /\ New("idle", Nil).pc = "idle"
      /\ New("idle", Nil).got = Nil /\ ~Expects(New("idle", Nil))
  BY NewCall
<1>2. \A c \in Callers : call[c] = New("idle", Nil)
  BY DEF Init
<1>3. call \in [Callers -> Call]
  BY <1>1 DEF Init
<1>4. servers = <<>> /\ Len(servers) = 0 /\ nextId = 1 /\ proc = 0 /\ closing = 0
  BY DEF Init
<1>5. Types
  BY <1>3, <1>4 DEF Types
<1> QED
  BY <1>1, <1>2, <1>4, <1>5 DEF IInv, CallOK

LEMMA NextInv == IInv /\ [Next]_vars => IInv'
<1> SUFFICES ASSUME IInv, [Next]_vars
             PROVE  IInv'
  OBVIOUS
<1>1. ASSUME NEW c \in Callers, BeginStart(c) \/ BeginRpc(c) \/ Work(c) \/ Cancel(c)
      PROVE  IInv'
  <2>1. CASE BeginStart(c) \/ BeginRpc(c) \/ Restart(c) \/ Drain(c)
    BY <2>1, MoveInv
  <2>2. CASE CreateFails(c) \/ DrainFails(c) \/ EndOfFile(c) \/ Cancel(c)
    BY <2>2, EndInv DEF CreateFails, DrainFails, EndOfFile, Cancel
  <2>3. CASE Create(c) \/ Write(c) \/ Read(c)
    BY <2>3, CreateInv, WriteInv, ReadInv
  <2> QED
    BY <1>1, <2>1, <2>2, <2>3 DEF Work
<1>2. CASE Close \/ Closed \/ \E s \in DOMAIN servers : Dies(s)
  BY <1>2, CloseInv
<1>3. CASE \E s \in DOMAIN servers : Answers(s)
  <2>1. DOMAIN servers = 1..Len(servers)
    BY DEF IInv, Types
  <2> QED
    BY <1>3, <2>1, AnswersInv
<1>4. CASE UNCHANGED vars
  BY <1>4 DEF vars, IInv, Types
<1> QED
  BY <1>1, <1>2, <1>3, <1>4 DEF Next

\* Whatever processes die, are restarted or closed, and whoever gives up: a call
\* that returns an answer returns the answer to its own request.
THEOREM OwnAnswersOnly == Spec => []AnswersOwn
<1>1. IInv => AnswersOwn
  BY DEF IInv, AnswersOwn
<1> QED
  BY <1>1, InitInv, NextInv, PTL DEF Spec

-----------------------------------------------------------------------------
(***************************************************************************)
(* The lock: whoever writes or reads is at the head of the line.  Calls    *)
(* join the line behind it, and who leaves the line leaves the order of    *)
(* the others.                                                             *)
(***************************************************************************)

LockInv ==
    /\ line \in Seq(Callers)
    /\ nextId > 0
    /\ troubles \in 0..Troubles
    /\ \A c \in Callers : Expects(call[c]) => Holds(c)

LEMMA WithoutKeeps ==
    ASSUME NEW q \in Seq(Callers), NEW c \in Callers
    PROVE  /\ Without(q, c) \in Seq(Callers)
           /\ (q # <<>> /\ Head(q) # c) => /\ Without(q, c) # <<>>
                                          /\ Head(Without(q, c)) = Head(q)
<1>1. CASE c \in ToSet(q)
  <2> DEFINE i == CHOOSE i \in 1..Len(q) : q[i] = c
             front == SubSeq(q, 1, i - 1)
             rest == SubSeq(q, i + 1, Len(q))
  <2>1. i \in 1..Len(q) /\ q[i] = c
    BY <1>1 DEF ToSet
  <2>2. Without(q, c) = front \o rest
    BY <1>1 DEF Without, RemoveAt
  <2> HIDE DEF i
  <2>3. /\ front \in Seq(Callers) /\ rest \in Seq(Callers)
        /\ Len(front) = i - 1
        /\ i > 1 => front[1] = q[1]
    BY <2>1
  <2> HIDE DEF front, rest
  <2>4. front \o rest \in Seq(Callers)
    BY <2>3
  <2>5. ASSUME q # <<>>, Head(q) # c
        PROVE  front \o rest # <<>> /\ Head(front \o rest) = Head(q)
    <3>1. i > 1 /\ Head(q) = q[1]
      BY <2>1, <2>5
    <3>2. Len(front \o rest) > 0 /\ (front \o rest)[1] = front[1]
      BY <2>1, <2>3, <3>1
    <3> QED
      BY <2>3, <2>4, <3>1, <3>2
  <2> QED
    BY <2>2, <2>4, <2>5
<1>2. CASE c \notin ToSet(q)
  BY <1>2 DEF Without
<1> QED
  BY <1>1, <1>2

\* who leaves, leaves the holder where it is
LEMMA LeaveKeeps ==
    ASSUME LockInv, NEW c \in Callers, Leave(c)
    PROVE  /\ line' \in Seq(Callers)
           /\ \A d \in Callers \ {c} : Holds(d) => Holds(d)'
<1>1. line \in Seq(Callers)
  BY DEF LockInv
<1>2. Without(line, c) \in Seq(Callers)
  BY <1>1, WithoutKeeps
<1>3. line' \in Seq(Callers)
  BY <1>2, WithoutKeeps DEF Leave
<1>4. ASSUME NEW d \in Callers \ {c}, Holds(d)
      PROVE  Holds(d)'
  <2>1. Without(line, c) # <<>> /\ Head(Without(line, c)) = d
    BY <1>1, <1>4, WithoutKeeps DEF Holds
  <2> QED
    BY <1>2, <2>1, WithoutKeeps DEF Leave, Holds
<1> QED
  BY <1>3, <1>4

\* one call moves on: the others keep what they hold
LEMMA LockStep ==
    ASSUME IInv, LockInv, NEW c \in Callers, NEW new, Become(c, new),
           line' \in Seq(Callers), nextId' >= nextId, nextId' \in Nat,
           troubles' \in 0..Troubles,
           \A d \in Callers \ {c} : Holds(d) => Holds(d)',
           Expects(new) => Holds(c)'
    PROVE  LockInv'
<1>1. /\ call'[c] = new /\ \A d \in Callers \ {c} : call'[d] = call[d]
  BY DEF IInv, Types, Become
<1>2. nextId \in Nat /\ nextId' > 0
  BY DEF IInv, Types, LockInv
<1> QED
  BY <1>1, <1>2 DEF LockInv

LEMMA EndKeepsLock ==
    ASSUME IInv, LockInv, NEW c \in Callers,
           NEW pc \in {"returned", "raised", "cancelled"}, NEW got \in Callers \union {Nil},
           Leave(c), Become(c, New(pc, got)), nextId' = nextId, troubles' \in 0..Troubles
    PROVE  LockInv'
<1>1. ~Expects(New(pc, got)) /\ nextId \in Nat
  BY NewCall DEF IInv, Types
<1> QED
  BY <1>1, LeaveKeeps, LockStep

LEMMA WorkKeepsLock ==
    ASSUME IInv, LockInv, NEW c \in Callers,
           BeginStart(c) \/ BeginRpc(c) \/ Work(c) \/ Cancel(c)
    PROVE  LockInv'
<1>1. /\ call[c] \in Call /\ nextId \in Nat /\ line \in Seq(Callers)
      /\ troubles \in 0..Troubles /\ Troubles \in Nat
  BY CallFacts, CallersAssumption DEF LockInv
<1>2. CASE BeginStart(c) \/ Restart(c)
  <2>1. PICK pc \in {"returned", "creating"} :
           /\ Become(c, [call[c] EXCEPT !.pc = pc])
           /\ UNCHANGED <<nextId, line, troubles>>
    BY <1>2 DEF BeginStart, Restart
  <2> DEFINE new == [call[c] EXCEPT !.pc = pc]
  <2>2. ~Expects(new)
    BY <1>1 DEF Call, Expects
  <2>3. Become(c, new)
    BY <2>1
  <2> HIDE DEF new
  <2> QED
    BY <1>1, <2>1, <2>2, <2>3, LockStep DEF Holds
<1>3. CASE BeginRpc(c) \/ Create(c)
  <2> DEFINE new == [call[c] EXCEPT !.pc = "waiting"]
  <2>1. Become(c, new) /\ line' = Append(line, c) /\ UNCHANGED <<nextId, troubles>>
    BY <1>3 DEF BeginRpc, Create
  <2>2. ~Expects(new)
    BY <1>1 DEF Call, Expects
  <2> HIDE DEF new
  <2>3. line' \in Seq(Callers) /\ \A d \in Callers : Holds(d) => Holds(d)'
    BY <1>1, <2>1 DEF Holds
  <2> QED
    BY <1>1, <2>1, <2>2, <2>3, LockStep
<1>4. CASE Write(c)
  <2>1. PICK new : Become(c, new)
    BY <1>4 DEF Write
  <2>2. /\ nextId' = nextId + 1 /\ UNCHANGED <<line, troubles>> /\ Holds(c)
    BY <1>4 DEF Write, Acquired
  <2> QED
    BY <1>1, <2>1, <2>2, LockStep DEF Holds
<1>5. CASE Drain(c)
  <2>1. PICK new : Become(c, new)
    BY <1>5 DEF Drain
  <2>2. UNCHANGED <<nextId, line, troubles>> /\ Holds(c)
    BY <1>5 DEF Drain, At, LockInv, Expects
  <2> QED
    BY <1>1, <2>1, <2>2, LockStep DEF Holds
<1>6. CASE CreateFails(c) \/ DrainFails(c) \/ EndOfFile(c) \/ Cancel(c)
  <2>1. PICK pc \in {"raised", "cancelled"} : End(c, pc)
    BY <1>6 DEF CreateFails, DrainFails, EndOfFile, Cancel
  <2>2. nextId' = nextId /\ troubles' \in 0..Troubles
    BY <1>1, <1>6 DEF CreateFails, DrainFails, EndOfFile, Cancel, Trouble
  <2> QED
    BY <2>1, <2>2, EndKeepsLock DEF End
<1>7. CASE Read(c)
  <2>1. PICK pc \in {"returned", "raised"}, got \in Callers \union {Nil} :
           Become(c, New(pc, got))
    <3>1. CASE Become(c, New("returned", Head(Stdout(c)).of))
      <4>1. /\ Stdout(c) # <<>> /\ Stdout(c) \in Seq(Request)
        <5>1. call[c].reads \in 1..Len(servers)
          BY <1>7, CallFacts DEF Read, At, CallOK
        <5> QED
          BY <1>7, <5>1, ServerFacts DEF Read, Stdout, IInv
      <4>2. Head(Stdout(c)) \in Request
        BY <4>1
      <4>3. Head(Stdout(c)).of \in Callers
        BY <4>2 DEF Request
      <4> QED
        BY <3>1, <4>3
    <3>2. CASE Become(c, New("raised", Nil))
      BY <3>2
    <3> QED
      BY <1>7, <3>1, <3>2 DEF Read
  <2>2. Leave(c) /\ UNCHANGED <<nextId, troubles>>
    BY <1>7 DEF Read
  <2> QED
    BY <1>1, <2>1, <2>2, EndKeepsLock
<1> QED
  BY <1>2, <1>3, <1>4, <1>5, <1>6, <1>7 DEF Work

LEMMA LockInvStep == IInv /\ LockInv /\ [Next]_vars => LockInv'
<1> SUFFICES ASSUME IInv, LockInv, [Next]_vars
             PROVE  LockInv'
  OBVIOUS
<1>1. CASE Close \/ Closed \/ \E s \in DOMAIN servers : Dies(s) \/ Answers(s)
  <2>1. UNCHANGED <<nextId, line, call>>
    BY <1>1 DEF Close, Closed, Dies, Answers
  <2>2. troubles' \in 0..Troubles
    <3>1. troubles' = troubles \/ Trouble
      BY <1>1 DEF Close, Closed, Dies, Answers
    <3> QED
      BY <3>1, CallersAssumption DEF LockInv, Trouble
  <2> QED
    BY <2>1, <2>2 DEF LockInv, Holds
<1>2. CASE UNCHANGED vars
  BY <1>2 DEF vars, LockInv, Holds
<1> QED
  BY <1>1, <1>2, WorkKeepsLock DEF Next

\* The coroutines of the event loop share the process under the lock: whoever
\* writes a request or reads an answer holds it, whatever is restarted, closed or
\* cancelled in between.
THEOREM OneAtATime == Spec => []TypeOK
<1>1. Init => LockInv
  <2> SUFFICES ASSUME Init PROVE LockInv
    OBVIOUS
  <2>1. \A c \in Callers : ~Expects(call[c])
    <3>1. \A c \in Callers : call[c] = New("idle", Nil)
      BY DEF Init
    <3> QED
      BY <3>1, NewCall
  <2> QED
    BY <2>1, CallersAssumption DEF Init, LockInv
<1>2. IInv /\ LockInv => TypeOK
  BY DEF IInv, Types, LockInv, TypeOK, Expects
<1> QED
  BY <1>1, <1>2, InitInv, NextInv, LockInvStep, PTL DEF Spec
=============================================================================
