--------------------------- MODULE AccountsProofs ---------------------------
(***************************************************************************)
(* Safety of the rows of a guest for any calls, zones, metas and options   *)
(* and any calls that are lost.  One user: whoever is creating one holds   *)
(* the only lock on users while there is none.  True heirs: a call that    *)
(* has not ended has issued nothing, so no link leads to it yet, and the   *)
(* token it presents is somebody else's.                                   *)
(***************************************************************************)
EXTENDS Accounts, TLAPS, FiniteSetTheorems

Pcs == Open \union Over \union {"idle"}

\* no row is locked by two calls
LocksInv ==
    \A c, d \in Calls : c # d => call[c].locks \intersect call[d].locks = {}

\* what a call that is this far knows about users and tokens
Knows(c, j) ==
    /\ j.pc = "created" => users = {} /\ "user" \in j.locks
    /\ j.pc \in {"found", "issuing"} => users # {}
    /\ j.pc = "valid" => /\ c \in Refreshes
                         /\ j.presented \in Tokens
                         /\ token[j.presented] # "unissued"

UsersInv == users = {} \/ \E u \in Registers : users = {u}

\* only calls that have committed have issued a token, and for a user
IssuedInv ==
    \A k \in Tokens : token[k] # "unissued" =>
        /\ call[k].pc \in {"answered", "lost"}
        /\ users # {}
        /\ k \in Refreshes => call[k].presented \in Tokens

IInv ==
    /\ TypeOK
    /\ LocksInv
    /\ \A c \in Calls : Knows(c, call[c])
    /\ UsersInv
    /\ IssuedInv
    /\ HeirsAreTrue

-----------------------------------------------------------------------------
LEMMA KindsOfCalls ==
    /\ Registers \subseteq Tokens /\ Refreshes \subseteq Tokens
    /\ Tokens \subseteq Calls /\ Updates \subseteq Calls
    /\ Nil \notin Tokens
BY KindsAssumption DEF Tokens, Calls

LEMMA CallFacts ==
    ASSUME IInv, NEW c \in Calls
    PROVE  /\ call[c] \in CallState
           /\ call[c].pc \in Pcs
           /\ call[c].ask \in Payload
           /\ call[c].loaded \in Zones \union {Nil}
           /\ call[c].presented \in Tokens \union {Nil}
           /\ call[c].base \in [Keys -> Updates \union {Nil}]
           /\ call[c].locks \subseteq Rows
           /\ Knows(c, call[c])
BY DEF IInv, TypeOK, CallState, Pcs

LEMMA InitInv == Init => IInv
<1> SUFFICES ASSUME Init PROVE IInv
  OBVIOUS
<1>1. \A c \in Calls : call[c] = Idle
  BY DEF Init
<1>2. Idle \in CallState
  <2>1. Nothing \in Payload
    BY DEF Nothing, Payload
  <2>2. NoOptions \in [Keys -> Updates \union {Nil}]
    BY DEF NoOptions
  <2> QED
    BY <2>1, <2>2 DEF Idle, CallState
<1>3. TypeOK
  <2>1. call \in [Calls -> CallState]
    BY <1>1, <1>2 DEF Init
  <2>2. /\ users \subseteq Registers /\ zone \in Zones \union {Nil}
        /\ token \in [Tokens -> {"unissued", "live", "revoked"}]
        /\ heir \in [Tokens -> Tokens \union {Nil}]
        /\ expired \subseteq MayExpire /\ metas \subseteq Metas
        /\ options \in [Keys -> Updates \union {Nil}]
        /\ optionsRow \in BOOLEAN
    BY DEF Init, NoOptions
  <2> QED
    BY <2>1, <2>2 DEF TypeOK
<1>4. LocksInv /\ \A c \in Calls : Knows(c, call[c])
  BY <1>1 DEF LocksInv, Knows, Idle
<1>5. UsersInv /\ IssuedInv
  BY DEF Init, UsersInv, IssuedInv
<1>6. HeirsAreTrue
  BY KindsOfCalls DEF Init, HeirsAreTrue
<1> QED
  BY <1>3, <1>4, <1>5, <1>6 DEF IInv

-----------------------------------------------------------------------------
(* Steps of one call *)

\* the rows that are neither users nor tokens
OtherRowsOK ==
    /\ zone \in Zones \union {Nil}
    /\ expired \subseteq MayExpire
    /\ metas \subseteq Metas
    /\ options \in [Keys -> Updates \union {Nil}]
    /\ optionsRow \in BOOLEAN

LEMMA SameRows ==
    ASSUME IInv, UNCHANGED <<rows, expired>>
    PROVE  UNCHANGED <<users, token, heir>> /\ OtherRowsOK'
BY DEF rows, IInv, TypeOK, OtherRowsOK

\* A call that has not ended may take any new state that locks nothing which is
\* locked by others.
LEMMA SessionStep ==
    ASSUME IInv, NEW c \in Calls, call[c].pc \in Open \union {"idle"},
           NEW new \in CallState, call' = [call EXCEPT ![c] = new],
           \A d \in Calls \ {c} : new.locks \intersect call[d].locks = {},
           Knows(c, new),
           UNCHANGED <<users, token, heir>>, OtherRowsOK'
    PROVE  IInv'
<1>1. /\ call' \in [Calls -> CallState]
      /\ call'[c] = new
      /\ \A d \in Calls \ {c} : call'[d] = call[d]
  BY DEF IInv, TypeOK
<1>2. TypeOK'
  BY <1>1 DEF IInv, TypeOK, OtherRowsOK
<1>3. LocksInv'
  <2> SUFFICES ASSUME NEW d \in Calls, NEW e \in Calls, d # e
               PROVE  call'[d].locks \intersect call'[e].locks = {}
    BY DEF LocksInv
  <2>1. CASE d = c
    BY <1>1, <2>1
  <2>2. CASE e = c
    BY <1>1, <2>2
  <2>3. CASE d # c /\ e # c
    BY <1>1, <2>3 DEF IInv, LocksInv
  <2> QED
    BY <2>1, <2>2, <2>3
<1>4. \A d \in Calls : Knows(d, call[d])'
  BY <1>1 DEF IInv, Knows
<1>5. UsersInv'
  BY DEF IInv, UsersInv
<1>6. \A k \in Tokens : token[k] # "unissued" => k # c /\ k \in Calls
  BY KindsOfCalls DEF IInv, IssuedInv, Open
<1>7. IssuedInv'
  BY <1>1, <1>6 DEF IInv, IssuedInv
<1>8. HeirsAreTrue'
  <2>1. \A k \in Tokens : heir[k] # Nil =>
          /\ heir[k] \in Refreshes
          /\ token[heir[k]] # "unissued"
          /\ call'[heir[k]].presented = k
    BY <1>1, <1>6, KindsOfCalls DEF IInv, HeirsAreTrue
  <2>2. \A d \in Refreshes : token[d] # "unissued" => token[call'[d].presented] = "revoked"
    BY <1>1, <1>6, KindsOfCalls DEF IInv, HeirsAreTrue
  <2> QED
    BY <2>1, <2>2 DEF IInv, HeirsAreTrue
<1> QED
  BY <1>2, <1>3, <1>4, <1>5, <1>7, <1>8 DEF IInv

\* the places in a call that say nothing about users and tokens
Plain == Pcs \ {"created", "found", "issuing", "valid"}

LEMMA GotoInv ==
    ASSUME IInv, NEW c \in Calls, call[c].pc \in Open \union {"idle"},
           NEW pc \in Pcs, Goto(c, pc),
           pc \in Plain \/ (pc = "issuing" /\ users # {}),
           UNCHANGED <<rows, expired>>
    PROVE  IInv'
<1> DEFINE new == [call[c] EXCEPT !.pc = pc]
<1>1. call' = [call EXCEPT ![c] = new]
  BY CallFacts DEF Goto, IInv, TypeOK
<1>2. call[c] \in CallState
  BY CallFacts
<1>3. new \in CallState /\ new.pc = pc /\ new.locks = call[c].locks
  BY <1>2 DEF CallState, Pcs
<1>4. \A d \in Calls \ {c} : new.locks \intersect call[d].locks = {}
  BY <1>3 DEF IInv, LocksInv
<1> HIDE DEF new
<1>5. Knows(c, new)
  BY <1>3 DEF Knows, Plain
<1> QED
  BY <1>1, <1>3, <1>4, <1>5, SameRows, SessionStep

LEMMA WriteInv ==
    ASSUME IInv, NEW c \in Calls, call[c].pc \in Open \union {"idle"},
           NEW some \in SUBSET Rows, NEW pc \in Pcs, Write(c, some, pc),
           \/ pc \in Plain
           \/ pc = "issuing" /\ users # {}
           \/ pc = "created" /\ users = {} /\ "user" \in some,
           UNCHANGED <<rows, expired>>
    PROVE  IInv'
<1> DEFINE new == [call[c] EXCEPT !.pc = pc, !.locks = call[c].locks \union some]
<1>1. call' = [call EXCEPT ![c] = new]
  BY DEF Write, IInv, TypeOK
<1>2. call[c] \in CallState /\ call[c].locks \subseteq Rows
  BY CallFacts
<1>3. new \in CallState /\ new.pc = pc /\ new.locks = call[c].locks \union some
  BY <1>2 DEF CallState, Pcs
<1>4. \A d \in Calls \ {c} : new.locks \intersect call[d].locks = {}
  BY <1>3 DEF IInv, LocksInv, Write, Free
<1> HIDE DEF new
<1>5. Knows(c, new)
  BY <1>3 DEF Knows, Plain
<1> QED
  BY <1>1, <1>3, <1>4, <1>5, SameRows, SessionStep

LEMMA EndInv ==
    ASSUME IInv, NEW c \in Calls, call[c].pc \in Open \union {"idle"},
           NEW outcome \in Over, End(c, outcome),
           UNCHANGED <<rows, expired>>
    PROVE  IInv'
<1> DEFINE new == [call[c] EXCEPT !.pc = outcome, !.locks = {}]
<1>1. call' = [call EXCEPT ![c] = new]
  BY DEF End, IInv, TypeOK
<1>2. call[c] \in CallState
  BY CallFacts
<1>3. new \in CallState /\ new.pc = outcome /\ new.locks = {}
  BY <1>2 DEF CallState
<1> HIDE DEF new
<1>4. Knows(c, new)
  BY <1>3 DEF Knows, Over
<1> QED
  BY <1>1, <1>3, <1>4, SameRows, SessionStep

-----------------------------------------------------------------------------
(* register_guest *)

LEMMA FindUserInv ==
    ASSUME IInv, NEW c \in Registers, FindUser(c)
    PROVE  IInv'
<1> DEFINE pc == IF users = {} THEN "absent" ELSE "found"
           ask == [call[c].ask EXCEPT !.zone = Zone[c]]
           new == [call[c] EXCEPT !.pc = pc, !.ask = ask, !.loaded = zone]
<1>1. c \in Calls /\ call[c].pc \in Open \union {"idle"}
  BY KindsOfCalls DEF FindUser, At
<1>2. call' = [call EXCEPT ![c] = new]
  BY DEF FindUser
<1>3. ask \in Payload
  BY <1>1, CallFacts, InputsAssumption DEF Payload
<1>4. pc \in Open /\ (pc = "found" => users # {}) /\ pc \notin {"created", "issuing", "valid"}
  BY DEF Open
<1>5. zone \in Zones \union {Nil}
  BY DEF IInv, TypeOK
<1> HIDE DEF pc, ask
<1>6. call[c] \in CallState
  BY <1>1, CallFacts
<1>7. new \in CallState /\ new.pc = pc /\ new.locks = call[c].locks
  BY <1>3, <1>4, <1>5, <1>6 DEF CallState
<1> HIDE DEF new
<1>8. Knows(c, new)
  BY <1>4, <1>7 DEF Knows
<1>9. \A d \in Calls \ {c} : new.locks \intersect call[d].locks = {}
  BY <1>1, <1>7 DEF IInv, LocksInv
<1> QED
  BY <1>1, <1>2, <1>7, <1>8, <1>9, SameRows, SessionStep DEF FindUser

LEMMA CreateGuestInv ==
    ASSUME IInv, NEW c \in Registers, CreateGuest(c)
    PROVE  IInv'
<1>1. c \in Calls /\ call[c].pc \in Open \union {"idle"}
  BY KindsOfCalls DEF CreateGuest, At, Open
<1>2. {"user"} \in SUBSET Rows /\ "created" \in Pcs /\ "failed" \in Over
  BY DEF Rows, Pcs, Open, Over
<1>3. CASE users = {}
  BY <1>1, <1>2, <1>3, WriteInv DEF CreateGuest
<1>4. CASE users # {}
  BY <1>1, <1>2, <1>4, EndInv DEF CreateGuest
<1> QED
  BY <1>3, <1>4

LEMMA MoveGuestInv ==
    ASSUME IInv, NEW c \in Registers, MoveGuest(c)
    PROVE  IInv'
<1>1. c \in Calls /\ call[c].pc \in Open \union {"idle"}
  BY KindsOfCalls DEF MoveGuest, At, Open
<1>2. {"user"} \in SUBSET Rows /\ "issuing" \in Pcs
  BY DEF Rows, Pcs, Open
<1>3. users # {}
  BY <1>1, CallFacts DEF MoveGuest, At, Knows
<1> QED
  BY <1>1, <1>2, <1>3, WriteInv, GotoInv DEF MoveGuest

LEMMA EndFacts ==
    ASSUME IInv, NEW c \in Calls, Respond(c)
    PROVE  /\ call' \in [Calls -> CallState]
           /\ call'[c].pc \in {"answered", "lost"}
           /\ call'[c].presented = call[c].presented
           /\ call'[c].locks = {}
           /\ \A d \in Calls \ {c} : call'[d] = call[d]
<1>1. PICK outcome \in {"answered", "lost"} : End(c, outcome)
  BY DEF Respond
<1> DEFINE new == [call[c] EXCEPT !.pc = outcome, !.locks = {}]
<1>2. call' = [call EXCEPT ![c] = new]
  BY <1>1 DEF End, IInv, TypeOK
<1>3. call[c] \in CallState
  BY CallFacts
<1>4. /\ new \in CallState /\ new.pc = outcome /\ new.locks = {}
      /\ new.presented = call[c].presented
  BY <1>3 DEF CallState, Over
<1> HIDE DEF new
<1> QED
  BY <1>2, <1>4 DEF IInv, TypeOK

LEMMA CommitUserType ==
    ASSUME IInv, NEW c \in Calls, CommitUser(c)
    PROVE  zone' \in Zones \union {Nil}
BY CallFacts DEF CommitUser, IInv, TypeOK, Payload

\* a lock that is given back leaves those of others as they are
LEMMA FewerLocks ==
    ASSUME IInv, NEW c \in Calls, call'[c].locks = {},
           \A d \in Calls \ {c} : call'[d] = call[d]
    PROVE  LocksInv'
<1> SUFFICES ASSUME NEW d \in Calls, NEW e \in Calls, d # e
             PROVE  call'[d].locks \intersect call'[e].locks = {}
  BY DEF LocksInv
<1> QED
  BY DEF IInv, LocksInv

LEMMA IssueInv ==
    ASSUME IInv, NEW c \in Registers, Issue(c)
    PROVE  IInv'
<1>1. c \in Calls /\ c \in Tokens /\ c \notin Refreshes
  BY KindsOfCalls, KindsAssumption
<1>2. /\ call' \in [Calls -> CallState]
      /\ call'[c].pc \in {"answered", "lost"}
      /\ call'[c].locks = {}
      /\ \A d \in Calls \ {c} : call'[d] = call[d]
  BY <1>1, EndFacts DEF Issue
<1>3. /\ token' \in [Tokens -> {"unissued", "live", "revoked"}]
      /\ token'[c] = "live"
      /\ \A k \in Tokens \ {c} : token'[k] = token[k]
  BY <1>1 DEF Issue, IInv, TypeOK
<1>4. token[c] = "unissued"
  <2>1. call[c].pc \notin {"answered", "lost"}
    BY DEF Issue
  <2> QED
    BY <1>1, <2>1 DEF IInv, IssuedInv
<1>5. users' # {} /\ UsersInv'
  <2>1. CASE At(c, "created")
    <3>1. users = {}
      BY <1>1, <2>1, CallFacts DEF Knows, At
    <3> QED
      BY <2>1, <3>1 DEF Issue, UsersInv
  <2>2. CASE ~At(c, "created")
    <3>1. users # {}
      BY <1>1, <2>2, CallFacts DEF Issue, Knows, At
    <3> QED
      BY <2>2, <3>1 DEF Issue, IInv, UsersInv
  <2> QED
    BY <2>1, <2>2
<1>6. TypeOK'
  <2>1. users' \subseteq Registers
    BY DEF Issue, IInv, TypeOK
  <2>2. zone' \in Zones \union {Nil}
    BY <1>1, CommitUserType DEF Issue
  <2> QED
    BY <1>2, <1>3, <2>1, <2>2 DEF Issue, IInv, TypeOK
<1>7. LocksInv'
  BY <1>1, <1>2, FewerLocks
<1>8. \A d \in Calls : Knows(d, call[d])'
  <2> SUFFICES ASSUME NEW d \in Calls
               PROVE  Knows(d, call[d])'
    OBVIOUS
  <2>1. CASE d = c
    BY <1>2, <2>1 DEF Knows
  <2>2. CASE d # c
    <3>1. call[d].pc # "created"
      <4> SUFFICES ASSUME call[d].pc = "created"
                   PROVE  FALSE
        OBVIOUS
      <4>1. users = {} /\ "user" \in call[d].locks
        BY CallFacts DEF Knows
      <4>2. "user" \in call[c].locks
        BY <1>1, <4>1, CallFacts DEF Issue, Knows, At
      <4> QED
        BY <1>1, <2>2, <4>1, <4>2 DEF IInv, LocksInv
    <3>2. Knows(d, call[d]) /\ call'[d] = call[d]
      BY <1>2, <2>2, CallFacts
    <3> QED
      BY <1>3, <1>5, <3>1, <3>2 DEF Knows
  <2> QED
    BY <2>1, <2>2
<1>9. IssuedInv'
  BY <1>1, <1>2, <1>3, <1>5, KindsOfCalls DEF IInv, IssuedInv
<1>10. HeirsAreTrue'
  <2>1. UNCHANGED heir
    BY DEF Issue
  <2>2. \A k \in Tokens : (token'[k] = "revoked") <=> (heir[k] # Nil)
    BY <1>3, <1>4 DEF IInv, HeirsAreTrue
  <2>3. \A k \in Tokens : heir[k] # Nil =>
          /\ heir[k] \in Refreshes
          /\ token'[heir[k]] # "unissued"
          /\ call'[heir[k]].presented = k
    BY <1>1, <1>2, <1>3, KindsOfCalls DEF IInv, HeirsAreTrue
  <2>4. \A d \in Refreshes : token'[d] # "unissued" => token'[call'[d].presented] = "revoked"
    <3> SUFFICES ASSUME NEW d \in Refreshes, token'[d] # "unissued"
                 PROVE  token'[call'[d].presented] = "revoked"
      OBVIOUS
    <3>1. d # c /\ d \in Tokens /\ d \in Calls
      BY <1>1, KindsOfCalls
    <3>2. token[d] # "unissued" /\ call'[d] = call[d]
      BY <1>2, <1>3, <3>1
    <3>3. call[d].presented \in Tokens /\ token[call[d].presented] = "revoked"
      BY <3>1, <3>2 DEF IInv, IssuedInv, HeirsAreTrue
    <3> QED
      BY <1>3, <1>4, <3>2, <3>3
  <2> QED
    BY <2>1, <2>2, <2>3, <2>4 DEF HeirsAreTrue
<1> QED
  BY <1>5, <1>6, <1>7, <1>8, <1>9, <1>10 DEF IInv

-----------------------------------------------------------------------------
(* refresh_tokens *)

LEMMA PresentInv ==
    ASSUME IInv, NEW c \in Refreshes, NEW k \in Tokens, Present(c, k)
    PROVE  IInv'
<1>1. c \in Calls /\ call[c].pc \in Open \union {"idle"}
  BY KindsOfCalls DEF Present, At
<1>2. CASE token[k] = "live" /\ k \notin expired
  <2> DEFINE new == [call[c] EXCEPT !.pc = "valid", !.presented = k]
  <2>1. call' = [call EXCEPT ![c] = new]
    BY <1>2 DEF Present
  <2>2. call[c] \in CallState
    BY <1>1, CallFacts
  <2>3. /\ new \in CallState /\ new.pc = "valid" /\ new.presented = k
        /\ new.locks = call[c].locks
    BY <2>2 DEF CallState, Open
  <2> HIDE DEF new
  <2>4. Knows(c, new)
    BY <1>2, <2>3 DEF Knows
  <2>5. \A d \in Calls \ {c} : new.locks \intersect call[d].locks = {}
    BY <1>1, <2>3 DEF IInv, LocksInv
  <2> QED
    BY <1>1, <2>1, <2>3, <2>4, <2>5, SameRows, SessionStep DEF Present
<1>3. CASE ~(token[k] = "live" /\ k \notin expired)
  <2>1. "refused" \in Pcs /\ "refused" \in Plain
    BY DEF Pcs, Plain, Over
  <2> QED
    BY <1>1, <1>3, <2>1, GotoInv DEF Present
<1> QED
  BY <1>2, <1>3

LEMMA RotateInv ==
    ASSUME IInv, NEW c \in Refreshes, Rotate(c)
    PROVE  IInv'
<1> DEFINE old == call[c].presented
<1>1. c \in Calls /\ c \in Tokens
  BY KindsOfCalls
<1>2. /\ call' \in [Calls -> CallState]
      /\ call'[c].pc \in {"answered", "lost"}
      /\ call'[c].presented = old
      /\ call'[c].locks = {}
      /\ \A d \in Calls \ {c} : call'[d] = call[d]
  BY <1>1, EndFacts DEF Rotate
<1>3. token[c] = "unissued"
  <2>1. call[c].pc \notin {"answered", "lost"}
    BY DEF Rotate, At
  <2> QED
    BY <1>1, <2>1 DEF IInv, IssuedInv
<1>4. old \in Tokens /\ token[old] # "unissued" /\ old # c
  BY <1>1, <1>3, CallFacts DEF Rotate, At, Knows
<1>5. users # {}
  BY <1>4 DEF IInv, IssuedInv
<1>6. /\ token' \in [Tokens -> {"unissued", "live", "revoked"}]
      /\ token'[c] = "live" /\ token'[old] = "revoked"
      /\ \A k \in Tokens \ {c, old} : token'[k] = token[k]
  BY <1>1, <1>4 DEF Rotate, IInv, TypeOK
<1>7. /\ heir' \in [Tokens -> Tokens \union {Nil}]
      /\ heir'[old] = c
      /\ \A k \in Tokens \ {old} : heir'[k] = heir[k]
  BY <1>1, <1>4 DEF Rotate, IInv, TypeOK
<1> HIDE DEF old
<1>8. TypeOK'
  BY <1>2, <1>6, <1>7 DEF Rotate, IInv, TypeOK
<1>9. LocksInv'
  BY <1>1, <1>2, FewerLocks
<1>10. \A d \in Calls : Knows(d, call[d])'
  <2> SUFFICES ASSUME NEW d \in Calls
               PROVE  Knows(d, call[d])'
    OBVIOUS
  <2>1. CASE d = c
    BY <1>2, <2>1 DEF Knows
  <2>2. CASE d # c
    <3>1. Knows(d, call[d]) /\ call'[d] = call[d]
      BY <1>2, <2>2, CallFacts
    <3>2. \A k \in Tokens : token[k] # "unissued" => token'[k] # "unissued"
      BY <1>3, <1>6
    <3> QED
      BY <3>1, <3>2 DEF Knows, Rotate
  <2> QED
    BY <2>1, <2>2
<1>11. UsersInv'
  BY DEF Rotate, IInv, UsersInv
<1>12. IssuedInv'
  <2> SUFFICES ASSUME NEW k \in Tokens, token'[k] # "unissued"
               PROVE  /\ call'[k].pc \in {"answered", "lost"}
                      /\ users' # {}
                      /\ k \in Refreshes => call'[k].presented \in Tokens
    BY DEF IssuedInv
  <2>1. CASE k = c
    BY <1>2, <1>4, <1>5, <2>1 DEF Rotate
  <2>2. CASE k # c
    <3>1. token[k] # "unissued" /\ k \in Calls
      BY <1>4, <1>6, <2>2, KindsOfCalls
    <3> QED
      BY <1>2, <2>2, <3>1 DEF Rotate, IInv, IssuedInv
  <2> QED
    BY <2>1, <2>2
<1>13. HeirsAreTrue'
  <2>1. \A k \in Tokens : (token'[k] = "revoked") <=> (heir'[k] # Nil)
    BY <1>1, <1>3, <1>6, <1>7, KindsOfCalls DEF IInv, HeirsAreTrue
  <2>2. ASSUME NEW k \in Tokens, heir'[k] # Nil
        PROVE  /\ heir'[k] \in Refreshes
               /\ token'[heir'[k]] # "unissued"
               /\ call'[heir'[k]].presented = k
    <3>1. CASE k = old
      BY <1>2, <1>6, <1>7, <3>1
    <3>2. CASE k # old
      <4>1. /\ heir'[k] = heir[k] /\ heir[k] \in Refreshes
            /\ token[heir[k]] # "unissued" /\ call[heir[k]].presented = k
        BY <1>7, <2>2, <3>2 DEF IInv, HeirsAreTrue
      <4>2. heir[k] # c /\ heir[k] \in Tokens /\ heir[k] \in Calls
        BY <1>3, <4>1, KindsOfCalls
      <4> QED
        BY <1>2, <1>6, <4>1, <4>2
    <3> QED
      BY <3>1, <3>2
  <2>3. ASSUME NEW d \in Refreshes, token'[d] # "unissued"
        PROVE  token'[call'[d].presented] = "revoked"
    <3>1. CASE d = c
      BY <1>2, <1>6, <3>1
    <3>2. CASE d # c
      <4>1. d \in Tokens /\ d \in Calls
        BY KindsOfCalls
      <4>2. token[d] # "unissued" /\ call'[d] = call[d]
        BY <1>2, <1>4, <1>6, <2>3, <3>2, <4>1
      <4>3. call[d].presented \in Tokens /\ token[call[d].presented] = "revoked"
        BY <4>1, <4>2 DEF IInv, IssuedInv, HeirsAreTrue
      <4> QED
        BY <1>3, <1>6, <4>2, <4>3
    <3> QED
      BY <3>1, <3>2
  <2> QED
    BY <2>1, <2>2, <2>3 DEF HeirsAreTrue
<1> QED
  BY <1>8, <1>9, <1>10, <1>11, <1>12, <1>13 DEF IInv

LEMMA ExpireInv ==
    ASSUME IInv, NEW k \in Tokens, Expire(k)
    PROVE  IInv'
<1> USE DEF Expire, rows, IInv
<1>1. TypeOK'
  BY DEF TypeOK
<1>2. LocksInv' /\ \A c \in Calls : Knows(c, call[c])'
  BY DEF LocksInv, Knows
<1>3. UsersInv' /\ IssuedInv' /\ HeirsAreTrue'
  BY DEF UsersInv, IssuedInv, HeirsAreTrue
<1> QED
  BY <1>1, <1>2, <1>3

-----------------------------------------------------------------------------
(* update_user *)

LEMMA LoadInv ==
    ASSUME IInv, NEW c \in Updates, Load(c)
    PROVE  IInv'
<1>1. c \in Calls /\ call[c].pc \in Open \union {"idle"}
  BY KindsOfCalls DEF Load, At
<1>2. PICK ask \in Asks[c] :
        call' = [call EXCEPT ![c] = [@ EXCEPT !.pc = "loaded", !.ask = ask, !.loaded = zone]]
  BY DEF Load
<1>3. ask \in Payload
  BY InputsAssumption
<1> DEFINE new == [call[c] EXCEPT !.pc = "loaded", !.ask = ask, !.loaded = zone]
<1>4. call[c] \in CallState /\ zone \in Zones \union {Nil}
  BY <1>1, CallFacts DEF IInv, TypeOK
<1>5. new \in CallState /\ new.pc = "loaded" /\ new.locks = call[c].locks
  BY <1>3, <1>4 DEF CallState, Open
<1>6. call' = [call EXCEPT ![c] = new]
  BY <1>2
<1> HIDE DEF new
<1>7. Knows(c, new)
  BY <1>5 DEF Knows
<1>8. \A d \in Calls \ {c} : new.locks \intersect call[d].locks = {}
  BY <1>1, <1>5 DEF IInv, LocksInv
<1> QED
  BY <1>1, <1>5, <1>6, <1>7, <1>8, SameRows, SessionStep DEF Load

LEMMA PlacesOfUpdate ==
    \A pc \in {"zoned", "attached", "detached", "missing", "merging", "ready"} :
        pc \in Pcs /\ pc \in Plain
BY DEF Pcs, Plain, Open

LEMMA SetZoneInv ==
    ASSUME IInv, NEW c \in Updates, SetZone(c)
    PROVE  IInv'
<1>1. c \in Calls /\ call[c].pc \in Open \union {"idle"}
  BY KindsOfCalls DEF SetZone, At, Open
<1>2. {"user"} \in SUBSET Rows
  BY DEF Rows
<1> QED
  BY <1>1, <1>2, PlacesOfUpdate, WriteInv, GotoInv DEF SetZone

LEMMA RollbackInv ==
    ASSUME IInv, NEW c \in Calls, call[c].pc \in Open, NEW outcome \in Over,
           Rollback(c, outcome)
    PROVE  IInv'
BY EndInv DEF Rollback

LEMMA AttachMetasInv ==
    ASSUME IInv, NEW c \in Updates, AttachMetas(c)
    PROVE  IInv'
<1>1. c \in Calls /\ call[c].pc \in Open
  BY KindsOfCalls DEF AttachMetas, At, Open
<1>2. CASE call[c].ask.attach \subseteq Metas
  <2>1. call[c].ask.attach \ metas \in SUBSET Rows
    BY <1>2 DEF Rows
  <2> QED
    BY <1>1, <1>2, <2>1, PlacesOfUpdate, WriteInv DEF AttachMetas
<1>3. CASE ~(call[c].ask.attach \subseteq Metas)
  <2>1. "refused" \in Over
    BY DEF Over
  <2> QED
    BY <1>1, <1>3, <2>1, RollbackInv DEF AttachMetas
<1> QED
  BY <1>2, <1>3

LEMMA DetachMetasInv ==
    ASSUME IInv, NEW c \in Updates, DetachMetas(c)
    PROVE  IInv'
<1>1. c \in Calls /\ call[c].pc \in Open
  BY KindsOfCalls DEF DetachMetas, At, Open
<1>2. CASE call[c].ask.detach \subseteq Metas
  <2>1. call[c].ask.detach \intersect (metas \union call[c].locks) \in SUBSET Rows
    BY <1>2 DEF Rows
  <2> QED
    BY <1>1, <1>2, <2>1, PlacesOfUpdate, WriteInv DEF DetachMetas
<1>3. CASE ~(call[c].ask.detach \subseteq Metas)
  <2>1. "refused" \in Over
    BY DEF Over
  <2> QED
    BY <1>1, <1>3, <2>1, RollbackInv DEF DetachMetas
<1> QED
  BY <1>2, <1>3

LEMMA ReadOptionsInv ==
    ASSUME IInv, NEW c \in Updates, ReadOptions(c)
    PROVE  IInv'
<1> DEFINE pc == IF ~call[c].ask.sends THEN "ready"
                 ELSE IF optionsRow THEN "merging" ELSE "missing"
           new == [call[c] EXCEPT !.pc = pc, !.base = options]
<1>1. c \in Calls /\ call[c].pc \in Open \union {"idle"}
  BY KindsOfCalls DEF ReadOptions, At, Open
<1>2. call' = [call EXCEPT ![c] = new]
  BY DEF ReadOptions
<1>3. pc \in {"ready", "merging", "missing"}
  OBVIOUS
<1> HIDE DEF pc
<1>4. call[c] \in CallState /\ options \in [Keys -> Updates \union {Nil}]
  BY <1>1, CallFacts DEF IInv, TypeOK
<1>5. new \in CallState /\ new.pc = pc /\ new.locks = call[c].locks
  BY <1>3, <1>4 DEF CallState, Open
<1> HIDE DEF new
<1>6. Knows(c, new)
  BY <1>3, <1>5 DEF Knows
<1>7. \A d \in Calls \ {c} : new.locks \intersect call[d].locks = {}
  BY <1>1, <1>5 DEF IInv, LocksInv
<1> QED
  BY <1>1, <1>2, <1>5, <1>6, <1>7, SameRows, SessionStep DEF ReadOptions

LEMMA InsertOptionsInv ==
    ASSUME IInv, NEW c \in Updates, InsertOptions(c)
    PROVE  IInv'
<1>1. c \in Calls /\ call[c].pc \in Open \union {"idle"}
  BY KindsOfCalls DEF InsertOptions, At, Open
<1>2. {"options"} \in SUBSET Rows /\ "failed" \in Over
  BY DEF Rows, Over
<1> QED
  BY <1>1, <1>2, PlacesOfUpdate, WriteInv, EndInv DEF InsertOptions

LEMMA MergeOptionsInv ==
    ASSUME IInv, NEW c \in Updates, MergeOptions(c)
    PROVE  IInv'
<1>1. c \in Calls /\ call[c].pc \in Open \union {"idle"}
  BY KindsOfCalls DEF MergeOptions, At, Open
<1>2. {"options"} \in SUBSET Rows
  BY DEF Rows
<1> QED
  BY <1>1, <1>2, PlacesOfUpdate, WriteInv, GotoInv DEF MergeOptions

LEMMA CommitUpdateInv ==
    ASSUME IInv, NEW c \in Updates, CommitUpdate(c)
    PROVE  IInv'
<1>1. c \in Calls /\ call[c].pc \in Open \union {"idle"}
  BY KindsOfCalls DEF CommitUpdate, At, Open
<1>2. PICK outcome \in {"answered", "lost"} : End(c, outcome)
  BY DEF CommitUpdate, Respond
<1> DEFINE new == [call[c] EXCEPT !.pc = outcome, !.locks = {}]
<1>3. call' = [call EXCEPT ![c] = new]
  BY <1>2 DEF End, IInv, TypeOK
<1>4. call[c] \in CallState
  BY <1>1, CallFacts
<1>5. new \in CallState /\ new.pc = outcome /\ new.locks = {}
  BY <1>4 DEF CallState, Over
<1> HIDE DEF new
<1>6. Knows(c, new)
  BY <1>5 DEF Knows
<1>7. OtherRowsOK'
  <2>1. zone' \in Zones \union {Nil}
    BY <1>1, CommitUserType DEF CommitUpdate
  <2>2. metas' \subseteq Metas
    <3>1. call[c].ask.attach \intersect call[c].locks \subseteq Metas
      <4>1. call[c].ask.attach \subseteq Named /\ call[c].locks \subseteq Rows
        BY <1>1, CallFacts DEF Payload
      <4> QED
        BY <4>1, RowsAssumption DEF Rows
    <3> QED
      BY <3>1 DEF CommitUpdate, IInv, TypeOK
  <2>3. options' \in [Keys -> Updates \union {Nil}]
    BY <1>1, CallFacts DEF CommitUpdate, Merged, IInv, TypeOK
  <2>4. optionsRow' \in BOOLEAN /\ expired' \subseteq MayExpire
    BY DEF CommitUpdate, IInv, TypeOK
  <2> QED
    BY <2>1, <2>2, <2>3, <2>4 DEF OtherRowsOK
<1> QED
  BY <1>1, <1>3, <1>5, <1>6, <1>7, SessionStep DEF CommitUpdate

-----------------------------------------------------------------------------
LEMMA RegisterInv ==
    ASSUME IInv, NEW c \in Registers, Register(c)
    PROVE  IInv'
BY FindUserInv, CreateGuestInv, MoveGuestInv, IssueInv DEF Register

LEMMA UpdateInv ==
    ASSUME IInv, NEW c \in Updates, Update(c)
    PROVE  IInv'
BY SetZoneInv, AttachMetasInv, DetachMetasInv, ReadOptionsInv, InsertOptionsInv,
   MergeOptionsInv, CommitUpdateInv DEF Update

LEMMA FailInv ==
    ASSUME IInv, NEW c \in Calls, Fail(c)
    PROVE  IInv'
<1>1. "failed" \in Over
  BY DEF Over
<1> QED
  BY <1>1, RollbackInv DEF Fail

LEMMA NextInv == IInv /\ [Next]_vars => IInv'
<1> SUFFICES ASSUME IInv, [Next]_vars
             PROVE  IInv'
  OBVIOUS
<1>1. CASE UNCHANGED vars
  BY <1>1 DEF vars, rows, IInv, TypeOK, LocksInv, Knows, UsersInv, IssuedInv, HeirsAreTrue
<1> QED
  BY <1>1, RegisterInv, RotateInv, PresentInv, LoadInv, UpdateInv, FailInv, ExpireInv DEF Next

LEMMA Invariance == Spec => []IInv
BY InitInv, NextInv, PTL DEF Spec

\* The rows and the sessions are well-formed, for any calls and any payloads.
THEOREM TypeCorrect == Spec => []TypeOK
<1>1. IInv => TypeOK
  BY DEF IInv
<1> QED
  BY <1>1, Invariance, PTL

\* However many registrations of one client_uuid overlap, they end up with one
\* user, and no token is issued without it.
THEOREM OneUserOnly == Spec => []OneUser
<1>1. IInv => OneUser
  <2> SUFFICES ASSUME IInv PROVE OneUser
    OBVIOUS
  <2>1. Cardinality(users) <= 1
    <3>1. CASE users = {}
      BY <3>1, FS_EmptySet
    <3>2. CASE \E u \in Registers : users = {u}
      BY <3>2, FS_Singleton
    <3> QED
      BY <3>1, <3>2 DEF IInv, UsersInv
  <2>2. users = {} => \A k \in Tokens : token[k] = "unissued"
    BY DEF IInv, IssuedInv
  <2> QED
    BY <2>1, <2>2 DEF OneUser
<1> QED
  BY <1>1, Invariance, PTL

\* A token is revoked exactly if it has an heir, which a call that presented it
\* has issued, however many refreshes with one token overlap.
THEOREM TrueHeirs == Spec => []HeirsAreTrue
<1>1. IInv => HeirsAreTrue
  BY DEF IInv
<1> QED
  BY <1>1, Invariance, PTL
-----------------------------------------------------------------------------
(* Families of tokens *)

LEMMA RotateKeepsFamilies ==
    ASSUME IInv, ChainEndsLive, NEW c \in Refreshes, Rotate(c)
    PROVE  ChainEndsLive'
<1> DEFINE old == call[c].presented
<1>1. c \in Tokens /\ c \in Calls /\ Nil \notin Tokens
  BY KindsOfCalls
<1>2. token[c] = "unissued"
  BY <1>1 DEF Rotate, At, IInv, IssuedInv
<1>3. old \in Tokens /\ token[old] # "unissued" /\ old # c
  BY <1>1, <1>2, CallFacts DEF Rotate, At, Knows
<1>4. /\ token'[c] = "live"
      /\ \A k \in Tokens \ {c, old} : token'[k] = token[k]
      /\ heir'[old] = c
      /\ \A k \in Tokens \ {old} : heir'[k] = heir[k]
  BY <1>1, <1>3 DEF Rotate, IInv, TypeOK
<1> HIDE DEF old
<1> SUFFICES ASSUME NEW family \in (SUBSET Issued') \ {{}},
                    \A k \in family : heir'[k] = Nil \/ heir'[k] \in family
             PROVE  \E k \in family : token'[k] = "live"
  BY DEF ChainEndsLive
<1>5. \A k \in family : k \in Tokens
  BY DEF Issued
<1>6. CASE c \in family
  BY <1>4, <1>6
<1>7. CASE c \notin family
  <2>1. old \notin family
    BY <1>1, <1>4, <1>7
  <2>2. \A k \in family : k \in Issued /\ heir'[k] = heir[k] /\ token'[k] = token[k]
    BY <1>4, <1>5, <1>7, <2>1 DEF Issued
  <2>3. family \in (SUBSET Issued) \ {{}}
    BY <2>2
  <2>4. PICK k \in family : token[k] = "live"
    BY <2>2, <2>3 DEF ChainEndsLive
  <2> QED
    BY <2>2, <2>4
<1> QED
  BY <1>6, <1>7

LEMMA IssueKeepsFamilies ==
    ASSUME IInv, ChainEndsLive, NEW c \in Registers, Issue(c)
    PROVE  ChainEndsLive'
<1>1. c \in Tokens
  BY KindsOfCalls
<1>2. /\ token'[c] = "live"
      /\ \A k \in Tokens \ {c} : token'[k] = token[k]
      /\ heir' = heir
  BY <1>1 DEF Issue, IInv, TypeOK
<1> SUFFICES ASSUME NEW family \in (SUBSET Issued') \ {{}},
                    \A k \in family : heir[k] = Nil \/ heir[k] \in family
             PROVE  \E k \in family : token'[k] = "live"
  BY <1>2 DEF ChainEndsLive
<1>3. CASE c \in family
  BY <1>2, <1>3
<1>4. CASE c \notin family
  <2>1. \A k \in family : k \in Issued /\ token'[k] = token[k]
    BY <1>2, <1>4 DEF Issued
  <2>2. family \in (SUBSET Issued) \ {{}}
    BY <2>1
  <2> QED
    BY <2>1, <2>2 DEF ChainEndsLive
<1> QED
  BY <1>3, <1>4

\* all that changes tokens is Issue and Rotate
LEMMA TokensStay ==
    ASSUME Next, \A c \in Registers : ~Issue(c), \A c \in Refreshes : ~Rotate(c)
    PROVE  UNCHANGED <<token, heir>>
<1>1. \A c \in Registers : Register(c) => UNCHANGED <<token, heir>>
  BY DEF Register, FindUser, CreateGuest, MoveGuest, rows
<1>2. \A c \in Refreshes, k \in Tokens : Present(c, k) => UNCHANGED <<token, heir>>
  BY DEF Present, rows
<1>3. \A c \in Updates : Load(c) => UNCHANGED <<token, heir>>
  BY DEF Load, rows
<1>4. \A c \in Updates : Update(c) => UNCHANGED <<token, heir>>
  BY DEF Update, SetZone, AttachMetas, DetachMetas, ReadOptions, InsertOptions,
     MergeOptions, CommitUpdate, Rollback, rows
<1>5. \A c \in Calls : Fail(c) => UNCHANGED <<token, heir>>
  BY DEF Fail, Rollback, rows
<1>6. \A k \in Tokens : Expire(k) => UNCHANGED <<token, heir>>
  BY DEF Expire, rows
<1> QED
  BY <1>1, <1>2, <1>3, <1>4, <1>5, <1>6 DEF Next

LEMMA FamiliesStay ==
    ASSUME ChainEndsLive, UNCHANGED <<token, heir>>
    PROVE  ChainEndsLive'
BY DEF ChainEndsLive, Issued

\* From every token that was issued one comes to a live one, however many
\* refreshes present one token and overwrite its link.
THEOREM FamiliesLive == Spec => []ChainEndsLive
<1>1. Init => ChainEndsLive
  <2>1. Init => Issued = {}
    BY DEF Init, Issued
  <2>2. Issued = {} => ChainEndsLive
    BY DEF ChainEndsLive
  <2> QED
    BY <2>1, <2>2
<1>2. IInv /\ ChainEndsLive /\ [Next]_vars => ChainEndsLive'
  <2> SUFFICES ASSUME IInv, ChainEndsLive, [Next]_vars
               PROVE  ChainEndsLive'
    OBVIOUS
  <2>1. CASE UNCHANGED vars
    BY <2>1, FamiliesStay DEF vars, rows
  <2>2. CASE Next
    BY <2>2, TokensStay, FamiliesStay, IssueKeepsFamilies, RotateKeepsFamilies
  <2> QED
    BY <2>1, <2>2
<1> QED
  BY <1>1, <1>2, Invariance, PTL DEF Spec

-----------------------------------------------------------------------------
(* Updates that move the zone *)

\* places behind the statement that writes the zone, and behind the one that
\* reads the options
Behind == {"zoned", "attached", "detached", "missing", "merging", "ready"}
HasRead == {"missing", "merging", "ready"}

\* An update that moves the zone keeps the users row locked, and the options it
\* has read are those in the database, as nobody else can have committed.
Orderly(c) ==
    (call[c].pc \in Behind /\ Differs(c)) =>
        /\ "user" \in call[c].locks
        /\ (call[c].pc \in HasRead /\ OnlyMovers) => call[c].base = options

OrderInv == \A c \in Updates : Orderly(c)

LEMMA MoversStay ==
    ASSUME NEW c \in Calls, call[c].pc \notin Over,
           \A d \in Calls \ {c} : call'[d] = call[d],
           OnlyMovers'
    PROVE  OnlyMovers
<1> SUFFICES ASSUME NEW d \in Updates, call[d].pc \in {"answered", "lost"}
             PROVE  Differs(d)
  BY DEF OnlyMovers
<1>1. d # c /\ d \in Calls
  BY KindsOfCalls DEF Over
<1>2. call'[d] = call[d]
  BY <1>1
<1> QED
  BY <1>2 DEF OnlyMovers, Differs

\* a step of one call that leaves the options alone
LEMMA OrderStep ==
    ASSUME IInv, OrderInv, NEW c \in Calls, call[c].pc \notin Over,
           \A d \in Calls \ {c} : call'[d] = call[d],
           UNCHANGED options,
           c \in Updates => Orderly(c)'
    PROVE  OrderInv'
<1> SUFFICES ASSUME NEW d \in Updates, d # c
             PROVE  Orderly(d)'
  BY DEF OrderInv
<1>1. call'[d] = call[d] /\ (OnlyMovers' => OnlyMovers)
  BY KindsOfCalls, MoversStay
<1> QED
  BY <1>1 DEF OrderInv, Orderly, Differs

\* a call that goes where nothing is asked of it
LEMMA OutStep ==
    ASSUME IInv, OrderInv, NEW c \in Calls, call[c].pc \notin Over,
           \A d \in Calls \ {c} : call'[d] = call[d],
           c \in Updates => call'[c].pc \notin Behind,
           UNCHANGED options
    PROVE  OrderInv'
BY OrderStep DEF Orderly

LEMMA EndStep ==
    ASSUME IInv, NEW c \in Calls, NEW outcome \in Over, End(c, outcome)
    PROVE  /\ \A d \in Calls \ {c} : call'[d] = call[d]
           /\ call'[c].pc \notin Behind
BY DEF End, IInv, TypeOK, CallState, Over, Behind

\* one call goes on, keeps its locks and takes new ones
LEMMA OnStep ==
    ASSUME IInv, OrderInv, NEW c \in Updates, NEW pc, NEW some,
           call[c].pc \in Behind, pc \in HasRead => call[c].pc \in HasRead,
           \/ Write(c, some, pc)
           \/ Goto(c, pc),
           UNCHANGED options
    PROVE  OrderInv'
<1>1. c \in Calls /\ call[c] \in CallState /\ call[c].pc \notin Over
  BY KindsOfCalls, CallFacts DEF Behind, Over
<1>2. /\ \A d \in Calls \ {c} : call'[d] = call[d]
      /\ call'[c].pc = pc /\ call'[c].ask = call[c].ask /\ call'[c].loaded = call[c].loaded
      /\ call'[c].base = call[c].base
      /\ "user" \in call[c].locks => "user" \in call'[c].locks
  BY <1>1 DEF Write, Goto, IInv, TypeOK, CallState
<1>3. OnlyMovers' => OnlyMovers
  BY <1>1, <1>2, MoversStay
<1>4. Orderly(c)'
  BY <1>2, <1>3 DEF OrderInv, Orderly, Differs
<1> QED
  BY <1>1, <1>2, <1>4, OrderStep

LEMMA SetZoneOrder ==
    ASSUME IInv, OrderInv, NEW c \in Updates, SetZone(c)
    PROVE  OrderInv'
<1>1. c \in Calls /\ call[c] \in CallState /\ call[c].pc = "loaded"
  BY KindsOfCalls, CallFacts DEF SetZone, At
<1>2. /\ \A d \in Calls \ {c} : call'[d] = call[d]
      /\ call'[c].pc = "zoned" /\ call'[c].ask = call[c].ask
      /\ call'[c].loaded = call[c].loaded
      /\ Differs(c) => "user" \in call'[c].locks
  BY <1>1 DEF SetZone, Write, Goto, IInv, TypeOK, CallState
<1>3. Orderly(c)'
  BY <1>2 DEF Orderly, Differs, HasRead
<1> QED
  BY <1>1, <1>2, <1>3, OrderStep DEF SetZone, rows, Over

LEMMA ReadOptionsOrder ==
    ASSUME IInv, OrderInv, NEW c \in Updates, ReadOptions(c)
    PROVE  OrderInv'
<1>1. c \in Calls /\ call[c] \in CallState /\ call[c].pc = "detached"
  BY KindsOfCalls, CallFacts DEF ReadOptions, At
<1>2. /\ \A d \in Calls \ {c} : call'[d] = call[d]
      /\ call'[c].ask = call[c].ask /\ call'[c].loaded = call[c].loaded
      /\ call'[c].locks = call[c].locks
      /\ call'[c].base = options
  BY <1>1 DEF ReadOptions, IInv, TypeOK, CallState
<1>3. Orderly(c)'
  BY <1>1, <1>2 DEF ReadOptions, rows, OrderInv, Orderly, Differs, Behind
<1> QED
  BY <1>1, <1>2, <1>3, OrderStep DEF ReadOptions, rows, Over

\* what a commit of settings does to the calls and the options
LEMMA CommitFacts ==
    ASSUME IInv, NEW c \in Updates, CommitUpdate(c)
    PROVE  /\ c \in Calls /\ call[c].pc = "ready"
           /\ \A d \in Calls \ {c} : call'[d] = call[d]
           /\ call'[c].pc \in {"answered", "lost"}
           /\ call'[c].ask = call[c].ask /\ call'[c].loaded = call[c].loaded
<1>1. c \in Calls /\ call[c] \in CallState /\ call[c].pc = "ready"
  BY KindsOfCalls, CallFacts DEF CommitUpdate, At
<1>2. PICK outcome \in {"answered", "lost"} : End(c, outcome)
  BY DEF CommitUpdate, Respond
<1> QED
  BY <1>1, <1>2 DEF End, IInv, TypeOK, CallState

\* An update that moves the zone has the users row to itself, so no other one is
\* under way when it commits.
LEMMA CommitAlone ==
    ASSUME IInv, OrderInv, NEW c \in Updates, CommitUpdate(c), OnlyMovers'
    PROVE  /\ Differs(c) /\ OnlyMovers
           /\ \A d \in Updates \ {c} : ~(call[d].pc \in Behind /\ Differs(d))
           /\ call[c].base = options
<1>1. Differs(c)
  BY CommitFacts DEF OnlyMovers, Differs
<1>2. OnlyMovers
  BY CommitFacts, MoversStay DEF Over
<1>3. "user" \in call[c].locks /\ call[c].base = options
  BY <1>1, <1>2, CommitFacts DEF OrderInv, Orderly, Behind, HasRead
<1>4. ASSUME NEW d \in Updates \ {c}, call[d].pc \in Behind, Differs(d)
      PROVE  FALSE
  <2>1. "user" \in call[d].locks
    BY <1>4 DEF OrderInv, Orderly
  <2> QED
    BY <1>3, <1>4, <2>1, KindsOfCalls DEF IInv, LocksInv
<1> QED
  BY <1>1, <1>2, <1>3, <1>4

LEMMA CommitUpdateOrder ==
    ASSUME IInv, OrderInv, NEW c \in Updates, CommitUpdate(c)
    PROVE  OrderInv'
<1> SUFFICES ASSUME NEW d \in Updates, (call[d].pc \in Behind /\ Differs(d))'
             PROVE  /\ "user" \in call'[d].locks
                    /\ (call'[d].pc \in HasRead /\ OnlyMovers') => call'[d].base = options'
  BY DEF OrderInv, Orderly
<1>1. d # c
  BY CommitFacts DEF Behind
<1>2. call'[d] = call[d] /\ d \in Calls
  BY <1>1, CommitFacts, KindsOfCalls
<1>3. call[d].pc \in Behind /\ Differs(d)
  BY <1>2 DEF Differs
<1> QED
  BY <1>1, <1>2, <1>3, CommitAlone DEF OrderInv, Orderly

LEMMA UpdateOrder ==
    ASSUME IInv, OrderInv, NEW c \in Updates, Update(c)
    PROVE  OrderInv'
<1>1. c \in Calls /\ "refused" \in Over /\ "failed" \in Over
  BY KindsOfCalls DEF Over
<1>2. CASE AttachMetas(c)
  <2>1. UNCHANGED options /\ call[c].pc = "zoned"
    BY <1>2 DEF AttachMetas, Rollback, rows, At
  <2>2. CASE call[c].ask.attach \subseteq Metas
    BY <1>2, <2>1, <2>2, OnStep DEF AttachMetas, Behind, HasRead
  <2>3. CASE ~(call[c].ask.attach \subseteq Metas)
    BY <1>1, <1>2, <2>1, <2>3, EndStep, OutStep DEF AttachMetas, Rollback, Over
  <2> QED
    BY <2>2, <2>3
<1>3. CASE DetachMetas(c)
  <2>1. UNCHANGED options /\ call[c].pc = "attached"
    BY <1>3 DEF DetachMetas, Rollback, rows, At
  <2>2. CASE call[c].ask.detach \subseteq Metas
    BY <1>3, <2>1, <2>2, OnStep DEF DetachMetas, Behind, HasRead
  <2>3. CASE ~(call[c].ask.detach \subseteq Metas)
    BY <1>1, <1>3, <2>1, <2>3, EndStep, OutStep DEF DetachMetas, Rollback, Over
  <2> QED
    BY <2>2, <2>3
<1>4. CASE InsertOptions(c)
  <2>1. UNCHANGED options /\ call[c].pc = "missing"
    BY <1>4 DEF InsertOptions, rows, At
  <2>2. CASE optionsRow
    BY <1>1, <1>4, <2>1, <2>2, EndStep, OutStep DEF InsertOptions, Over
  <2>3. CASE ~optionsRow
    BY <1>4, <2>1, <2>3, OnStep DEF InsertOptions, Behind, HasRead
  <2> QED
    BY <2>2, <2>3
<1>5. CASE MergeOptions(c)
  BY <1>5, OnStep DEF MergeOptions, At, rows, Behind, HasRead
<1> QED
  BY <1>2, <1>3, <1>4, <1>5, SetZoneOrder, ReadOptionsOrder, CommitUpdateOrder DEF Update

\* a registration or a refresh
LEMMA TokenOrder ==
    ASSUME IInv, OrderInv, NEW c \in Tokens,
           \/ c \in Registers /\ Register(c)
           \/ c \in Refreshes /\ Rotate(c)
           \/ c \in Refreshes /\ \E k \in Tokens : Present(c, k)
    PROVE  OrderInv'
<1>1. c \in Calls /\ c \notin Updates
  BY KindsOfCalls, KindsAssumption
<1>2. UNCHANGED options
  BY DEF Register, FindUser, CreateGuest, MoveGuest, Issue, Rotate, Present, rows
<1>3. call[c].pc \notin Over
  BY DEF Register, FindUser, CreateGuest, MoveGuest, Issue, Rotate, Present, At, Over
<1>4. \A d \in Calls \ {c} : call'[d] = call[d]
  BY <1>1 DEF Register, FindUser, CreateGuest, MoveGuest, Issue, Rotate, Present, Goto, Write,
     Respond, End, IInv, TypeOK
<1> QED
  BY <1>1, <1>2, <1>3, <1>4, OutStep

LEMMA LoadOrder ==
    ASSUME IInv, OrderInv, NEW c \in Updates, Load(c)
    PROVE  OrderInv'
<1>1. c \in Calls /\ call[c] \in CallState /\ call[c].pc = "idle"
  BY KindsOfCalls, CallFacts DEF Load, At
<1>2. /\ \A d \in Calls \ {c} : call'[d] = call[d]
      /\ call'[c].pc = "loaded"
  BY <1>1 DEF Load, IInv, TypeOK, CallState
<1> QED
  BY <1>1, <1>2, OutStep DEF Load, rows, Over, Behind

LEMMA FailOrder ==
    ASSUME IInv, OrderInv, NEW c \in Calls, Fail(c)
    PROVE  OrderInv'
<1>1. call[c].pc \notin Over /\ "failed" \in Over
  BY DEF Fail, Open, Over
<1> QED
  BY <1>1, EndStep, OutStep DEF Fail, Rollback, rows

LEMMA OrderNext == IInv /\ OrderInv /\ [Next]_vars => OrderInv'
<1> SUFFICES ASSUME IInv, OrderInv, [Next]_vars
             PROVE  OrderInv'
  OBVIOUS
<1>1. CASE UNCHANGED <<call, options>>
  BY <1>1 DEF OrderInv, Orderly, OnlyMovers, Differs
<1>2. CASE \E k \in Tokens : Expire(k)
  BY <1>1, <1>2 DEF Expire, rows
<1>3. CASE UNCHANGED vars
  BY <1>1, <1>3 DEF vars, rows
<1> QED
  BY <1>2, <1>3, KindsOfCalls, TokenOrder, LoadOrder, UpdateOrder, FailOrder DEF Next

LEMMA OrderInvariance == Spec => [](IInv /\ OrderInv)
<1>1. Init => OrderInv
  BY KindsOfCalls DEF Init, Idle, OrderInv, Orderly, Behind
<1> QED
  BY <1>1, InitInv, NextInv, OrderNext, PTL DEF Spec

\* only a commit of settings writes options
LEMMA OptionsStay ==
    ASSUME [Next]_vars, \A c \in Updates : ~CommitUpdate(c)
    PROVE  UNCHANGED options
<1>1. \A c \in Registers : Register(c) => UNCHANGED options
  BY DEF Register, FindUser, CreateGuest, MoveGuest, Issue, rows
<1>2. \A c \in Refreshes : Rotate(c) \/ (\E k \in Tokens : Present(c, k)) => UNCHANGED options
  BY DEF Rotate, Present, rows
<1>3. \A c \in Updates : Load(c) \/ Update(c) => UNCHANGED options
  BY DEF Load, Update, SetZone, AttachMetas, DetachMetas, ReadOptions, InsertOptions,
     MergeOptions, Rollback, rows
<1>4. \A c \in Calls : Fail(c) => UNCHANGED options
  BY DEF Fail, Rollback, rows
<1>5. \A k \in Tokens : Expire(k) => UNCHANGED options
  BY DEF Expire, rows
<1> QED
  BY <1>1, <1>2, <1>3, <1>4, <1>5 DEF Next, vars, rows

\* As long as every update that commits moves the time zone as well, nobody's
\* options are lost, however many updates there are and whatever they set.
THEOREM ZoneOrdersUpdates == Spec => ZoneSerialises
<1>1. ASSUME IInv, OrderInv, [Next]_vars, OnlyMovers', NEW k \in Keys, options'[k] # options[k]
      PROVE  \E c \in Updates : Commits(c) /\ options'[k] = c /\ k \in call[c].ask.patch
  <2>1. PICK c \in Updates : CommitUpdate(c)
    BY <1>1, OptionsStay
  <2>2. Commits(c)
    BY <1>1, <2>1, CommitFacts DEF Commits, At
  <2>3. call[c].base = options
    BY <1>1, <2>1, CommitAlone
  <2>4. options'[k] = IF k \in call[c].ask.patch THEN c ELSE call[c].base[k]
    BY <1>1, <2>1 DEF CommitUpdate, Merged
  <2> QED
    BY <1>1, <2>2, <2>3, <2>4
<1>2. IInv /\ OrderInv /\ [Next]_vars =>
        (OnlyMovers' => \A k \in Keys : options'[k] # options[k] =>
            \E c \in Updates : Commits(c) /\ options'[k] = c /\ k \in call[c].ask.patch)
  BY <1>1
<1> QED
  BY <1>2, OrderInvariance, PTL DEF Spec, ZoneSerialises
=============================================================================
