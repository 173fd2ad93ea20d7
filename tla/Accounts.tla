------------------------------ MODULE Accounts ------------------------------
(***************************************************************************)
(* The database rows of one guest (one client_uuid) and the calls that     *)
(* write them: AuthService.register_guest and refresh_tokens, and          *)
(* UserSettingsService.update_user.  Each call is one transaction of       *)
(* PostgreSQL at READ COMMITTED: a statement sees what is committed, a     *)
(* written row stays locked until the transaction ends, and all of a       *)
(* call's writes become visible at its commit.                             *)
(*                                                                         *)
(* A refresh token has the name of the call that issues it.  The value of  *)
(* an option is the name of the update that wrote it; nested options are   *)
(* their leaves, so that _deep_merge replaces what the patch names.        *)
(***************************************************************************)
EXTENDS Naturals, FiniteSets

CONSTANTS
    Registers,      \* calls of POST /register/guest
    Refreshes,      \* calls of POST /auth/refresh
    Updates,        \* calls of PATCH /user/update
    Zones,          \* time zones
    Metas,          \* the keys of the metas table
    Named,          \* the keys that requests name
    Keys,           \* leaves of the options
    Zone,           \* Zone[c]: the zone a registration asks for, or Nil
    Asks,           \* Asks[u]: the payloads an update may have
    MayFail,        \* calls whose process or connection may be lost
    MayExpire,      \* tokens that may reach expires_at
    Nil

Tokens == Registers \union Refreshes
Calls == Tokens \union Updates
Rows == {"user", "options"} \union Metas

\* UserUpdateRequest: a zone or none, the meta keys to attach and to detach, of
\* which some may not exist, and the options to set, if options are sent at all
Payload == [zone : Zones \union {Nil}, attach : SUBSET Named, detach : SUBSET Named,
            sends : BOOLEAN, patch : SUBSET Keys]

ASSUME KindsAssumption ==
    /\ Registers \intersect Refreshes = {}
    /\ Tokens \intersect Updates = {}
    /\ Nil \notin Calls \union Zones
    /\ Metas \subseteq Named
ASSUME RowsAssumption ==
    {"user", "options"} \intersect Named = {}
ASSUME InputsAssumption ==
    /\ Zone \in [Registers -> Zones \union {Nil}]
    /\ Asks \in [Updates -> SUBSET Payload]

VARIABLES
    users,      \* the users rows with this client_uuid, named by who created them
    zone,       \* users.timezone
    token,      \* refresh_tokens: is a token unissued, live or revoked?
    heir,       \* replaced_by_token_id
    expired,    \* the tokens past expires_at
    metas,      \* user_metas
    options,    \* user_options.settings_json, Nil for an option not set
    optionsRow, \* is there a row in user_options?
    call        \* the calls, with what they have read and not committed

rows == <<users, zone, token, heir, metas, options, optionsRow>>
vars == <<rows, expired, call>>

Open == {"absent", "found", "created", "issuing", "valid", "loaded", "zoned", "attached",
         "detached", "missing", "merging", "ready"}
Over == {"answered", "lost", "refused", "failed"}

CallState == [
    pc        : Open \union Over \union {"idle"},
    ask       : Payload,
    loaded    : Zones \union {Nil},             \* the zone the session has loaded
    presented : Tokens \union {Nil},            \* the token a refresh presents
    base      : [Keys -> Updates \union {Nil}], \* the options an update has read
    locks     : SUBSET Rows]                    \* the rows written, or inserted

NoOptions == [k \in Keys |-> Nil]
Nothing == [zone |-> Nil, attach |-> {}, detach |-> {}, sends |-> FALSE, patch |-> {}]
Idle == [pc |-> "idle", ask |-> Nothing, loaded |-> Nil, presented |-> Nil, base |-> NoOptions,
         locks |-> {}]

Init ==
    /\ users = {}
    /\ zone = Nil
    /\ token = [k \in Tokens |-> "unissued"]
    /\ heir = [k \in Tokens |-> Nil]
    /\ expired = {}
    /\ metas = {}
    /\ options = NoOptions
    /\ optionsRow = FALSE
    /\ call = [c \in Calls |-> Idle]

At(c, pc) == call[c].pc = pc
Goto(c, pc) == call' = [call EXCEPT ![c].pc = pc]

\* nobody else has written these rows in an open transaction
Free(c, some) == \A d \in Calls \ {c} : call[d].locks \intersect some = {}

\* the statement writes these rows; it waits until it can lock them
Write(c, some, pc) ==
    /\ Free(c, some)
    /\ call' = [call EXCEPT ![c].pc = pc, ![c].locks = @ \union some]

\* the transaction ends
End(c, outcome) ==
    call' = [call EXCEPT ![c].pc = outcome, ![c].locks = {}]

\* mutant: the session of a refused request is not rolled back
Rollback_Forgotten(c, outcome) ==
    /\ call' = [call EXCEPT ![c].pc = outcome]
    /\ UNCHANGED <<rows, expired>>

Rollback(c, outcome) ==
    /\ End(c, outcome)
    /\ UNCHANGED <<rows, expired>>

\* the client gets the response, unless the process is lost after the commit
Respond(c) == \E outcome \in {"answered"} \union (IF c \in MayFail THEN {"lost"} ELSE {}) :
                  End(c, outcome)

-----------------------------------------------------------------------------
(* register_guest *)

FindUser(c) ==
    /\ At(c, "idle")
    /\ call' = [call EXCEPT ![c] =
                  [@ EXCEPT !.pc = IF users = {} THEN "absent" ELSE "found",
                            !.ask.zone = Zone[c], !.loaded = zone]]
    /\ UNCHANGED <<rows, expired>>

\* mutant: client_uuid is not unique
CreateGuest_Anyway(c) ==
    /\ At(c, "absent")
    /\ call' = [call EXCEPT ![c] = [@ EXCEPT !.pc = "created", !.locks = {"user"}]]
    /\ UNCHANGED <<rows, expired>>

\* The insert waits for another uncommitted one.  If that one commits, the
\* unique constraint refuses this one and the call ends in an error.
CreateGuest(c) ==
    /\ At(c, "absent")
    /\ Free(c, {"user"})
    /\ IF users = {} THEN Write(c, {"user"}, "created") ELSE End(c, "failed")
    /\ UNCHANGED <<rows, expired>>

Differs(c) == call[c].ask.zone \notin {Nil, call[c].loaded}

MoveGuest(c) ==
    /\ At(c, "found")
    /\ IF Differs(c) THEN Write(c, {"user"}, "issuing") ELSE Goto(c, "issuing")
    /\ UNCHANGED <<rows, expired>>

\* what a commit does to the users row
CommitUser(c) ==
    zone' = IF "user" \in call[c].locks THEN call[c].ask.zone ELSE zone

Issue(c) ==
    /\ call[c].pc \in {"created", "issuing"}
    /\ users' = IF At(c, "created") THEN users \union {c} ELSE users
    /\ CommitUser(c)
    /\ token' = [token EXCEPT ![c] = "live"]
    /\ Respond(c)
    /\ UNCHANGED <<heir, expired, metas, options, optionsRow>>

-----------------------------------------------------------------------------
(* refresh_tokens *)

\* the client presents a token it has been given; 401 unless it is valid
Present(c, k) ==
    /\ At(c, "idle")
    /\ At(k, "answered")
    /\ IF token[k] = "live" /\ k \notin expired
       THEN call' = [call EXCEPT ![c] = [@ EXCEPT !.pc = "valid", !.presented = k]]
       ELSE Goto(c, "refused")
    /\ UNCHANGED <<rows, expired>>

\* mutant: the new token is issued and the old one stays valid
Rotate_Keeps(c) ==
    /\ At(c, "valid")
    /\ token' = [token EXCEPT ![c] = "live"]
    /\ Respond(c)
    /\ UNCHANGED <<users, zone, heir, expired, metas, options, optionsRow>>

\* mutant: rotate() is given the old token's id
Rotate_Itself(c) ==
    /\ At(c, "valid")
    /\ token' = [token EXCEPT ![call[c].presented] = "revoked", ![c] = "live"]
    /\ heir' = [heir EXCEPT ![call[c].presented] = call[c].presented]
    /\ Respond(c)
    /\ UNCHANGED <<users, zone, expired, metas, options, optionsRow>>

\* The new row and the revocation of the old one are one transaction.  A second
\* one waits for the row and then revokes the token again, with another heir:
\* nothing that others can see happens before the commit, so it is one step.
Rotate(c) ==
    /\ At(c, "valid")
    /\ token' = [token EXCEPT ![call[c].presented] = "revoked", ![c] = "live"]
    /\ heir' = [heir EXCEPT ![call[c].presented] = c]
    /\ Respond(c)
    /\ UNCHANGED <<users, zone, expired, metas, options, optionsRow>>

Expire(k) ==
    /\ k \in MayExpire \ expired
    /\ token[k] = "live"
    /\ expired' = expired \union {k}
    /\ UNCHANGED <<rows, call>>

-----------------------------------------------------------------------------
(* update_user *)

\* get_current_user, for a client that has an access token
Load(c) ==
    /\ At(c, "idle")
    /\ \E k \in Tokens : At(k, "answered")
    /\ \E ask \in Asks[c] :
          call' = [call EXCEPT ![c] =
                      [@ EXCEPT !.pc = "loaded", !.ask = ask, !.loaded = zone]]
    /\ UNCHANGED <<rows, expired>>

\* SQLAlchemy writes the column only if it differs from the value loaded
SetZone(c) ==
    /\ At(c, "loaded")
    /\ IF Differs(c) THEN Write(c, {"user"}, "zoned") ELSE Goto(c, "zoned")
    /\ UNCHANGED <<rows, expired>>

\* Unknown keys: 404, and the session is rolled back.  INSERT ... ON CONFLICT DO
\* NOTHING waits for whoever is inserting or deleting the same row.
AttachMetas(c) ==
    /\ At(c, "zoned")
    /\ IF call[c].ask.attach \subseteq Metas
       THEN /\ Free(c, call[c].ask.attach)
            /\ Write(c, call[c].ask.attach \ metas, "attached")
            /\ UNCHANGED <<rows, expired>>
       ELSE Rollback(c, "refused")

\* DELETE finds what is committed and what the transaction itself has inserted
DetachMetas(c) ==
    /\ At(c, "attached")
    /\ IF call[c].ask.detach \subseteq Metas
       THEN /\ Write(c, call[c].ask.detach \intersect (metas \union call[c].locks), "detached")
            /\ UNCHANGED <<rows, expired>>
       ELSE Rollback(c, "refused")

\* mutant: the options are those that were there when the request began
ReadOptions_Early(c) ==
    /\ At(c, "detached")
    /\ Goto(c, IF ~call[c].ask.sends THEN "ready" ELSE IF optionsRow THEN "merging" ELSE "missing")
    /\ UNCHANGED <<rows, expired>>

ReadOptions(c) ==
    /\ At(c, "detached")
    /\ call' = [call EXCEPT ![c] =
                  [@ EXCEPT !.pc = IF ~call[c].ask.sends THEN "ready"
                                   ELSE IF optionsRow THEN "merging" ELSE "missing",
                            !.base = options]]
    /\ UNCHANGED <<rows, expired>>

\* mutant: the row is inserted without its empty object
InsertOptions_Null(c) ==
    /\ At(c, "missing")
    /\ Free(c, {"options"})
    /\ IF optionsRow
       THEN End(c, "failed")
       ELSE call' = [call EXCEPT ![c] = [@ EXCEPT !.pc = "merging", !.base = Nil,
                                                  !.locks = @ \union {"options"}]]
    /\ UNCHANGED <<rows, expired>>

\* of two inserts of the row the later one fails, after waiting for the other
InsertOptions(c) ==
    /\ At(c, "missing")
    /\ Free(c, {"options"})
    /\ IF optionsRow THEN End(c, "failed") ELSE Write(c, {"options"}, "merging")
    /\ UNCHANGED <<rows, expired>>

\* an empty patch leaves the object equal, and nothing is written
MergeOptions(c) ==
    /\ At(c, "merging")
    /\ IF call[c].ask.patch = {} THEN Goto(c, "ready") ELSE Write(c, {"options"}, "ready")
    /\ UNCHANGED <<rows, expired>>

Merged(c) == [k \in Keys |-> IF k \in call[c].ask.patch THEN c ELSE call[c].base[k]]

CommitUpdate(c) ==
    /\ At(c, "ready")
    /\ CommitUser(c)
    /\ metas' = (metas \union (call[c].ask.attach \intersect call[c].locks))
                    \ (call[c].ask.detach \intersect call[c].locks)
    /\ options' = IF "options" \in call[c].locks THEN Merged(c) ELSE options
    /\ optionsRow' = (optionsRow \/ "options" \in call[c].locks)
    /\ Respond(c)
    /\ UNCHANGED <<users, token, heir, expired>>
-----------------------------------------------------------------------------
(* What goes wrong *)

\* the process or its connection is lost: PostgreSQL rolls back
Fail(c) ==
    /\ c \in MayFail
    /\ call[c].pc \in Open
    /\ Rollback(c, "failed")

-----------------------------------------------------------------------------
Register(c) == FindUser(c) \/ CreateGuest(c) \/ MoveGuest(c) \/ Issue(c)
Update(c) ==
    \/ SetZone(c) \/ AttachMetas(c) \/ DetachMetas(c)
    \/ ReadOptions(c) \/ InsertOptions(c) \/ MergeOptions(c)
    \/ CommitUpdate(c)

Next ==
    \/ \E c \in Registers : Register(c)
    \/ \E c \in Refreshes : Rotate(c) \/ \E k \in Tokens : Present(c, k)
    \/ \E c \in Updates : Load(c) \/ Update(c)
    \/ \E c \in Calls : Fail(c)
    \/ \E k \in Tokens : Expire(k)

\* the event loop and the database go on with a call that has begun
Fairness ==
    /\ \A c \in Registers : WF_vars(Register(c) /\ call[c].pc \in Open)
    /\ \A c \in Refreshes : WF_vars(Rotate(c))
    /\ \A c \in Updates : WF_vars(Update(c))

Spec == Init /\ [][Next]_vars
FairSpec == Spec /\ Fairness

-----------------------------------------------------------------------------
TypeOK ==
    /\ users \subseteq Registers
    /\ zone \in Zones \union {Nil}
    /\ token \in [Tokens -> {"unissued", "live", "revoked"}]
    /\ heir \in [Tokens -> Tokens \union {Nil}]
    /\ expired \subseteq MayExpire
    /\ metas \subseteq Metas
    /\ options \in [Keys -> Updates \union {Nil}]
    /\ optionsRow \in BOOLEAN
    /\ call \in [Calls -> CallState]

\* However registrations of one client_uuid overlap, they end up with one user,
\* and no token is issued without it.
OneUser ==
    /\ Cardinality(users) <= 1
    /\ users = {} => \A k \in Tokens : token[k] = "unissued"

\* From every token that was issued the chain of replacements leads to a token
\* that is not revoked, although overlapping refreshes overwrite its links: a
\* family of tokens, closed under replaced_by_token_id, never dies out by
\* rotation.
Issued == {k \in Tokens : token[k] # "unissued"}
ChainEndsLive ==
    \A family \in (SUBSET Issued) \ {{}} :
        (\A k \in family : heir[k] = Nil \/ heir[k] \in family)
            => \E k \in family : token[k] = "live"

\* A token is revoked exactly if it has an heir, and the heir was issued by a
\* call that presented it; whoever presented it successfully revoked it.
HeirsAreTrue ==
    /\ \A k \in Tokens : (token[k] = "revoked") <=> (heir[k] # Nil)
    /\ \A k \in Tokens : heir[k] # Nil =>
          /\ heir[k] \in Refreshes
          /\ token[heir[k]] # "unissued"
          /\ call[heir[k]].presented = k
    /\ \A c \in Refreshes : token[c] # "unissued" =>
          token[call[c].presented] = "revoked"

\* As long as whoever updates the settings also moves the time zone, no option is
\* lost: a commit changes the options it sets and no others, because the users
\* row, locked before the options are read, puts such updates in order.  (One
\* update that leaves the zone alone suffices to write old options back.)
Commits(c) == At(c, "ready") /\ call'[c].pc \in {"answered", "lost"}
OnlyMovers == \A c \in Updates : call[c].pc \in {"answered", "lost"} => Differs(c)
ZoneSerialises ==
    [][OnlyMovers' => \A k \in Keys : options'[k] # options[k] =>
          \E c \in Updates : Commits(c) /\ options'[k] = c /\ k \in call[c].ask.patch]_vars

\* Every call that begins ends, whoever else holds the rows it waits for: locks on
\* users, metas and options are taken in an order that admits no deadlock, although
\* two updates may attach and detach the same metas crosswise.
CallsEnd == \A c \in Calls : (call[c].pc \in Open) ~> (call[c].pc \in Over)
=============================================================================
