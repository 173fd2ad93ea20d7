------------------------------ MODULE Calendar ------------------------------
(***************************************************************************)
(* The tasks and notes of one user and the calls that check the calendar   *)
(* for conflicts before they book: the worker that handles a message       *)
(* (ProposalEnricher, then auto-apply), POST /proposals/{id}/confirm and   *)
(* /apply, the conversion and deletion of notes, and the completion of     *)
(* tasks.  A call has its own session: it loads rows, which stay as they   *)
(* were in its identity map, and commits in the steps below.  The checks   *)
(* of one operation are one step; failing statements and the life of       *)
(* proposals are the business of Proposals.                                *)
(*                                                                         *)
(* Time goes in slots of half an hour, the width of the conflict window.   *)
(* What a text means is worked out anew whenever it is read: it depends on *)
(* the zone and on the instant.  Zones keep their distance from UTC.       *)
(***************************************************************************)
EXTENDS Integers, Sequences, FiniteSets

CONSTANTS
    Proposals,      \* proposals, each handled by a worker of its name
    Confirms,       \* calls of /confirm or /apply
    ItemCalls,      \* calls of /convert-to-task, DELETE /notes/{id}, /complete, ...
    Asked,          \* Asked[p]: the operations the LLM made of the message
    AutoApply,      \* proposals with auto_apply
    Zones,
    UTC,
    ClientZone,     \* ClientZone[p]: the zone the message came with
    FirstZones,     \* zones of the user at first, or Nil
    NextZones,      \* bound: zones the user may move to
    Ahead,          \* Ahead[tz]: by how many slots the clocks of a zone are ahead of UTC
    Texts,          \* words for a time; a time with an offset is its slot
    Words,          \* Words[text]: how the parser takes it, and the number in it
    Moments,        \* bound: the instants the clock may show
    SlotsPerDay,
    Wishes,         \* bound: slots a client asks for when none is suggested
    Given,          \* the items at first: a function from names to items
    MostOps,        \* bound: how many operations a proposal may have
    Nil

Bookers == Proposals \union Confirms
Sessions == Bookers \union ItemCalls
Due == Texts \union Int \union {Nil}
Items == (DOMAIN Given) \union (Bookers \X (1..MostOps))

ASSUME CallsAssumption ==
    /\ Proposals \intersect Confirms = {} /\ Bookers \intersect ItemCalls = {}
    /\ AutoApply \subseteq Proposals
    /\ DOMAIN Given \intersect (Bookers \X (1..MostOps)) = {}
ASSUME NilAssumption == Nil \notin Zones \union Texts \union Int \union Items

ItemStatus == {"ACTIVE", "DONE", "CANCELED", "ARCHIVED"}

\* an operation: a task to create, or an item whose time (due) or status changes;
\* the item is Nil when the reference of the LLM was not resolved
Op == [do : {"create", "update"}, item : DOMAIN Given \union {Nil}, due : Due,
       status : ItemStatus \union {Nil}]
ASSUME AskedAssumption ==
    /\ MostOps \in Nat \ {0}
    /\ \A p \in Proposals : Asked[p] \in Seq(Op) /\ Len(Asked[p]) \in 1..MostOps

\* "iso": a date and a time without an offset; "clock": a time of day; "tomorrow":
\* a time of day and tomorrow; "date": a day without a time; or not a time at all
Word == [how : {"iso", "clock", "tomorrow", "date", "none"}, at : Nat]
ASSUME TimeAssumption ==
    /\ UTC \in Zones /\ FirstZones \subseteq Zones \union {Nil} /\ NextZones \subseteq Zones
    /\ \A p \in Proposals : ClientZone[p] \in Zones
    /\ Ahead \in [Zones -> Int] /\ Words \in [Texts -> Word]
    /\ Texts \intersect Int = {}
    /\ SlotsPerDay \in Nat \ {0}
    /\ \A text \in Texts : Words[text].how = "clock" => Words[text].at < SlotsPerDay
    /\ Wishes \subseteq Int /\ Moments \subseteq Int

VARIABLES
    items,      \* the items table; "none" is the type of a row that is not there
    zone,       \* users.timezone
    proposal,   \* the proposals table
    now,        \* the slot that begins
    session,
    book        \* ghost: the check an item got its time after, and when it got it

vars == <<items, zone, proposal, now, session, book>>

Item == [type : {"none", "TASK", "NOTE"}, status : ItemStatus,
         deleted : BOOLEAN, due : Int \union {Nil}]
NoItem == [type |-> "none", status |-> "ACTIVE", deleted |-> FALSE, due |-> Nil]
ASSUME GivenAssumption == \A x \in DOMAIN Given : Given[x] \in Item

\* a question for one operation: a time is missing (existing is Nil), or the
\* time conflicts with a task; seen is a ghost, the tasks when it was written
Clarification == [op : 1..MostOps, existing : Items \union {Nil}, at : Int \union {Nil},
                  suggestions : SUBSET Int, seen : SUBSET (Items \X Int)]

\* one look at the calendar: the slot, the words for it, the zone and the instant
\* they were read at, and the tasks there were
Check == [at : Int \union {Nil}, words : Due, tz : Zones, on : Int, seen : SUBSET (Items \X Int)]
NotChecked == [at |-> Nil, words |-> Nil, tz |-> UTC, on |-> 0, seen |-> {}]

\* an item got its time at the instant by, from a call for a user of the zone tz
Booking == [check : Check, tz : Zones \union {Nil}, by : Int]
NotBooked == [check |-> NotChecked, tz |-> Nil, by |-> 0]

Status == {"running", "ready", "needs_confirmation", "applied", "canceled"}
Confirmable == {"ready", "needs_confirmation"}

Fresh == [pc |-> "idle", status |-> "running", ops |-> <<>>, clars |-> {},
          about |-> Nil, zone |-> Nil, next |-> 1, checks |-> [i \in 1..MostOps |-> NotChecked],
          rows |-> [i \in 1..MostOps |-> NoItem], books |-> [i \in 1..MostOps |-> NotBooked]]

Init ==
    /\ items = [x \in Items |-> IF x \in DOMAIN Given THEN Given[x] ELSE NoItem]
    /\ zone \in FirstZones
    /\ proposal = [p \in Proposals |-> [status |-> "running", ops |-> Asked[p], clars |-> {},
                                        renewed |-> FALSE]]
    /\ now \in Moments
    /\ session = [s \in Sessions |-> Fresh]
    /\ book = [x \in Items |-> NotBooked]

At(s, pc) == session[s].pc = pc
Of(s) == session[s].about
End(s) == session' = [session EXCEPT ![s] = [Fresh EXCEPT !.pc = "done"]]

-----------------------------------------------------------------------------
(* The calendar *)

\* when the day began, on the clocks of a zone
Midnight(local) == local - (local % SlotsPerDay)

\* parse_natural_time, on the clocks of the zone: a time of day is the next one to come
NextClock(at, local) ==
    LET today == Midnight(local) + at
    IN  IF today > local THEN today ELSE today + SlotsPerDay

\* the slot that words mean when they are read in a zone at an instant
When(due, tz, instant) ==
    IF due \notin Texts THEN due
    ELSE LET local == instant + Ahead[tz]
             at == Words[due].at
             how == Words[due].how
         IN  CASE how = "iso" -> at - Ahead[tz]
               [] how = "clock" -> NextClock(at, local) - Ahead[tz]
               [] how = "tomorrow" -> Midnight(local) + SlotsPerDay + at - Ahead[tz]
               [] how = "date" -> at * SlotsPerDay + (local - Midnight(local)) - Ahead[tz]
               [] how = "none" -> Nil

\* mutant: the ends of the window are left out
Near_Open(slot, other) == slot = other

Near(slot, other) == slot <= other + 1 /\ other <= slot + 1

Active(x) == items[x].type = "TASK" /\ items[x].status = "ACTIVE" /\ ~items[x].deleted
                /\ items[x].due # Nil
Tasks == {x \in Items : Active(x)}
Seen == {<<x, items[x].due>> : x \in Tasks}

\* find_conflicting_items
Conflicts(slot, except) == {x \in Tasks \ except : Near(slot, items[x].due)}

\* the free ones of some slots
Unoccupied(slots, except) == {t \in slots : Conflicts(t, except) = {}}

\* mutant: the alternatives are offered without a look at the calendar
Alternatives_Unseen(slot) == {slot + 2, slot + 3}

\* generate_alternative_suggestions: the first two that are free
Alternatives(slot) ==
    LET free == Unoccupied({slot + 2, slot + 3, slot + SlotsPerDay}, {})
    IN  {t \in free : Cardinality({u \in free : u < t}) < 2}

\* the tasks that find_conflicting_items may return first, ordered by due_at
Earliest(xs) == {x \in xs : \A y \in xs : items[x].due <= items[y].due}

-----------------------------------------------------------------------------
(* Checking the operations of a proposal *)

\* the worker's zone: user preference > client-provided
CheckZone(s) ==
    IF session[s].zone # Nil THEN session[s].zone
    ELSE IF s \in Proposals THEN ClientZone[s] ELSE UTC

Preferred(tz) == IF tz # Nil THEN tz ELSE UTC

\* mutant: the zone is read from the database again
BookZone_Reread(s) == Preferred(zone)

\* apply_proposal knows the user's preference only
BookZone(s) == Preferred(session[s].zone)

More(s) == session[s].next <= Len(session[s].ops)
Current(s) == session[s].ops[session[s].next]

\* One operation is checked.  Only tasks to be created are, and one without a time
\* conflicts with nothing.
CheckOp(s) ==
    /\ At(s, "checking")
    /\ More(s)
    /\ LET i == session[s].next
           due == Current(s).due
           slot == When(due, CheckZone(s), now)
       IN  IF Current(s).do # "create" \/ slot = Nil
           THEN session' = [session EXCEPT ![s].next = i + 1]
           ELSE \/ /\ Conflicts(slot, {}) = {}
                   /\ session' = [session EXCEPT
                        ![s].next = i + 1,
                        ![s].checks[i] = [at |-> slot, words |-> due, tz |-> CheckZone(s),
                                          on |-> now, seen |-> Seen]]
                \/ \E x \in Earliest(Conflicts(slot, {})) :
                      session' = [session EXCEPT
                        ![s].next = i + 1,
                        ![s].clars = @ \union {[op |-> i, existing |-> x, at |-> slot,
                                                suggestions |-> Alternatives(slot),
                                                seen |-> Seen]}]
    /\ UNCHANGED <<items, zone, proposal, now, book>>

\* update_status: SQLAlchemy writes the status only when it differs from the
\* loaded one
Put(p, loaded, status, ops, clars) ==
    proposal' = [proposal EXCEPT ![p] =
        [status |-> IF loaded = status THEN @.status ELSE status, ops |-> ops, clars |-> clars,
         renewed |-> @.renewed \/ (@.clars # {} /\ clars # @.clars)]]

\* Questions are left, or the LLM or the resolver of references wants the user's
\* confirmation: the proposal waits for the user, who (bound) calls once more when
\* the questions are new.
Ask(s) ==
    /\ At(s, "checking") /\ ~More(s)
    /\ session[s].clars # {} \/ s \in Proposals
    /\ Put(Of(s), session[s].status, "needs_confirmation", session[s].ops, session[s].clars)
    /\ IF s \in Confirms /\ ~proposal[Of(s)].renewed
       THEN session' = [session EXCEPT ![s] = Fresh]
       ELSE End(s)
    /\ UNCHANGED <<items, zone, now, book>>

\* nothing is in the way: the proposal is READY, which is committed, and a
\* confirmed or automatic one is applied next
Ready(s) ==
    /\ At(s, "checking") /\ ~More(s)
    /\ session[s].clars = {}
    /\ Put(Of(s), session[s].status, "ready", session[s].ops, {})
    /\ IF s \in Confirms \union AutoApply
       THEN session' = [session EXCEPT ![s].pc = "applying", ![s].status = "ready",
                                       ![s].next = 1]
       ELSE End(s)
    /\ UNCHANGED <<items, zone, now, book>>

-----------------------------------------------------------------------------
(* apply_proposal *)

\* the tables with what the session has flushed
Flushed(s, table, rows) ==
    [x \in Items |-> IF x \in {s} \X (1..MostOps) /\ session[s].rows[x[2]] # NoItem
                     THEN rows[x[2]] ELSE table[x]]

\* _apply_create: the words are read again and the row is flushed, for a later commit
Create(s) ==
    /\ At(s, "applying") /\ More(s)
    /\ Current(s).do = "create"
    /\ LET i == session[s].next
       IN  session' = [session EXCEPT
                ![s].next = i + 1,
                ![s].rows[i] = [type |-> "TASK", status |-> "ACTIVE", deleted |-> FALSE,
                                due |-> When(Current(s).due, BookZone(s), now)],
                ![s].books[i] = [check |-> session[s].checks[i], tz |-> session[s].zone,
                                 by |-> now]]
    /\ UNCHANGED <<items, zone, proposal, now, book>>

\* _apply_update with a new time, _apply_done, _apply_archive, ...: nothing is checked,
\* and item_repo.update commits what was flushed before with it
Update(s) ==
    /\ At(s, "applying") /\ More(s)
    /\ Current(s).do = "update" /\ Current(s).item # Nil
    /\ LET x == Current(s).item
           due == Current(s).due
           status == Current(s).status
       IN  /\ items' = [Flushed(s, items, session[s].rows) EXCEPT
                ![x].due = IF due = Nil THEN @ ELSE When(due, BookZone(s), now),
                ![x].status = IF status = Nil THEN @ ELSE status]
           /\ book' = [Flushed(s, book, session[s].books) EXCEPT
                ![x] = IF due = Nil THEN @ ELSE NotBooked]
    /\ session' = [session EXCEPT ![s].next = @ + 1, ![s].rows = Fresh.rows,
                                  ![s].books = Fresh.books]
    /\ UNCHANGED <<zone, proposal, now>>

\* what the reference means is not known: the operation is skipped
Skip(s) ==
    /\ At(s, "applying") /\ More(s)
    /\ Current(s).do = "update" /\ Current(s).item = Nil
    /\ session' = [session EXCEPT ![s].next = @ + 1]
    /\ UNCHANGED <<items, zone, proposal, now, book>>

\* the status, and what was flushed last
Applied(s) ==
    /\ At(s, "applying") /\ ~More(s)
    /\ items' = Flushed(s, items, session[s].rows)
    /\ book' = Flushed(s, book, session[s].books)
    /\ proposal' = [proposal EXCEPT ![Of(s)].status = "applied"]
    /\ End(s)
    /\ UNCHANGED <<zone, now>>

-----------------------------------------------------------------------------
(* The worker *)

\* load_context, and enforce_time_confirmation
StartWorker(p) ==
    /\ At(p, "idle")
    /\ session' = [session EXCEPT ![p] =
            [@ EXCEPT !.pc = "checking", !.about = p, !.ops = Asked[p], !.zone = zone,
                      !.clars = IF p \in AutoApply THEN {}
                                ELSE {[op |-> i, existing |-> Nil, at |-> Nil,
                                       suggestions |-> {}, seen |-> {}] :
                                      i \in {j \in 1..Len(Asked[p]) :
                                            Asked[p][j].do = "create" /\ Asked[p][j].due = Nil}}]]
    /\ UNCHANGED <<items, zone, proposal, now, book>>

-----------------------------------------------------------------------------
(* confirm_proposal *)

\* the answers a client may give to the questions of a proposal: none, what is
\* suggested or any other time
Answers(p) ==
    LET questions == proposal[p].clars
        times == {Nil} \union Wishes \union UNION {q.suggestions : q \in questions}
    IN  [{q.op : q \in questions} -> times]

\* the operations with the answers filled in
Filled(ops, answers) ==
    [i \in DOMAIN ops |->
        IF i \in DOMAIN answers
        THEN [ops[i] EXCEPT !.due = IF answers[i] = Nil THEN @ ELSE answers[i]]
        ELSE ops[i]]

\* The proposal is loaded; the call ends when it is settled or not ready, or
\* (ClarificationNotFoundError) when it answers a question of an earlier round.
Refused(c) ==
    /\ At(c, "idle")
    /\ \E p \in Proposals : proposal[p].status \notin Confirmable \/ proposal[p].renewed
    /\ End(c)
    /\ UNCHANGED <<items, zone, proposal, now, book>>

Load(c, p, pc, ops, clars) ==
    /\ At(c, "idle")
    /\ proposal[p].status \in Confirmable
    /\ session' = [session EXCEPT ![c] =
            [@ EXCEPT !.pc = pc, !.about = p, !.status = proposal[p].status, !.zone = zone,
                      !.ops = ops, !.clars = clars]]
    /\ UNCHANGED <<items, zone, proposal, now, book>>

LoadToCancel(c, p) == Load(c, p, "canceling", <<>>, {})

LoadToCheck(c, p) ==
    \E answers \in Answers(p) : Load(c, p, "checking", Filled(proposal[p].ops, answers), {})

LoadToReplace(c, p) ==
    \E answers \in Answers(p) :
        Load(c, p, "replacing", Filled(proposal[p].ops, answers),
             {q \in proposal[p].clars : q.existing # Nil})

\* apply_proposal as an endpoint applies a READY or a questionable proposal
LoadToApply(c, p) == Load(c, p, "applying", proposal[p].ops, {})

\* _handle_cancel_new
CancelNew(c) ==
    /\ At(c, "canceling")
    /\ proposal' = [proposal EXCEPT ![Of(c)].status = "canceled"]
    /\ End(c)
    /\ UNCHANGED <<items, zone, now, book>>

\* _handle_replace_existing: each task that was in the way is canceled in a
\* commit of its own
CancelExisting(c) ==
    /\ At(c, "replacing")
    /\ \E q \in session[c].clars :
          /\ items' = [items EXCEPT ![q.existing].status = "CANCELED"]
          /\ session' = [session EXCEPT ![c].clars = @ \ {q}]
    /\ UNCHANGED <<zone, proposal, now, book>>

\* all are canceled: what takes their place is not checked again
Replaced(c) ==
    /\ At(c, "replacing")
    /\ session[c].clars = {}
    /\ Put(Of(c), session[c].status, "ready", session[c].ops, {})
    /\ session' = [session EXCEPT ![c].pc = "applying", ![c].status = "ready", ![c].next = 1]
    /\ UNCHANGED <<items, zone, now, book>>

-----------------------------------------------------------------------------
(* Notes and completions *)

\* get_by_id_and_user, with the check of the type: no check of deleted_at
LoadItem(s, type, pc) ==
    /\ At(s, "idle")
    /\ \E x \in DOMAIN Given :
          /\ items[x].type = type
          /\ session' = [session EXCEPT ![s] =
                [@ EXCEPT !.pc = pc, !.about = x, !.status = items[x].status]]
    /\ UNCHANGED <<items, zone, proposal, now, book>>

\* convert_note_to_task: in conflict, the answer has only suggestions
CheckNote(v) ==
    /\ At(v, "converting")
    /\ \E due \in Wishes :
          IF Conflicts(due, {Of(v)}) = {}
          THEN session' = [session EXCEPT
                    ![v].pc = "free",
                    ![v].checks[1] = [at |-> due, words |-> due, tz |-> UTC, on |-> now,
                                      seen |-> Seen]]
          ELSE End(v)
    /\ UNCHANGED <<items, zone, proposal, now, book>>

ConvertNote(v) ==
    /\ At(v, "free")
    /\ items' = [items EXCEPT ![Of(v)].type = "TASK", ![Of(v)].due = session[v].checks[1].at]
    /\ book' = [book EXCEPT ![Of(v)] = [check |-> session[v].checks[1], tz |-> Nil, by |-> now]]
    /\ End(v)
    /\ UNCHANGED <<zone, proposal, now>>

\* mutant: the status in another spelling
DeleteNote_Spelling(d) ==
    /\ At(d, "deleting")
    /\ items' = [items EXCEPT ![Of(d)].deleted = TRUE, ![Of(d)].status = "CANCELLED"]
    /\ End(d)
    /\ UNCHANGED <<zone, proposal, now, book>>

\* soft_delete
DeleteNote(d) ==
    /\ At(d, "deleting")
    /\ items' = [items EXCEPT ![Of(d)].deleted = TRUE,
                              ![Of(d)].status = IF session[d].status = "CANCELED"
                                                   THEN @ ELSE "CANCELED"]
    /\ End(d)
    /\ UNCHANGED <<zone, proposal, now, book>>

\* mark_as_complete
Complete(k) ==
    /\ At(k, "completing")
    /\ items' = [items EXCEPT ![Of(k)].status = IF session[k].status = "DONE"
                                                   THEN @ ELSE "DONE"]
    /\ End(k)
    /\ UNCHANGED <<zone, proposal, now, book>>

\* toggle_complete: whatever is not DONE becomes DONE, a canceled task too
Toggle(k) ==
    /\ At(k, "completing")
    /\ items' = [items EXCEPT ![Of(k)].status = IF session[k].status = "DONE"
                                                   THEN "ACTIVE" ELSE "DONE"]
    /\ End(k)
    /\ UNCHANGED <<zone, proposal, now, book>>

-----------------------------------------------------------------------------
(* Around them *)

SetZone(z) ==
    /\ zone # z
    /\ zone' = z
    /\ UNCHANGED <<items, proposal, now, session, book>>

\* time passes, by a slot or by many
Tick(t) ==
    /\ t > now
    /\ now' = t
    /\ UNCHANGED <<items, zone, proposal, session, book>>

Next ==
    \/ \E p \in Proposals : StartWorker(p)
    \/ \E s \in Bookers : CheckOp(s) \/ Ask(s) \/ Ready(s)
    \/ \E s \in Bookers : Create(s) \/ Update(s) \/ Skip(s) \/ Applied(s)
    \/ \E c \in Confirms :
          \/ \E p \in Proposals :
                LoadToCancel(c, p) \/ LoadToCheck(c, p) \/ LoadToReplace(c, p) \/ LoadToApply(c, p)
          \/ Refused(c) \/ CancelNew(c) \/ CancelExisting(c) \/ Replaced(c)
    \/ \E s \in ItemCalls :
          \/ LoadItem(s, "NOTE", "converting") \/ CheckNote(s) \/ ConvertNote(s)
          \/ LoadItem(s, "NOTE", "deleting") \/ DeleteNote(s)
          \/ LoadItem(s, "TASK", "completing") \/ Complete(s) \/ Toggle(s)
    \/ \E z \in NextZones : SetZone(z)
    \/ \E t \in Moments : Tick(t)

Spec == Init /\ [][Next]_vars

-----------------------------------------------------------------------------
(* Properties *)

TypeOK ==
    /\ items \in [Items -> Item]
    /\ zone \in Zones \union {Nil}
    /\ now \in Moments
    /\ book \in [Items -> Booking]
    /\ \A p \in Proposals :
          /\ proposal[p].status \in Status
          /\ proposal[p].ops \in Seq(Op) /\ Len(proposal[p].ops) = Len(Asked[p])
          /\ proposal[p].clars \subseteq Clarification
    /\ \A s \in Sessions :
          /\ session[s].pc \in {"idle", "checking", "applying", "canceling", "replacing",
                                 "converting", "free", "deleting", "completing", "done"}
          /\ session[s].clars \subseteq Clarification
          /\ session[s].checks \in [1..MostOps -> Check]
          /\ session[s].rows \in [1..MostOps -> Item]
          /\ session[s].books \in [1..MostOps -> Booking]

\* no more than half an hour is between them
Overlap(slot, other) == slot - other \in -1..1

\* A task that stands at the slot that was checked for it does not come within half an
\* hour of a task that the check could see and that has kept its time since, whatever
\* other calls do meanwhile: answers given at confirmation, a second round of questions,
\* a note converted into a task and a task revived included.  (It says nothing of a task
\* without a check, which replaces another, was applied by POST /apply or was moved by an
\* update, nor of one whose words came to mean another slot: see BookedAsChecked.)
NoSeenOverlap ==
    \A x \in Tasks : \A y \in Tasks \ {x} :
        LET check == book[x].check
        IN  (items[x].due = check.at /\ <<y, items[y].due>> \in check.seen)
                => ~Overlap(items[x].due, items[y].due)

\* words that were read at one instant still mean the same at a later one: the time of
\* day has not come, it is the same day, or (a day without a time gets the time of day
\* at which it is read) no time has passed
Stays(words, tz, on, by) ==
    LET how == Words[words].how
    IN  \/ words \notin Texts
        \/ how \in {"iso", "none"}
        \/ how = "clock" /\ by < When(words, tz, on)
        \/ how = "tomorrow" /\ Midnight(on + Ahead[tz]) = Midnight(by + Ahead[tz])
        \/ how = "date" /\ on = by

\* A booking repeats its check: what it reads again are the same words, in the same
\* zone (a user without a zone is checked in the zone of the client, but booked in UTC),
\* and they have kept their meaning.
Repeats(b) ==
    \/ b.check.words \notin Texts
    \/ /\ b.check.tz = Preferred(b.tz)
       /\ Stays(b.check.words, b.check.tz, b.check.on, b.by)

\* The time that a call has checked is the time it books, although the words are
\* parsed again, unless they have come to mean another: the user may move to another
\* zone in between, for the session keeps the user it has loaded, and the operations
\* checked are the ones applied, answers included.
BookedAsChecked ==
    \A x \in Items :
        (book[x].check.at # Nil /\ Repeats(book[x])) => items[x].due = book[x].check.at

\* What a question about a conflict suggests is free as far as its call could
\* see: only tasks that came up later can be in the way of a suggestion.
SuggestionsWereFree ==
    \A p \in Proposals : \A q \in proposal[p].clars : \A slot \in q.suggestions :
        \A x \in Tasks : Overlap(slot, items[x].due) => <<x, items[x].due>> \notin q.seen
=============================================================================
