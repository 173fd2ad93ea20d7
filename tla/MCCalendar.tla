----------------------------- MODULE MCCalendar -----------------------------
(* A small instance of Calendar for TLC. *)
EXTENDS Calendar, TLC

CONSTANTS p1, p2, c1, i1, t1, n1, noon, fixed, tomorrow, utc, east

\* the clocks of east are an hour ahead of utc
MCAhead == (utc :> 0) @@ (east :> 2)
MCWords ==
    (noon :> [how |-> "clock", at |-> 24]) @@ (fixed :> [how |-> "iso", at |-> 24])
    @@ (tomorrow :> [how |-> "tomorrow", at |-> 23])

NewTask(due) == [do |-> "create", item |-> Nil, due |-> due, status |-> Nil]
Change(x, due, status) == [do |-> "update", item |-> x, due |-> due, status |-> status]
MCAsked ==
    (p1 :> <<NewTask(noon), Change(Nil, Nil, "DONE")>>)
    @@ (p2 :> <<NewTask(Nil), Change(t1, tomorrow, Nil)>>)
MCClientZone == (p1 :> utc) @@ (p2 :> east)
MCGiven ==
    (t1 :> [type |-> "TASK", status |-> "ACTIVE", deleted |-> FALSE, due |-> 23])
    @@ (n1 :> [type |-> "NOTE", status |-> "ACTIVE", deleted |-> FALSE, due |-> Nil])
=============================================================================
