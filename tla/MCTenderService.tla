---------------------------- MODULE MCTenderService ----------------------------
(***************************************************************************)
(* Values of the constants for TLC: which calls each run lets the requests *)
(* make, and the symmetry of the safety runs.                              *)
(***************************************************************************)
EXTENDS TenderRequirements, TLC

CONSTANTS t1, t2, u1, u2

Update(t, s, u) == [op |-> "update", tender |-> t, status |-> s, user |-> u]
Get(t) == [op |-> "get", tender |-> t]
List(s, limit, offset) == [op |-> "list", status |-> s, limit |-> limit, offset |-> offset]
History(t, limit, offset) ==
    [op |-> "history", tender |-> t, limit |-> limit, offset |-> offset]
Create(u) == [op |-> "create", user |-> u]

\* Two users race on one tender, and on one that may not exist yet.
CommandCalls ==
    {Update(t1, "active", u1), Update(t1, "active", u2), Update(t1, "won", u1),
     Update(t1, "lost", u2), Update(t2, "active", u1), Create(u2)}

\* One tender read and changed.
CacheCalls == {Update(t1, "active", u1), Update(t1, "won", u1), Get(t1)}

\* Lists and histories while rows appear and change.
QueryCalls ==
    {Update(t1, "active", u1), Update(t1, "lost", u1), Create(u1),
     List(None, 2, 0), List(None, 1, 1), List("active", 2, 0),
     History(t1, 1, 0), History(t1, 1, 1), History(t2, 2, 0)}

\* Two changes of one tender and its history.
HistoryCalls == {Update(t1, "active", u1), Update(t1, "won", u1), History(t1, 2, 0)}

OneTender == {t1}
BothTenders == {t1, t2}
BothUsers == {u1, u2}
OneUser == {u1}

AnyOrder == Permutations(Requests)
===============================================================================
