----------------------------- MODULE TenderService -----------------------------
(***************************************************************************)
(* TenderServiceImpl run by concurrent requests of one process over        *)
(* TenderStore and TenderCache.  Every await of a method is a step: between *)
(* two steps of a request, steps of the others may come.  pc names the     *)
(* statement a request is about to issue:                                  *)
(*                                                                         *)
(*   idle -> lookup (get) -> begin -> insert | lock | read | list          *)
(*   lock -> update -> log -> commit,  insert -> commit,  read -> history  *)
(*   list, history -> count,  commit -> invalidate,  rollback -> fill      *)
(*   ... -> done, or crashed when the process dies                         *)
(*                                                                         *)
(* rollback is the exit of SqlAlchemyUnitOfWork after an exception or in a *)
(* read-only unit of work, code the HTTP status the exception handlers     *)
(* give to the outcome.                                                    *)
(***************************************************************************)
EXTENDS TenderStore, TenderCache

CONSTANTS
    Calls,       \* the calls a request may carry
    Seeded,      \* tenders that are drafts in the database at the start
    Seeder,      \* the user who created those
    DbMayFail,   \* may connections, statements and commits fail?
    MaxCrashes   \* bound: how often the process may die

CreateCall == [op : {"create"}, user : Users]
UpdateCall == [op : {"update"}, tender : Tenders, status : Status, user : Users]
GetCall == [op : {"get"}, tender : Tenders]
ListCall == [op : {"list"}, status : Status \union {None},
             limit : Nat \ {0}, offset : Nat]
HistoryCall == [op : {"history"}, tender : Tenders, limit : Nat \ {0}, offset : Nat]

AnyCall == CreateCall \union UpdateCall \union GetCall \union ListCall \union HistoryCall

ASSUME CallsAssumption == Calls \subseteq AnyCall /\ None \notin Calls
ASSUME SeedAssumption == Seeded \subseteq Tenders /\ Seeder \in Users
ASSUME FailureAssumption == DbMayFail \in BOOLEAN /\ MaxCrashes \in Nat

VARIABLES
    pc,         \* the next step of each request
    call,       \* what it asks for
    dto,        \* the tender row it works on, and answers with
    page,       \* the page of a list or a history, with its total
    code,       \* the status it will answer, None while undecided
    preceding,  \* of a query: the requests answered before it arrived (a record
                \* for the properties, read by no action)
    crashes     \* how often the process died so far

requestVars == <<pc, call, dto, page, code, preceding>>
vars == <<storeVars, cache, requestVars, crashes>>

Labels == {"idle", "lookup", "begin", "insert", "lock", "update", "log", "commit",
           "read", "list", "history", "count", "rollback", "fill", "invalidate",
           "done", "crashed"}
Codes == {200, 201, 404, 409, 500}
Page == [items : Seq(Tenders \union Entry), total : Nat]

ASSUME NoPageAssumption == None \notin Page

Finished == {"done", "crashed"}

Goto(r, label) == pc' = [pc EXCEPT ![r] = label]
Decide(r, status) == code' = [code EXCEPT ![r] = status]

Init ==
    /\ StoreInit(Seeded, Seeder)
    /\ CacheInit
    /\ pc = [r \in Requests |-> "idle"]
    /\ call = [r \in Requests |-> None]
    /\ dto = [r \in Requests |-> None]
    /\ page = [r \in Requests |-> None]
    /\ code = [r \in Requests |-> None]
    /\ preceding = [r \in Requests |-> {}]
    /\ crashes = 0

-------------------------------------------------------------------------------
(* Arrival, and the transaction every operation opens *)

\* Bound: no more creations arrive than Tenders has ids for; uuid4 never runs out.
IdsLeft ==
    LET creations == {r \in Requests : call[r] # None /\ call[r].op = "create"} IN
    Cardinality(creations) < Cardinality(Tenders \ Seeded)

\* The dispatch of routes.py: only get_tender_by_id asks the cache first.
Arrive(r, c) ==
    /\ pc[r] = "idle"
    /\ c.op = "create" => IdsLeft
    /\ call' = [call EXCEPT ![r] = c]
    /\ preceding' = [preceding EXCEPT ![r] =
                        IF c.op \in {"get", "list", "history"}
                        THEN {o \in Requests : pc[o] = "done"} ELSE {}]
    /\ Goto(r, IF c.op = "get" THEN "lookup" ELSE "begin")
    /\ UNCHANGED <<storeVars, cache, dto, page, code, crashes>>

FirstStatement ==
    [create |-> "insert", update |-> "lock", get |-> "read", history |-> "read",
     list |-> "list"]

Begin(r) ==
    /\ pc[r] = "begin"
    /\ OpenTransaction(r, call[r].op \in {"create", "update"})
    /\ Goto(r, FirstStatement[call[r].op])
    /\ UNCHANGED <<cache, call, dto, page, code, preceding, crashes>>

\* The pool times out, or the database cannot be reached.
NoConnection(r) ==
    /\ pc[r] = "begin"
    /\ DbMayFail \/ ~PoolHasRoom
    /\ Decide(r, 500)
    /\ Goto(r, "done")
    /\ UNCHANGED <<storeVars, cache, call, dto, page, preceding, crashes>>

\* A statement raises: the unit of work exits with the exception.
StatementFails(r) ==
    /\ pc[r] \in {"insert", "lock", "update", "log", "read", "list", "history", "count"}
    /\ DbMayFail
    /\ Decide(r, 500)
    /\ Goto(r, "rollback")
    /\ UNCHANGED <<storeVars, cache, call, dto, page, preceding, crashes>>

-------------------------------------------------------------------------------
(* create_tender and update_tender_status *)

CreateTender(r) ==
    /\ pc[r] = "insert"
    /\ \E t \in Tenders : AddTender(r, t, call[r].user)
    /\ Goto(r, "commit")
    /\ UNCHANGED <<cache, call, dto, page, code, preceding, crashes>>

TenderNotFound(r) ==
    /\ pc[r] \in {"lock", "read"}
    /\ tenders[call[r].tender] = None
    /\ Decide(r, 404)
    /\ Goto(r, "rollback")
    /\ UNCHANGED <<storeVars, cache, call, dto, page, preceding, crashes>>

\* The locked row is read, the transition judged on it: no await in between.
LockTender(r) ==
    LET row == tenders[call[r].tender] IN
    /\ pc[r] = "lock"
    /\ GetByIdForUpdate(r, call[r].tender)
    /\ dto' = [dto EXCEPT ![r] = row]
    /\ IF EnsureTransitionAllowed(row.status, call[r].status)
       THEN Goto(r, "update") /\ UNCHANGED code
       ELSE Goto(r, "rollback") /\ Decide(r, 409)
    /\ UNCHANGED <<cache, call, page, preceding, crashes>>

\* Fault for mutation: the flushed row is put into Redis before the commit.
WriteStatusThrough(r) ==
    /\ pc[r] = "update"
    /\ UpdateStatus(r, dto[r], call[r].status, call[r].user)
    /\ SetTender(call[r].tender, txn'[r].row, FALSE)
    /\ Goto(r, "log")
    /\ UNCHANGED <<call, dto, page, code, preceding, crashes>>

WriteStatus(r) ==
    /\ pc[r] = "update"
    /\ UpdateStatus(r, dto[r], call[r].status, call[r].user)
    /\ Goto(r, "log")
    /\ UNCHANGED <<cache, call, dto, page, code, preceding, crashes>>

WriteChangeLog(r) ==
    /\ pc[r] = "log"
    /\ AddChangeLog(r, dto[r].status, call[r].status, call[r].user)
    /\ Goto(r, "commit")
    /\ UNCHANGED <<cache, call, dto, page, code, preceding, crashes>>

\* Fault for mutation: the caller is answered without dropping the cached copy.
CommitAndAnswer(r) ==
    /\ pc[r] = "commit"
    /\ Commit(r)
    /\ dto' = [dto EXCEPT ![r] = txn[r].row]
    /\ Decide(r, IF call[r].op = "create" THEN 201 ELSE 200)
    /\ Goto(r, "done")
    /\ UNCHANGED <<cache, call, page, preceding, crashes>>

CommitTransaction(r) ==
    /\ pc[r] = "commit"
    /\ Commit(r)
    /\ dto' = [dto EXCEPT ![r] = txn[r].row]
    /\ IF call[r].op = "create"
       THEN Decide(r, 201) /\ Goto(r, "done")
       ELSE Decide(r, 200) /\ Goto(r, "invalidate")
    /\ UNCHANGED <<cache, call, page, preceding, crashes>>

\* commit() raises, before the server applied the transaction or after: the
\* unit of work rolls back what is left of it and lets the exception pass.
CommitFails(r) ==
    /\ pc[r] = "commit"
    /\ DbMayFail
    /\ Commit(r) \/ UNCHANGED storeVars
    /\ Decide(r, 500)
    /\ Goto(r, "rollback")
    /\ UNCHANGED <<cache, call, dto, page, preceding, crashes>>

InvalidateCache(r) ==
    /\ pc[r] = "invalidate"
    /\ InvalidateTender(call[r].tender)
    /\ Goto(r, "done")
    /\ UNCHANGED <<storeVars, call, dto, page, code, preceding, crashes>>

-------------------------------------------------------------------------------
(* get_tender_by_id, get_tenders and get_tender_history *)

CacheHit(r) ==
    /\ pc[r] = "lookup"
    /\ Hit(call[r].tender)
    /\ dto' = [dto EXCEPT ![r] = cache[call[r].tender].row]
    /\ Decide(r, 200)
    /\ Goto(r, "done")
    /\ UNCHANGED <<storeVars, cache, call, page, preceding, crashes>>

\* The ValidationError passes through get_tender and get_tender_by_id.
CacheUnreadable(r) ==
    /\ pc[r] = "lookup"
    /\ Unreadable(call[r].tender)
    /\ Decide(r, 500)
    /\ Goto(r, "done")
    /\ UNCHANGED <<storeVars, cache, call, dto, page, preceding, crashes>>

CacheMiss(r) ==
    /\ pc[r] = "lookup"
    /\ MissOrError(call[r].tender)
    /\ Goto(r, "begin")
    /\ UNCHANGED <<storeVars, cache, call, dto, page, code, preceding, crashes>>

ReadTender(r) ==
    /\ pc[r] = "read"
    /\ tenders[call[r].tender] # None
    /\ IF call[r].op = "history"
       THEN Goto(r, "history") /\ UNCHANGED <<dto, code>>
       ELSE /\ dto' = [dto EXCEPT ![r] = tenders[call[r].tender]]
            /\ Decide(r, 200)
            /\ Goto(r, "rollback")
    /\ UNCHANGED <<storeVars, cache, call, page, preceding, crashes>>

\* Everything the list or history of request r selects, in the orders it may have.
Selected(r) == IF call[r].op = "list" THEN TendersInOrder(call[r].status)
                                      ELSE HistoryInOrder(call[r].tender)

\* What request r returns of all it selects.
PageFor(r, all) == PageOf(all, call[r].limit, call[r].offset)

\* Fault for mutation: count() is taken over the page instead of the window.
SelectPageOnly(r) ==
    /\ pc[r] \in {"list", "history"}
    /\ \E all \in Selected(r) :
           /\ page' = [page EXCEPT ![r] = [items |-> PageFor(r, all),
                                           total |-> Len(PageFor(r, all))]]
           /\ IF PageFor(r, all) # <<>>
              THEN Decide(r, 200) /\ Goto(r, "rollback")
              ELSE Goto(r, "count") /\ UNCHANGED code
    /\ UNCHANGED <<storeVars, cache, call, dto, preceding, crashes>>

\* Fault for mutation: the total is always asked for by a statement of its own.
SelectThenCount(r) ==
    /\ pc[r] \in {"list", "history"}
    /\ \E all \in Selected(r) :
           page' = [page EXCEPT ![r] = [items |-> PageFor(r, all), total |-> 0]]
    /\ Goto(r, "count")
    /\ UNCHANGED <<storeVars, cache, call, dto, code, preceding, crashes>>

\* One statement returns the page and, on each of its rows, the total; an
\* empty page has no row to carry it, so the total takes another statement.
SelectPage(r) ==
    /\ pc[r] \in {"list", "history"}
    /\ \E all \in Selected(r) :
           IF PageFor(r, all) # <<>>
           THEN /\ page' = [page EXCEPT ![r] = [items |-> PageFor(r, all),
                                                total |-> Len(all)]]
                /\ Decide(r, 200)
                /\ Goto(r, "rollback")
           ELSE /\ page' = [page EXCEPT ![r] = [items |-> <<>>, total |-> 0]]
                /\ Goto(r, "count")
                /\ UNCHANGED code
    /\ UNCHANGED <<storeVars, cache, call, dto, preceding, crashes>>

Count(r) ==
    /\ pc[r] = "count"
    /\ page' = [page EXCEPT ![r].total =
                   IF call[r].op = "list" THEN Cardinality(Matching(call[r].status))
                                          ELSE Len(changeLog[call[r].tender])]
    /\ Decide(r, 200)
    /\ Goto(r, "rollback")
    /\ UNCHANGED <<storeVars, cache, call, dto, preceding, crashes>>

\* The unit of work is left; only a get that found its row goes on.
RollbackTransaction(r) ==
    /\ pc[r] = "rollback"
    /\ Rollback(r)
    /\ Goto(r, IF call[r].op = "get" /\ code[r] = 200 THEN "fill" ELSE "done")
    /\ UNCHANGED <<cache, call, dto, page, code, preceding, crashes>>

\* rollback() raises in its turn; the dependency still closes the session.
RollbackFails(r) ==
    /\ pc[r] = "rollback"
    /\ DbMayFail
    /\ Rollback(r)
    /\ Decide(r, 500)
    /\ Goto(r, "done")
    /\ UNCHANGED <<cache, call, dto, page, preceding, crashes>>

FillCache(r) ==
    /\ pc[r] = "fill"
    /\ SetTender(call[r].tender, dto[r], dto[r] # tenders[call[r].tender])
    /\ Goto(r, "done")
    /\ UNCHANGED <<storeVars, call, dto, page, code, preceding, crashes>>

-------------------------------------------------------------------------------
(* The process and the specification *)

\* The process dies with every request in it.  PostgreSQL rolls their
\* transactions back, Redis keeps what it has.
Crash ==
    LET inFlight == {r \in Requests : pc[r] \notin Finished \union {"idle"}} IN
    /\ crashes < MaxCrashes
    /\ inFlight # {}
    /\ crashes' = crashes + 1
    /\ pc' = [r \in Requests |-> IF r \in inFlight THEN "crashed" ELSE pc[r]]
    /\ RollbackAll
    /\ UNCHANGED <<cache, call, dto, page, code, preceding>>

Step(r) ==
    \/ Begin(r) \/ NoConnection(r) \/ StatementFails(r)
    \/ CreateTender(r)
    \/ TenderNotFound(r) \/ LockTender(r) \/ WriteStatus(r) \/ WriteChangeLog(r)
    \/ CommitTransaction(r) \/ CommitFails(r) \/ InvalidateCache(r)
    \/ CacheHit(r) \/ CacheUnreadable(r) \/ CacheMiss(r) \/ ReadTender(r) \/ FillCache(r)
    \/ SelectPage(r) \/ Count(r)
    \/ RollbackTransaction(r) \/ RollbackFails(r)

ExpireKey(t) == Expire(t) /\ UNCHANGED <<storeVars, requestVars, crashes>>

\* Every request of this behaviour has been dealt with: not a deadlock.
Terminated ==
    /\ \A r \in Requests : pc[r] \in Finished
    /\ UNCHANGED vars

Next ==
    \/ \E r \in Requests : Step(r) \/ \E c \in Calls : Arrive(r, c)
    \/ \E t \in Tenders : ExpireKey(t)
    \/ Crash
    \/ Terminated

Spec == Init /\ [][Next]_vars

\* Every statement and every Redis command is answered or fails, row locks are
\* granted to a waiter that stays first, and a time to live runs out.  Nothing
\* makes a request arrive or the process die.
Fairness ==
    /\ \A r \in Requests : WF_vars(Step(r))
    /\ \A t \in Tenders : WF_vars(ExpireKey(t))

FairSpec == Spec /\ Fairness
===============================================================================
