-------------------------- MODULE TenderRequirements --------------------------
(***************************************************************************)
(* What TenderService is required to do.  The repository's promises it     *)
(* does not keep are at the end, under their own heading.                  *)
(***************************************************************************)
EXTENDS TenderService

-------------------------------------------------------------------------------
(* Types *)

\* Every variable keeps its type; in particular an answered request has a code
\* and a request that reads or writes a row has one to work on.
TypeOK ==
    /\ StoreTypeOK
    /\ CacheTypeOK
    /\ pc \in [Requests -> Labels]
    /\ call \in [Requests -> Calls \union {None}]
    /\ dto \in [Requests -> Row \union {None}]
    /\ page \in [Requests -> Page \union {None}]
    /\ code \in [Requests -> Codes \union {None}]
    /\ preceding \in [Requests -> SUBSET Requests]
    /\ crashes \in 0 .. MaxCrashes

-------------------------------------------------------------------------------
(* Vocabulary *)

IsOp(r, op) == call[r] # None /\ call[r].op = op
IsUpdate(r) == IsOp(r, "update")

\* r is a request for tender t that was answered with status s.
Answered(r, s) == pc[r] = "done" /\ code[r] = s

\* The entries of tender t that request r committed, by their places.
EntriesOf(r, t) == {i \in DOMAIN changeLog[t] : changeLog[t][i].request = r}

\* Request r committed a change of tender t.
Changed(r, t) == EntriesOf(r, t) # {}

\* What row t was after the first n entries of its log were committed.
IsVersion(row, t, n) ==
    /\ row.createdBy = tenders[t].createdBy
    /\ row.createdAt = tenders[t].createdAt
    /\ IF n = 0
       THEN /\ row.status = "draft"
            /\ row.updatedBy = row.createdBy
            /\ row.updatedAt = row.createdAt
       ELSE /\ row.status = changeLog[t][n].new
            /\ row.updatedBy = changeLog[t][n].changedBy
            /\ row.updatedAt = changeLog[t][n].changedAt

\* README, "draft -> active -> {won | lost}": no status is left out or entered
\* twice, and nothing follows a final one.
IsLifecycle(log) ==
    /\ Len(log) <= 2
    /\ Len(log) >= 1 => log[1].old = "draft" /\ log[1].new = "active"
    /\ Len(log) = 2 => log[2].old = "active" /\ log[2].new \in {"won", "lost"}

-------------------------------------------------------------------------------
(* The write side *)

\* Between SELECT ... FOR UPDATE and the end of its transaction, the row an
\* update works on is the committed row, however many requests compete for it:
\* the transition it judged is still the transition it makes (get_by_id_for_update).
NoLostUpdate ==
    \A r \in Requests :
        pc[r] \in {"update", "log"} \/ (pc[r] = "commit" /\ IsUpdate(r))
            => dto[r] = tenders[call[r].tender]

\* The change log of a tender tells its whole history: the entries form a path
\* draft, active, won or lost, and the row is what the last of them says --
\* status, editor and time of the edit come and go together with the entry
\* (update_status and change_logs.add in one unit of work).
AuditTrail ==
    \A t \in Tenders :
        IF tenders[t] = None THEN changeLog[t] = <<>> ELSE
        /\ IsLifecycle(changeLog[t])
        /\ IsVersion(tenders[t], t, Len(changeLog[t]))

\* What an update was answered agrees with what it did: after 200 exactly one
\* entry of the log is its own, and it says what was asked for; after 404 or
\* 409 there is none.  Only a 500 leaves the caller in doubt.
ReplyMatchesLog ==
    \A r \in Requests :
        IsUpdate(r) =>
        LET t == call[r].tender IN
        /\ \A u \in Tenders \ {t} : EntriesOf(r, u) = {}
        /\ Answered(r, 200) =>
               \E i \in DOMAIN changeLog[t] :
                   /\ EntriesOf(r, t) = {i}
                   /\ changeLog[t][i].new = call[r].status
                   /\ changeLog[t][i].changedBy = call[r].user
                   /\ IsVersion(dto[r], t, i)
        /\ Answered(r, 404) \/ Answered(r, 409) => EntriesOf(r, t) = {}

\* Of several updates competing for one step of a tender only one is told that
\* it won, whatever failed or was retried in between: no two answers of 200
\* report the same new status of a tender, or two final ones.
SingleWinner ==
    \A r, o \in Requests :
        /\ IsUpdate(r) /\ IsUpdate(o)
        /\ Answered(r, 200) /\ Answered(o, 200)
        /\ call[r].tender = call[o].tender
        /\ call[r].status = call[o].status \/ {call[r].status, call[o].status} = {"won", "lost"}
        => r = o

Ledger == INSTANCE TenderLedger WITH
    Existing <- Seeded,
    status <- [t \in Tenders |-> IF tenders[t] = None THEN None ELSE tenders[t].status],
    trail <- [t \in Tenders |->
                 [i \in DOMAIN changeLog[t] |->
                     [old |-> changeLog[t][i].old, new |-> changeLog[t][i].new,
                      changedBy |-> changeLog[t][i].changedBy,
                      request |-> changeLog[t][i].request]]]

\* Seen through its committed rows, the service is the ledger: locks, flushes,
\* failures, rollbacks and crashes are all invisible there.
LedgerRefined == Ledger!LedgerSpec

-------------------------------------------------------------------------------
(* The read side *)

\* Whatever a get answers with, from the database or from Redis, and whatever
\* Redis holds, is a version of the row that was committed: never a flushed
\* row whose transaction was rolled back, and never a mixture of two.
ReadsAreCommitted ==
    \A t \in Tenders :
        LET Committed(row) == \E n \in 0 .. Len(changeLog[t]) : IsVersion(row, t, n) IN
        /\ cache[t] \in Cached => Committed(cache[t].row)
        /\ \A r \in Requests :
               IsOp(r, "get") /\ call[r].tender = t /\ dto[r] # None => Committed(dto[r])

\* Redis has a value for t that is not the row.
Stale(t) == cache[t] # None /\ (cache[t] \in Cached => cache[t].row # tenders[t])

\* A cached value is only ever out of date for one of the reasons the design
\* accepts: it was superseded between its SELECT and its SET, Redis may refuse
\* the delete, or an update that committed has not been answered 200 -- it is on
\* its way to invalidate_tender, died before it, or failed at its commit.  What an
\* earlier release left stays only as long as no update was answered 200.
StaleCacheExplained ==
    \A t \in Tenders :
        Stale(t) =>
            \/ cache[t] \in Cached /\ cache[t].late
            \/ cache[t] = Foreign /\ \A r \in Requests : Answered(r, 200) => ~Changed(r, t)
            \/ RedisMayFail
            \/ \E r \in Requests : Changed(r, t) /\ ~Answered(r, 200)

\* A list or history that comes after the answers to some commands sees them:
\* its total is at least the changes of the tender (the creations) answered with
\* success before it arrived.  It holds as neither query is cached.
QueriesSeeAnswers ==
    \A r \in Requests :
        Answered(r, 200) =>
        /\ IsOp(r, "history") =>
               page[r].total >=
                   Cardinality({o \in preceding[r] :
                       /\ IsUpdate(o) /\ Answered(o, 200)
                       /\ call[o].tender = call[r].tender})
        /\ IsOp(r, "list") /\ call[r].status = None =>
               page[r].total >=
                   Cardinality({o \in preceding[r] : IsOp(o, "create") /\ Answered(o, 201)})

\* The total of a page with items counts them and all that come before, and a
\* page is only short when it is the last: items and total are of one moment.
PageFitsTotal ==
    \A r \in Requests :
        (IsOp(r, "list") \/ IsOp(r, "history")) /\ Answered(r, 200)
            /\ page[r].items # <<>> =>
        LET last == call[r].offset + Len(page[r].items) IN
        /\ last <= page[r].total
        /\ Len(page[r].items) = call[r].limit \/ last = page[r].total

-------------------------------------------------------------------------------
(* The connection pool *)

\* A request holds a connection only while its unit of work is open: never
\* while it waits for Redis, and never after it was answered or died.
ConnectionsReturned ==
    \A r \in Requests :
        pc[r] \in {"idle", "lookup", "begin", "fill", "invalidate"} \union Finished
            => txn[r] = None

\* Whoever has a row that others may wait for (get_by_id_for_update) waits for
\* nothing: not for another row, a connection or Redis, and it is not gone.  So no
\* circle of row locks and pooled connections can form, however many requests compete.
HoldersNeverWait ==
    \A r \in Requests :
        txn[r] # None /\ txn[r].key # None => pc[r] \in {"update", "log", "commit", "rollback"}

-------------------------------------------------------------------------------
(* Progress *)

\* Every request that arrived is answered, or dies with the process: no cycle
\* of row locks and pooled connections keeps it waiting.
EveryRequestAnswered ==
    \A r \in Requests : pc[r] # "idle" ~> pc[r] \in Finished

\* A value that is out of date, or that gets fail on, does not stay in Redis for
\* ever, although Redis may refuse every delete.
StaleHeals == \A t \in Tenders : Stale(t) ~> ~Stale(t)

-------------------------------------------------------------------------------
(* Promised by the repository's tests and README, and not kept *)

\* A get that comes after an update was answered 200 returns a row no older:
\* tests/integration/test_tender_service.py, "assert fetched.status ==
\* updated.status".
ReadYourWrites ==
    \A r, o \in Requests :
        IsOp(r, "get") /\ Answered(r, 200)
            /\ o \in preceding[r] /\ Answered(o, 200) /\ IsUpdate(o)
            /\ call[o].tender = call[r].tender
        => \E i \in DOMAIN changeLog[call[r].tender] :
               /\ i >= CHOOSE j \in EntriesOf(o, call[r].tender) : TRUE
               /\ IsVersion(dto[r], call[r].tender, i)

\* A history lists the change that was made last first: tests/integration/
\* test_concurrency.py, "assert history.items[0].new_status == successes[0]".
HistoryNewestFirst ==
    \A r \in Requests :
        IsOp(r, "history") /\ Answered(r, 200) /\ call[r].offset = 0 =>
        \A i \in 1 .. Len(page[r].items) - 1 :
            page[r].items[i].old = page[r].items[i + 1].new

\* A page is empty only beyond the last row that its total counts: tests/
\* integration/test_tender_service.py, the empty page with a correct total.
EmptyPageIsBeyondTotal ==
    \A r \in Requests :
        (IsOp(r, "list") \/ IsOp(r, "history")) /\ Answered(r, 200)
            /\ page[r].items = <<>>
        => page[r].total <= call[r].offset
===============================================================================
