------------------------------ MODULE TenderStore ------------------------------
(***************************************************************************)
(* PostgreSQL as the repositories, the unit of work and the engine use it: *)
(* READ COMMITTED, one transaction per session, row locks taken by         *)
(* SELECT ... FOR UPDATE, and a bounded connection pool.  Every operator   *)
(* is one statement, which is one await of the service; two statements of  *)
(* one session are two steps that others may come between.                 *)
(*                                                                         *)
(* A session holds a pooled connection exactly while its transaction is    *)
(* open: SQLAlchemy checks one out at the first statement and returns it   *)
(* at commit or rollback.                                                  *)
(***************************************************************************)
EXTENDS TenderModels, Functions

CONSTANT PoolSize   \* MAX_POOL_SIZE + MAX_OVERFLOW

ASSUME PoolAssumption == PoolSize \in Nat \ {0}

VARIABLES
    tenders,    \* committed rows of `tenders'
    changeLog,  \* committed entries of each tender, in the order of their commits
    txn,        \* open transaction of each session: start time, row held, writes
    clock       \* start time of the latest writing transaction

storeVars == <<tenders, changeLog, txn, clock>>

Txn == [now : Nat, key : Tenders \union {None},
        row : Row \union {None}, entry : Entry \union {None}]

ASSUME NoTxnAssumption == None \notin Txn

StoreTypeOK ==
    /\ tenders \in [Tenders -> Row \union {None}]
    /\ changeLog \in [Tenders -> Seq(Entry)]
    /\ txn \in [Requests -> Txn \union {None}]
    /\ clock \in Nat

StoreInit(seeded, user) ==
    /\ tenders = [t \in Tenders |-> IF t \in seeded THEN NewRow(user, 0) ELSE None]
    /\ changeLog = [t \in Tenders |-> <<>>]
    /\ txn = [r \in Requests |-> None]
    /\ clock = 0

-------------------------------------------------------------------------------
(* Transactions *)

PoolHasRoom == Cardinality({r \in Requests : txn[r] # None}) < PoolSize

\* Check a connection out and BEGIN.  now() is the start of the transaction,
\* fixed here: the clock moves only when a transaction that will ask for
\* now() begins, since nothing else can see it.
OpenTransaction(r, writes) ==
    /\ txn[r] = None
    /\ PoolHasRoom
    /\ clock' = IF writes THEN clock + 1 ELSE clock
    /\ txn' = [txn EXCEPT ![r] = [now |-> clock', key |-> None,
                                  row |-> None, entry |-> None]]
    /\ UNCHANGED <<tenders, changeLog>>

\* Fault for mutation: the change-log row is lost when the session commits.
CommitForgettingEntry(r) ==
    /\ tenders' = IF txn[r].row = None THEN tenders
                  ELSE [tenders EXCEPT ![txn[r].key] = txn[r].row]
    /\ txn' = [txn EXCEPT ![r] = None]
    /\ UNCHANGED <<changeLog, clock>>

\* Make the pending writes visible, release the row and the connection.
Commit(r) ==
    LET w == txn[r] IN
    /\ tenders' = IF w.row = None THEN tenders
                  ELSE [tenders EXCEPT ![w.key] = w.row]
    /\ changeLog' = IF w.entry = None THEN changeLog
                    ELSE [changeLog EXCEPT ![w.key] = Append(@, w.entry)]
    /\ txn' = [txn EXCEPT ![r] = None]
    /\ UNCHANGED clock

\* Fault for mutation: the transaction is left open.
RollbackLeavingOpen(r) == UNCHANGED storeVars

Rollback(r) ==
    /\ txn' = [txn EXCEPT ![r] = None]
    /\ UNCHANGED <<tenders, changeLog, clock>>

\* The server drops every transaction whose client process is gone.
RollbackAll ==
    /\ txn' = [r \in Requests |-> None]
    /\ UNCHANGED <<tenders, changeLog, clock>>

-------------------------------------------------------------------------------
(* TenderRepo and TenderChangeLogRepo *)

\* No open transaction has locked or inserted row t.
RowIsFree(t) == \A o \in Requests : txn[o] # None => txn[o].key # t

\* TenderRepo.add: INSERT under an id nobody else has drawn.
AddTender(r, t, user) ==
    /\ tenders[t] = None
    /\ RowIsFree(t)
    /\ txn' = [txn EXCEPT ![r].key = t, ![r].row = NewRow(user, txn[r].now)]
    /\ UNCHANGED <<tenders, changeLog, clock>>

\* Fault for mutation: a plain SELECT, which does not wait for the row.
SelectWithoutLock(r, t) ==
    /\ tenders[t] # None
    /\ txn' = [txn EXCEPT ![r].key = t]
    /\ UNCHANGED <<tenders, changeLog, clock>>

\* TenderRepo.get_by_id_for_update on an existing row: not enabled, that is
\* waiting, while another transaction holds it.
GetByIdForUpdate(r, t) ==
    /\ tenders[t] # None
    /\ RowIsFree(t)
    /\ txn' = [txn EXCEPT ![r].key = t]
    /\ UNCHANGED <<tenders, changeLog, clock>>

\* Fault for mutation: the editor is not recorded with the new status.
UpdateStatusAlone(r, row, new, user) ==
    /\ txn' = [txn EXCEPT ![r].row = [row EXCEPT !.status = new,
                                                 !.updatedAt = txn[r].now]]
    /\ UNCHANGED <<tenders, changeLog, clock>>

\* TenderRepo.update_status: assign and flush; onupdate sets updated_at.
UpdateStatus(r, row, new, user) ==
    /\ txn' = [txn EXCEPT ![r].row = [row EXCEPT !.status = new, !.updatedBy = user,
                                                 !.updatedAt = txn[r].now]]
    /\ UNCHANGED <<tenders, changeLog, clock>>

\* TenderChangeLogRepo.add: INSERT; changed_at defaults to now().
AddChangeLog(r, old, new, user) ==
    /\ txn' = [txn EXCEPT ![r].entry =
                  [old |-> old, new |-> new, changedBy |-> user,
                   changedAt |-> txn[r].now, request |-> r]]
    /\ UNCHANGED <<tenders, changeLog, clock>>

\* The rows a list statement selects; status None is "no filter".
Matching(status) ==
    {t \in Tenders : tenders[t] # None /\ status \in {None, tenders[t].status}}

\* ORDER BY a timestamp, newest first: the arrangements of its domain.  Rows of
\* one moment may come in any order, that of their random ids.
NewestFirst(time) ==
    {s \in Injection(1 .. Cardinality(DOMAIN time), DOMAIN time) :
        \A i, j \in DOMAIN s : i < j => time[s[i]] >= time[s[j]]}

TendersInOrder(status) ==
    NewestFirst([t \in Matching(status) |-> tenders[t].createdAt])

HistoryInOrder(t) ==
    {[k \in DOMAIN s |-> changeLog[t][s[k]]] :
        s \in NewestFirst([i \in DOMAIN changeLog[t] |-> changeLog[t][i].changedAt])}

\* LIMIT limit OFFSET offset.
PageOf(s, limit, offset) ==
    SubSeq(s, offset + 1, IF offset + limit < Len(s) THEN offset + limit ELSE Len(s))
===============================================================================
