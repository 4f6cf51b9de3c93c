--------------------------- MODULE TenderAuditProofs ---------------------------
(***************************************************************************)
(* The row lock makes concurrent updates of a tender sequential, and the   *)
(* change log is the exact history of its row: NoLostUpdate, AuditTrail    *)
(* and ConnectionsReturned, for every value of the constants.              *)
(*                                                                         *)
(* NoLostUpdate is not inductive: that nobody commits a row another        *)
(* request has read for update rests on RowsHeldOnce, and that the commit  *)
(* of a request keeps AuditTrail rests on what WriteSet says of the row    *)
(* and the entry its transaction has gathered so far.                      *)
(***************************************************************************)
EXTENDS TenderTypeProofs

-------------------------------------------------------------------------------
(* The inductive invariant *)

\* No two open transactions hold the same row, be it locked or inserted.
RowsHeldOnce ==
    \A r, o \in Requests :
        r # o /\ txn[r] # None /\ txn[o] # None /\ txn[r].key # None
            => txn[r].key # txn[o].key

\* What update r writes into the row it locked, and into the log.
UpdatedRow(r) == [dto[r] EXCEPT !.status = call[r].status, !.updatedBy = call[r].user,
                                !.updatedAt = txn[r].now]
ChangeEntry(r) == [old |-> dto[r].status, new |-> call[r].status, changedBy |-> call[r].user,
                   changedAt |-> txn[r].now, request |-> r]

\* What the open transaction of r has read and written so far.
WriteSet(r) ==
    /\ pc[r] \in {"insert", "lock", "update", "log"} => txn[r].entry = None
    /\ Changing(r) =>
           /\ dto[r] = tenders[call[r].tender]
           /\ EnsureTransitionAllowed(dto[r].status, call[r].status)
    /\ pc[r] = "log" \/ (pc[r] = "commit" /\ IsUpdate(r)) => txn[r].row = UpdatedRow(r)
    /\ pc[r] = "commit" /\ IsUpdate(r) => txn[r].entry = ChangeEntry(r)
    /\ pc[r] = "commit" /\ IsOp(r, "create") =>
           /\ tenders[txn[r].key] = None
           /\ txn[r].row = NewRow(call[r].user, txn[r].now)
           /\ txn[r].entry = None

WriteSets == \A r \in Requests : WriteSet(r)

AuditInv == TypeInv /\ RowsHeldOnce /\ WriteSets /\ AuditTrail

USE DEF Goto, Decide, Op, IsOp, IsUpdate

-------------------------------------------------------------------------------
(* Lemmas *)

LEMMA InitAudit == Init => AuditInv
<1> SUFFICES ASSUME Init PROVE AuditInv
  OBVIOUS
<1>1. RowsHeldOnce /\ WriteSets
  BY DEF Init, StoreInit, RowsHeldOnce, WriteSets, WriteSet, Changing
<1>2. AuditTrail
  BY NoneAssumption DEF Init, StoreInit, AuditTrail, IsLifecycle, IsVersion, NewRow
<1> QED BY <1>1, <1>2, InitTypes DEF AuditInv

\* A request that neither commits nor takes a row keeps the invariant if what
\* its own transaction has gathered is still in order.
LEMMA AuditFrame ==
    ASSUME AuditInv, TypeInv', NEW r \in Requests,
           UNCHANGED <<tenders, changeLog>>,
           \A o \in Requests \ {r} :
               pc'[o] = pc[o] /\ call'[o] = call[o] /\ txn'[o] = txn[o] /\ dto'[o] = dto[o],
           \/ txn'[r] = None
           \/ txn'[r].key = None
           \/ txn[r] # None /\ txn'[r].key = txn[r].key
           \/ RowIsFree(txn'[r].key),
           WriteSet(r)'
    PROVE  AuditInv'
<1>1. RowsHeldOnce'
  BY DEF AuditInv, RowsHeldOnce, RowIsFree
<1>2. ASSUME NEW o \in Requests \ {r} PROVE WriteSet(o)'
  <2>1. pc'[o] = pc[o] /\ call'[o] = call[o] /\ txn'[o] = txn[o] /\ dto'[o] = dto[o]
    OBVIOUS
  <2>2. UpdatedRow(o)' = UpdatedRow(o) /\ ChangeEntry(o)' = ChangeEntry(o)
    BY <2>1 DEF UpdatedRow, ChangeEntry
  <2> QED
    BY <2>1, <2>2 DEF AuditInv, WriteSets, WriteSet, Changing, EnsureTransitionAllowed, NewRow
<1>3. WriteSets'
  BY <1>2 DEF WriteSets
<1>4. AuditTrail'
  BY DEF AuditInv, AuditTrail, IsVersion, IsLifecycle
<1> QED BY <1>1, <1>3, <1>4 DEF AuditInv

\* The same for a step that leaves the store alone and does not go on writing.
LEMMA AuditQuiet ==
    ASSUME AuditInv, TypeInv', NEW r \in Requests, UNCHANGED storeVars,
           \A o \in Requests \ {r} : pc'[o] = pc[o] /\ call'[o] = call[o] /\ dto'[o] = dto[o],
           pc'[r] \notin {"insert", "lock", "update", "log", "commit"}
    PROVE  AuditInv'
<1>1. WriteSet(r)'
  BY DEF WriteSet, Changing
<1> QED BY <1>1, AuditFrame DEF storeVars

-------------------------------------------------------------------------------
(* Commit *)

\* A committed change is the next step of the life of its tender.
LEMMA ChangeExtendsLifecycle ==
    ASSUME NEW log \in Seq(Entry), NEW entry \in Entry, IsLifecycle(log),
           EnsureTransitionAllowed(entry.old, entry.new),
           entry.old = IF Len(log) = 0 THEN "draft" ELSE log[Len(log)].new
    PROVE  IsLifecycle(Append(log, entry))
<1> DEFINE longer == Append(log, entry)
           n == Len(log)
<1>1. /\ n \in Nat
      /\ Len(longer) = n + 1
      /\ \A i \in 1 .. n : longer[i] = log[i]
      /\ longer[n + 1] = entry
  OBVIOUS
<1>2. /\ n <= 2
      /\ n >= 1 => log[1].old = "draft" /\ log[1].new = "active"
      /\ n = 2 => log[2].old = "active" /\ log[2].new \in {"won", "lost"}
  BY DEF IsLifecycle
<1>3. entry.old = IF n = 0 THEN "draft" ELSE log[n].new
  OBVIOUS
<1>4. /\ entry.old = "draft" => entry.new = "active"
      /\ entry.old = "active" => entry.new \in {"won", "lost"}
      /\ entry.old \notin {"won", "lost"}
  BY DEF Entry, EnsureTransitionAllowed, AllowedStatusTransitions, Status
<1> HIDE DEF longer, n
<1>5. n \in {0, 1}
  BY <1>1, <1>2, <1>3, <1>4
<1>6. ASSUME n = 0 PROVE IsLifecycle(longer)
  <2>1. entry.old = "draft" /\ entry.new = "active"
    BY <1>3, <1>4, <1>6
  <2>2. Len(longer) = 1 /\ longer[1].old = "draft" /\ longer[1].new = "active"
    BY <1>1, <1>6, <2>1
  <2> QED BY <2>2 DEF IsLifecycle
<1>7. ASSUME n = 1 PROVE IsLifecycle(longer)
  <2>1. entry.old = "active" /\ entry.new \in {"won", "lost"}
    BY <1>2, <1>3, <1>4, <1>7
  <2>2. /\ Len(longer) = 2 /\ longer[1].old = "draft" /\ longer[1].new = "active"
        /\ longer[2].old = "active" /\ longer[2].new \in {"won", "lost"}
    BY <1>1, <1>2, <1>7, <2>1
  <2> QED BY <2>2 DEF IsLifecycle
<1>8. IsLifecycle(longer)
  BY <1>5, <1>6, <1>7
<1> QED BY <1>8 DEF longer

\* What a committing request has in its transaction.
LEMMA CommittingTxn ==
    ASSUME TypeInv, NEW r \in Requests, pc[r] = "commit"
    PROVE  /\ txn[r] \in Txn /\ txn[r].key \in Tenders /\ txn[r].row \in Row
           /\ call[r] \in Calls
           /\ IsUpdate(r) \/ IsOp(r, "create")
           /\ IsUpdate(r) => txn[r].key = call[r].tender /\ dto[r] \in Row
BY TxnOfWorking, CallOfActive
DEF TypeInv, TypeOK, Stages, Stage, StageOp, StageTxn, StageData, Changing, Working, Txn

\* The log and the row of the tender that update r commits.
LEMMA AuditOfUpdate ==
    ASSUME AuditInv, NEW r \in Requests, pc[r] = "commit", IsUpdate(r), Commit(r),
           NEW t \in Tenders, t = txn[r].key
    PROVE  /\ tenders[t] \in Row /\ dto[r] = tenders[t]
           /\ tenders'[t] = UpdatedRow(r) /\ tenders'[t] # None
           /\ changeLog'[t] = Append(changeLog[t], ChangeEntry(r))
           /\ ChangeEntry(r) \in Entry
           /\ (IsLifecycle(changeLog[t]) /\ IsVersion(tenders[t], t, Len(changeLog[t])))'
<1>1. /\ txn[r] \in Txn /\ t = call[r].tender /\ txn[r].row \in Row /\ dto[r] \in Row
      /\ call[r] \in Calls
  BY CommittingTxn DEF AuditInv
<1>2. /\ dto[r] = tenders[t] /\ EnsureTransitionAllowed(dto[r].status, call[r].status)
      /\ txn[r].row = UpdatedRow(r) /\ txn[r].entry = ChangeEntry(r)
  BY <1>1 DEF AuditInv, WriteSets, WriteSet, Changing
<1>3. ChangeEntry(r) \in Entry /\ ChangeEntry(r) # None
  BY <1>1, CallFields, NoneAssumption DEF ChangeEntry, Entry, Row, Txn
<1>4. tenders'[t] = UpdatedRow(r) /\ changeLog'[t] = Append(changeLog[t], ChangeEntry(r))
  BY <1>1, <1>2, <1>3, NoneAssumption DEF Commit, AuditInv, TypeInv, TypeOK, StoreTypeOK
<1>5. /\ changeLog[t] \in Seq(Entry) /\ tenders[t] # None
      /\ IsLifecycle(changeLog[t]) /\ IsVersion(tenders[t], t, Len(changeLog[t]))
  BY <1>1, <1>2, NoneAssumption DEF AuditInv, AuditTrail, TypeInv, TypeOK, StoreTypeOK
<1>6. ChangeEntry(r).old = IF Len(changeLog[t]) = 0 THEN "draft"
                           ELSE changeLog[t][Len(changeLog[t])].new
  BY <1>2, <1>5 DEF IsVersion, ChangeEntry
<1>7. IsLifecycle(Append(changeLog[t], ChangeEntry(r)))
  <2>1. EnsureTransitionAllowed(ChangeEntry(r).old, ChangeEntry(r).new)
    BY <1>2 DEF ChangeEntry
  <2> QED BY <1>3, <1>5, <1>6, <2>1, ChangeExtendsLifecycle
<1>8. IsVersion(tenders[t], t, Len(changeLog[t]))'
  <2> DEFINE n == Len(changeLog[t])
             m == Len(changeLog'[t])
  <2>1. n \in Nat /\ m = n + 1 /\ changeLog'[t][m] = ChangeEntry(r)
    BY <1>3, <1>4, <1>5
  <2>2. /\ tenders'[t].status = call[r].status /\ tenders'[t].updatedBy = call[r].user
        /\ tenders'[t].updatedAt = txn[r].now
    BY <1>1, <1>4 DEF UpdatedRow, Row
  <2> HIDE DEF n, m
  <2>3. m # 0
    BY <2>1
  <2>4. /\ tenders'[t].status = changeLog'[t][m].new
        /\ tenders'[t].updatedBy = changeLog'[t][m].changedBy
        /\ tenders'[t].updatedAt = changeLog'[t][m].changedAt
    BY <2>1, <2>2 DEF ChangeEntry
  <2> QED BY <2>3, <2>4 DEF IsVersion, m
<1>9. IsLifecycle(changeLog[t])'
  BY <1>4, <1>7 DEF IsLifecycle
<1> QED BY <1>1, <1>2, <1>3, <1>4, <1>8, <1>9, CommittingTxn, NoneAssumption DEF AuditInv

\* A created tender starts as a draft, with an empty log.
LEMMA AuditOfCreate ==
    ASSUME AuditInv, NEW r \in Requests, pc[r] = "commit", IsOp(r, "create"), Commit(r),
           NEW t \in Tenders, t = txn[r].key
    PROVE  /\ tenders[t] = None
           /\ tenders'[t] = NewRow(call[r].user, txn[r].now)
           /\ changeLog'[t] = changeLog[t] /\ changeLog[t] = <<>>
<1>1. txn[r] \in Txn /\ txn[r].row # None
  BY CommittingTxn, NoneAssumption DEF AuditInv
<1>2. /\ tenders[t] = None /\ txn[r].row = NewRow(call[r].user, txn[r].now)
      /\ txn[r].entry = None
  BY DEF AuditInv, WriteSets, WriteSet
<1> QED BY <1>1, <1>2 DEF Commit, AuditInv, AuditTrail, TypeInv, TypeOK, StoreTypeOK

LEMMA AuditCommit ==
    ASSUME AuditInv, TypeInv', NEW r \in Requests, pc[r] = "commit", Commit(r),
           \A o \in Requests \ {r} : pc'[o] = pc[o] /\ call'[o] = call[o] /\ dto'[o] = dto[o],
           pc'[r] \notin {"insert", "lock", "update", "log", "commit"}
    PROVE  AuditInv'
<1> DEFINE k == txn[r].key
<1>1. k \in Tenders /\ k # None
  BY CommittingTxn, NoneAssumption DEF AuditInv
<1>2. txn'[r] = None /\ \A o \in Requests \ {r} : txn'[o] = txn[o]
  BY CommitTypes DEF AuditInv
<1>3. \A t \in Tenders \ {k} : tenders'[t] = tenders[t] /\ changeLog'[t] = changeLog[t]
  BY DEF Commit, AuditInv, TypeInv, TypeOK, StoreTypeOK
<1>4. RowsHeldOnce'
  BY <1>2 DEF AuditInv, RowsHeldOnce
<1>5. ASSUME NEW o \in Requests \ {r} PROVE WriteSet(o)'
  <2>1. /\ pc'[o] = pc[o] /\ call'[o] = call[o] /\ txn'[o] = txn[o] /\ dto'[o] = dto[o]
        /\ UpdatedRow(o)' = UpdatedRow(o) /\ ChangeEntry(o)' = ChangeEntry(o)
    BY <1>2 DEF UpdatedRow, ChangeEntry
  <2>2. txn[r] # None /\ (txn[o] # None => txn[o].key # k)
    BY <1>1 DEF AuditInv, RowsHeldOnce, TypeInv, Stages, Stage, StageTxn, Working
  <2>3. Changing(o) => tenders'[call[o].tender] = tenders[call[o].tender]
    <3> SUFFICES ASSUME Changing(o) PROVE tenders'[call[o].tender] = tenders[call[o].tender]
      OBVIOUS
    <3>1. txn[o] # None /\ txn[o].key = call[o].tender /\ call[o] \in Calls
      BY CallOfActive DEF Changing, AuditInv, TypeInv, Stages, Stage, StageTxn, Working
    <3>2. call[o].tender \in Tenders
      BY <3>1, CallFields DEF Changing, AuditInv, TypeInv, Stages, Stage, StageOp
    <3> QED BY <1>3, <2>2, <3>1, <3>2
  <2>4. pc[o] = "commit" => tenders'[txn[o].key] = tenders[txn[o].key]
    BY <1>3, <2>2, CommittingTxn, NoTxnAssumption DEF AuditInv
  <2> QED
    BY <2>1, <2>3, <2>4
    DEF AuditInv, WriteSets, WriteSet, Changing, EnsureTransitionAllowed, NewRow
<1>6. WriteSets'
  BY <1>5 DEF WriteSets, WriteSet, Changing
<1>7. AuditTrail'
  <2> SUFFICES ASSUME NEW t \in Tenders
      PROVE (IF tenders[t] = None THEN changeLog[t] = <<>> ELSE
               IsLifecycle(changeLog[t]) /\ IsVersion(tenders[t], t, Len(changeLog[t])))'
    BY DEF AuditTrail
  <2>1. CASE t # k
    <3>1. tenders'[t] = tenders[t] /\ changeLog'[t] = changeLog[t]
      BY <1>3, <2>1
    <3> QED BY <3>1 DEF AuditInv, AuditTrail, IsLifecycle, IsVersion
  <2>2. CASE t = k /\ IsUpdate(r)
    BY <2>2, AuditOfUpdate DEF IsLifecycle
  <2>3. CASE t = k /\ IsOp(r, "create")
    <3>1. tenders'[t] = NewRow(call[r].user, txn[r].now) /\ changeLog'[t] = <<>>
      BY <2>3, AuditOfCreate
    <3>2. NewRow(call[r].user, txn[r].now) \in Row
      BY <2>3, CommittingTxn DEF AuditInv, WriteSets, WriteSet
    <3> QED BY <3>1, <3>2, NoneAssumption DEF NewRow, IsLifecycle, IsVersion
  <2> QED BY <2>1, <2>2, <2>3, CommittingTxn DEF AuditInv
<1> QED BY <1>4, <1>6, <1>7 DEF AuditInv

-------------------------------------------------------------------------------
(* The steps *)

\* A step that only ends work, or only reads, has nothing to keep in order.
LEMMA AuditOfQuietSteps ==
    ASSUME AuditInv, TypeInv', NEW r \in Requests,
           \/ NoConnection(r) \/ StatementFails(r) \/ TenderNotFound(r) \/ InvalidateCache(r)
           \/ CacheHit(r) \/ CacheUnreadable(r) \/ CacheMiss(r) \/ ReadTender(r)
           \/ FillCache(r) \/ SelectPage(r) \/ Count(r)
    PROVE  AuditInv'
<1>1. /\ UNCHANGED storeVars
      /\ \A o \in Requests \ {r} : pc'[o] = pc[o] /\ call'[o] = call[o] /\ dto'[o] = dto[o]
      /\ pc'[r] \notin {"insert", "lock", "update", "log", "commit"}
  BY DEF NoConnection, StatementFails, TenderNotFound, InvalidateCache, CacheHit,
         CacheUnreadable, CacheMiss, ReadTender, FillCache, SelectPage, Count, AuditInv, TypeInv, TypeOK
<1> QED BY <1>1, AuditQuiet

LEMMA AuditOfRollback ==
    ASSUME AuditInv, TypeInv', NEW r \in Requests, RollbackTransaction(r) \/ RollbackFails(r)
    PROVE  AuditInv'
<1>1. Rollback(r) /\ UNCHANGED <<call, dto>>
  BY DEF RollbackTransaction, RollbackFails
<1>2. /\ UNCHANGED <<tenders, changeLog>> /\ txn'[r] = None
      /\ \A o \in Requests \ {r} : txn'[o] = txn[o]
  BY <1>1, RollbackTypes DEF AuditInv, Rollback
<1>3. /\ \A o \in Requests \ {r} : pc'[o] = pc[o]
      /\ pc'[r] \in {"fill", "done"}
  BY DEF RollbackTransaction, RollbackFails, AuditInv, TypeInv, TypeOK
<1>4. WriteSet(r)'
  BY <1>3 DEF WriteSet, Changing
<1> QED BY <1>1, <1>2, <1>3, <1>4, AuditFrame

LEMMA AuditOfBegin ==
    ASSUME AuditInv, TypeInv', NEW r \in Requests,
           Begin(r) \/ \E c \in Calls : Arrive(r, c)
    PROVE  AuditInv'
<1>1. CASE Begin(r)
  <2>1. call[r] \in Calls
    BY <1>1, CallOfActive DEF Begin, AuditInv
  <2>2. /\ UNCHANGED <<tenders, changeLog, call, dto>>
        /\ \A o \in Requests \ {r} : pc'[o] = pc[o] /\ txn'[o] = txn[o]
        /\ txn'[r].key = None /\ txn'[r].entry = None
        /\ pc'[r] \in {"insert", "lock", "read", "list"}
    BY <1>1, <2>1, CallFields
    DEF Begin, OpenTransaction, FirstStatement, AuditInv, TypeInv, TypeOK, StoreTypeOK
  <2>3. WriteSet(r)'
    BY <2>2 DEF WriteSet, Changing
  <2> QED BY <2>2, <2>3, AuditFrame
<1>2. CASE \E c \in Calls : Arrive(r, c)
  <2>1. /\ UNCHANGED storeVars /\ UNCHANGED dto
        /\ \A o \in Requests \ {r} : pc'[o] = pc[o] /\ call'[o] = call[o]
        /\ pc'[r] \in {"lookup", "begin"}
    BY <1>2 DEF Arrive, AuditInv, TypeInv, TypeOK
  <2> QED BY <2>1, AuditQuiet
<1> QED BY <1>1, <1>2

LEMMA AuditOfCreateTender ==
    ASSUME AuditInv, TypeInv', NEW r \in Requests, CreateTender(r)
    PROVE  AuditInv'
<1>1. call[r] \in Calls /\ txn[r] \in Txn /\ call[r].op = "create"
  BY CallOfActive, TxnOfWorking
  DEF CreateTender, AuditInv, Working, TypeInv, Stages, Stage, StageOp
<1>2. PICK t \in Tenders : AddTender(r, t, call[r].user)
  BY DEF CreateTender
<1> DEFINE w == [txn[r] EXCEPT !.key = t, !.row = NewRow(call[r].user, txn[r].now)]
<1>3. /\ w.key = t /\ w.row = NewRow(call[r].user, w.now) /\ w.entry = None
  BY <1>1 DEF Txn, AuditInv, WriteSets, WriteSet, CreateTender
<1>4. /\ txn'[r] = w
      /\ \A o \in Requests \ {r} : txn'[o] = txn[o]
      /\ UNCHANGED <<tenders, changeLog>> /\ tenders[t] = None /\ RowIsFree(t)
  BY <1>2 DEF AddTender, AuditInv, TypeInv, TypeOK, StoreTypeOK
<1> HIDE DEF w
<1>5. /\ UNCHANGED <<call, dto>> /\ pc'[r] = "commit"
      /\ \A o \in Requests \ {r} : pc'[o] = pc[o]
  BY DEF CreateTender, AuditInv, TypeInv, TypeOK
<1>6. WriteSet(r)'
  BY <1>1, <1>3, <1>4, <1>5, CallFields DEF WriteSet, Changing, NewRow
<1> QED BY <1>3, <1>4, <1>5, <1>6, AuditFrame

LEMMA AuditOfLockTender ==
    ASSUME AuditInv, TypeInv', NEW r \in Requests, LockTender(r)
    PROVE  AuditInv'
<1>1. call[r] \in Calls /\ txn[r] \in Txn /\ call[r].op = "update"
  BY CallOfActive, TxnOfWorking
  DEF LockTender, AuditInv, Working, TypeInv, Stages, Stage, StageOp
<1>2. /\ txn'[r].key = call[r].tender /\ txn'[r].entry = txn[r].entry
      /\ \A o \in Requests \ {r} : txn'[o] = txn[o]
      /\ UNCHANGED <<tenders, changeLog>> /\ RowIsFree(call[r].tender)
  BY <1>1 DEF LockTender, GetByIdForUpdate, Txn, AuditInv, TypeInv, TypeOK, StoreTypeOK
<1>3. /\ UNCHANGED call
      /\ \A o \in Requests \ {r} : pc'[o] = pc[o] /\ dto'[o] = dto[o]
      /\ dto'[r] = tenders[call[r].tender]
      /\ \/ pc'[r] = "rollback"
         \/ pc'[r] = "update" /\ EnsureTransitionAllowed(dto'[r].status, call[r].status)
  BY DEF LockTender, AuditInv, TypeInv, TypeOK
<1>4. txn[r].entry = None
  BY DEF LockTender, AuditInv, WriteSets, WriteSet
<1>5. WriteSet(r)'
  BY <1>2, <1>3, <1>4 DEF WriteSet, Changing, EnsureTransitionAllowed
<1> QED BY <1>2, <1>3, <1>5, AuditFrame

LEMMA AuditOfWriteStatus ==
    ASSUME AuditInv, TypeInv', NEW r \in Requests, WriteStatus(r)
    PROVE  AuditInv'
<1>1. /\ call[r] \in Calls /\ txn[r] \in Txn /\ call[r].op = "update"
  BY CallOfActive, TxnOfWorking
  DEF WriteStatus, AuditInv, Working, TypeInv, Stages, Stage, StageOp
<1>2. /\ txn'[r] = [txn[r] EXCEPT !.row = UpdatedRow(r)]
      /\ \A o \in Requests \ {r} : txn'[o] = txn[o]
      /\ UNCHANGED <<tenders, changeLog>>
  BY <1>1 DEF WriteStatus, UpdateStatus, UpdatedRow, AuditInv, TypeInv, TypeOK, StoreTypeOK
<1>3. /\ txn'[r].key = txn[r].key /\ txn'[r].row = UpdatedRow(r) /\ txn'[r].now = txn[r].now
      /\ txn'[r].entry = txn[r].entry
  BY <1>1, <1>2 DEF Txn
<1>4. /\ UNCHANGED <<call, dto>> /\ pc[r] = "update" /\ pc'[r] = "log"
      /\ \A o \in Requests \ {r} : pc'[o] = pc[o]
  BY DEF WriteStatus, AuditInv, TypeInv, TypeOK
<1>5. UpdatedRow(r)' = UpdatedRow(r)
  BY <1>3, <1>4 DEF UpdatedRow
<1>6. WriteSet(r)'
  BY <1>2, <1>3, <1>4, <1>5
  DEF AuditInv, WriteSets, WriteSet, Changing, EnsureTransitionAllowed
<1>7. txn[r] # None
  BY <1>4 DEF AuditInv, TypeInv, Stages, Stage, StageTxn, Working
<1> QED BY <1>2, <1>3, <1>4, <1>6, <1>7, AuditFrame

LEMMA AuditOfWriteChangeLog ==
    ASSUME AuditInv, TypeInv', NEW r \in Requests, WriteChangeLog(r)
    PROVE  AuditInv'
<1>1. /\ call[r] \in Calls /\ txn[r] \in Txn /\ call[r].op = "update"
  BY CallOfActive, TxnOfWorking
  DEF WriteChangeLog, AuditInv, Working, TypeInv, Stages, Stage, StageOp
<1>2. /\ txn'[r] = [txn[r] EXCEPT !.entry = ChangeEntry(r)]
      /\ \A o \in Requests \ {r} : txn'[o] = txn[o]
      /\ UNCHANGED <<tenders, changeLog>>
  BY <1>1 DEF WriteChangeLog, AddChangeLog, ChangeEntry, AuditInv, TypeInv, TypeOK, StoreTypeOK
<1>3. /\ txn'[r].key = txn[r].key /\ txn'[r].row = txn[r].row /\ txn'[r].now = txn[r].now
      /\ txn'[r].entry = ChangeEntry(r)
  BY <1>1, <1>2 DEF Txn
<1>4. /\ UNCHANGED <<call, dto>> /\ pc[r] = "log" /\ pc'[r] = "commit"
      /\ \A o \in Requests \ {r} : pc'[o] = pc[o]
  BY DEF WriteChangeLog, AuditInv, TypeInv, TypeOK
<1>5. UpdatedRow(r)' = UpdatedRow(r) /\ ChangeEntry(r)' = ChangeEntry(r)
  BY <1>3, <1>4 DEF UpdatedRow, ChangeEntry
<1>6. WriteSet(r)'
  BY <1>1, <1>2, <1>3, <1>4, <1>5
  DEF AuditInv, WriteSets, WriteSet, Changing, EnsureTransitionAllowed
<1>7. txn[r] # None
  BY <1>4 DEF AuditInv, TypeInv, Stages, Stage, StageTxn, Working
<1> QED BY <1>2, <1>3, <1>4, <1>6, <1>7, AuditFrame

LEMMA AuditOfCommitTransaction ==
    ASSUME AuditInv, TypeInv', NEW r \in Requests, CommitTransaction(r)
    PROVE  AuditInv'
<1>1. /\ pc[r] = "commit" /\ Commit(r)
      /\ \A o \in Requests \ {r} : pc'[o] = pc[o] /\ call'[o] = call[o] /\ dto'[o] = dto[o]
      /\ pc'[r] \notin {"insert", "lock", "update", "log", "commit"}
  BY DEF CommitTransaction, AuditInv, TypeInv, TypeOK
<1> QED BY <1>1, AuditCommit

LEMMA AuditOfCommitFails ==
    ASSUME AuditInv, TypeInv', NEW r \in Requests, CommitFails(r)
    PROVE  AuditInv'
<1>1. /\ pc[r] = "commit"
      /\ Commit(r) \/ UNCHANGED storeVars
      /\ \A o \in Requests \ {r} : pc'[o] = pc[o] /\ call'[o] = call[o] /\ dto'[o] = dto[o]
      /\ pc'[r] \notin {"insert", "lock", "update", "log", "commit"}
  BY DEF CommitFails, AuditInv, TypeInv, TypeOK
<1>2. CASE Commit(r)
  BY <1>1, <1>2, AuditCommit DEF CommitFails
<1>3. CASE UNCHANGED storeVars
  BY <1>1, <1>3, AuditQuiet
<1> QED BY <1>1, <1>2, <1>3

LEMMA AuditOfCrash ==
    ASSUME AuditInv, TypeInv', Crash
    PROVE  AuditInv'
<1>1. /\ UNCHANGED <<tenders, changeLog>>
      /\ \A r \in Requests : txn'[r] = None /\ pc'[r] \in Finished \union {"idle"}
  BY DEF Crash, RollbackAll, Finished
<1>2. RowsHeldOnce'
  BY <1>1 DEF RowsHeldOnce
<1>3. WriteSets'
  BY <1>1 DEF WriteSets, WriteSet, Changing, Finished
<1>4. AuditTrail'
  BY <1>1 DEF AuditInv, AuditTrail, IsVersion, IsLifecycle
<1> QED BY <1>2, <1>3, <1>4 DEF AuditInv

LEMMA AuditOfElsewhere ==
    ASSUME AuditInv, TypeInv', UNCHANGED <<storeVars, requestVars>>
    PROVE  AuditInv'
<1>1. RowsHeldOnce' /\ AuditTrail'
  BY DEF AuditInv, RowsHeldOnce, AuditTrail, IsVersion, IsLifecycle, storeVars
<1>2. ASSUME NEW r \in Requests PROVE WriteSet(r)'
  <2>1. UpdatedRow(r)' = UpdatedRow(r) /\ ChangeEntry(r)' = ChangeEntry(r)
    BY DEF UpdatedRow, ChangeEntry, storeVars, requestVars
  <2> QED
    BY <2>1
    DEF AuditInv, WriteSets, WriteSet, Changing, EnsureTransitionAllowed, NewRow,
        storeVars, requestVars
<1> QED BY <1>1, <1>2 DEF AuditInv, WriteSets

LEMMA AuditInvStep == AuditInv /\ [Next]_vars => AuditInv'
<1> SUFFICES ASSUME AuditInv, [Next]_vars PROVE AuditInv'
  OBVIOUS
<1>1. TypeInv'
  BY TypeInvStep DEF AuditInv
<1>2. ASSUME NEW r \in Requests, Step(r) PROVE AuditInv'
  BY <1>1, <1>2, AuditOfQuietSteps, AuditOfRollback, AuditOfBegin, AuditOfCreateTender,
     AuditOfLockTender, AuditOfWriteStatus, AuditOfWriteChangeLog, AuditOfCommitTransaction,
     AuditOfCommitFails DEF Step
<1>3. ASSUME NEW r \in Requests, NEW c \in Calls, Arrive(r, c) PROVE AuditInv'
  BY <1>1, <1>3, AuditOfBegin
<1>4. CASE Crash
  BY <1>1, <1>4, AuditOfCrash
<1>5. ASSUME NEW t \in Tenders, ExpireKey(t) PROVE AuditInv'
  BY <1>1, <1>5, AuditOfElsewhere DEF ExpireKey
<1>6. CASE UNCHANGED vars
  BY <1>1, <1>6, AuditOfElsewhere DEF vars
<1> QED BY <1>2, <1>3, <1>4, <1>5, <1>6 DEF Next, Terminated

LEMMA AuditInvariant == Spec => []AuditInv
<1>1. Init => AuditInv
  BY InitAudit
<1>2. AuditInv /\ [Next]_vars => AuditInv'
  BY AuditInvStep
<1> QED BY <1>1, <1>2, PTL DEF Spec

-------------------------------------------------------------------------------
(* The theorems *)

\* An update judges and writes the row that is committed when it commits,
\* however many requests run and wherever they fail.
THEOREM LocksPreventLostUpdates == Spec => []NoLostUpdate
<1>1. AuditInv => NoLostUpdate
  BY DEF AuditInv, WriteSets, WriteSet, Changing, NoLostUpdate
<1> QED BY <1>1, AuditInvariant, PTL

\* The change log of every tender is its whole history, a path through the
\* life cycle that ends at the row.
THEOREM LogIsHistory == Spec => []AuditTrail
<1>1. AuditInv => AuditTrail
  BY DEF AuditInv
<1> QED BY <1>1, AuditInvariant, PTL

\* No request keeps a connection while it waits for Redis, or after its end.
THEOREM PoolIsNotDrained == Spec => []ConnectionsReturned
<1>1. AuditInv => ConnectionsReturned
  BY DEF AuditInv, TypeInv, Stages, Stage, StageTxn, Working, Finished, ConnectionsReturned
<1> QED BY <1>1, AuditInvariant, PTL


-------------------------------------------------------------------------------
(* Waiting *)

\* Only a lock or an insert gives a transaction a row, and there is none before.
LEMMA HoldersStep == TypeInv /\ HoldersNeverWait /\ [Next]_vars => HoldersNeverWait'
<1> SUFFICES ASSUME TypeInv, HoldersNeverWait, [Next]_vars, NEW o \in Requests,
                    txn'[o] # None, txn'[o].key # None
             PROVE  pc'[o] \in {"update", "log", "commit", "rollback"}
  BY DEF HoldersNeverWait
<1>1. /\ TypeInv' /\ pc \in [Requests -> Labels] /\ txn \in [Requests -> Txn \union {None}]
      /\ txn[o] # None /\ txn[o].key # None => pc[o] \in {"update", "log", "commit", "rollback"}
  BY TypeInvStep DEF TypeInv, TypeOK, StoreTypeOK, HoldersNeverWait
<1>2. pc'[o] \in Working \union {"rollback"}
  BY <1>1 DEF TypeInv, Stages, Stage, StageTxn
<1>3. ASSUME txn'[o] = txn[o], pc'[o] = pc[o]
      PROVE  pc'[o] \in {"update", "log", "commit", "rollback"}
  BY <1>1, <1>3
<1>4. ASSUME NEW r \in Requests, r # o, Step(r) \/ \E c \in Calls : Arrive(r, c)
      PROVE  txn'[o] = txn[o] /\ pc'[o] = pc[o]
  <2>1. CASE \/ Begin(r) \/ NoConnection(r) \/ StatementFails(r) \/ CreateTender(r)
             \/ TenderNotFound(r) \/ LockTender(r) \/ WriteStatus(r) \/ WriteChangeLog(r)
             \/ CommitTransaction(r) \/ CommitFails(r) \/ \E c \in Calls : Arrive(r, c)
    BY <1>1, <1>4, <2>1
    DEF Begin, OpenTransaction, NoConnection, StatementFails, CreateTender, AddTender,
        TenderNotFound, LockTender, GetByIdForUpdate, WriteStatus, UpdateStatus,
        WriteChangeLog, AddChangeLog, CommitTransaction, Commit, CommitFails, Arrive, storeVars
  <2>2. CASE \/ InvalidateCache(r) \/ CacheHit(r) \/ CacheUnreadable(r) \/ CacheMiss(r)
             \/ ReadTender(r) \/ FillCache(r) \/ SelectPage(r) \/ Count(r)
             \/ RollbackTransaction(r) \/ RollbackFails(r)
    BY <1>1, <1>4, <2>2
    DEF InvalidateCache, CacheHit, CacheUnreadable, CacheMiss, ReadTender, FillCache,
        SelectPage, Count, RollbackTransaction, RollbackFails, Rollback, storeVars
  <2> QED BY <1>4, <2>1, <2>2 DEF Step
<1>5. ASSUME Step(o) \/ \E c \in Calls : Arrive(o, c)
      PROVE  pc'[o] \in {"update", "log", "commit", "rollback"}
  <2>1. CASE Begin(o)
    <3>1. txn'[o].key = None
      BY <1>1, <2>1 DEF Begin, OpenTransaction
    <3> QED BY <3>1
  <2>2. CASE \/ StatementFails(o) \/ CreateTender(o) \/ TenderNotFound(o) \/ LockTender(o)
             \/ WriteStatus(o) \/ WriteChangeLog(o) \/ CommitFails(o)
    BY <1>1, <2>2
    DEF StatementFails, CreateTender, TenderNotFound, LockTender, WriteStatus,
        WriteChangeLog, CommitFails
  <2>3. CASE ReadTender(o) \/ SelectPage(o) \/ Count(o)
    BY <1>1, <2>3 DEF ReadTender, SelectPage, Count, storeVars
  <2>4. CASE \/ NoConnection(o) \/ CommitTransaction(o) \/ InvalidateCache(o) \/ CacheHit(o)
             \/ CacheUnreadable(o) \/ CacheMiss(o) \/ FillCache(o) \/ RollbackTransaction(o)
             \/ RollbackFails(o) \/ \E c \in Calls : Arrive(o, c)
    <3>1. pc'[o] \notin Working \union {"rollback"}
      BY <1>1, <2>4
      DEF NoConnection, CommitTransaction, InvalidateCache, CacheHit, CacheUnreadable,
          CacheMiss, FillCache, RollbackTransaction, RollbackFails, Arrive, Working
    <3> QED BY <1>2, <3>1
  <2> QED BY <1>5, <2>1, <2>2, <2>3, <2>4 DEF Step
<1>6. CASE Crash
  BY <1>6 DEF Crash, RollbackAll
<1>7. CASE UNCHANGED vars \/ \E t \in Tenders : ExpireKey(t)
  BY <1>3, <1>7 DEF vars, ExpireKey, storeVars, requestVars
<1> QED BY <1>4, <1>5, <1>3, <1>6, <1>7 DEF Next, Terminated

\* Whoever holds a row waits for nothing: no circle of row locks and connections.
THEOREM WaitingIsNotCircular == Spec => []HoldersNeverWait
<1>1. Init => TypeInv /\ HoldersNeverWait
  BY InitTypes DEF Init, StoreInit, HoldersNeverWait
<1>2. TypeInv /\ HoldersNeverWait /\ [Next]_vars => TypeInv' /\ HoldersNeverWait'
  BY TypeInvStep, HoldersStep
<1> QED BY <1>1, <1>2, PTL DEF Spec
===============================================================================
