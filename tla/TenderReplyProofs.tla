--------------------------- MODULE TenderReplyProofs ---------------------------
(***************************************************************************)
(* Answers agree with the log, one of competing updates wins, the service  *)
(* implements the ledger, and the cache holds what was committed and is    *)
(* out of date only in the accepted ways, for every value of the           *)
(* constants.                                                              *)
(*                                                                         *)
(* All rests on AuditInv, on the fact that history is only ever added to   *)
(* (HistoryKept), and on OwnEntries: where a request has to be for an      *)
(* entry of its own to be in the log, and what it has been told by then.   *)
(***************************************************************************)
EXTENDS TenderAuditProofs

-------------------------------------------------------------------------------
(* The inductive invariant *)

\* The one entry of r says what r asked for, and its row is what r answers with.
Reported(r) ==
    \E i \in DOMAIN changeLog[call[r].tender] :
        /\ EntriesOf(r, call[r].tender) = {i}
        /\ changeLog[call[r].tender][i].new = call[r].status
        /\ changeLog[call[r].tender][i].changedBy = call[r].user
        /\ IsVersion(dto[r], call[r].tender, i)

\* Only an update that came past its commit has an entry, and only of its tender.
EntryIsOwn(r) ==
    \A t \in Tenders : Changed(r, t) =>
        /\ IsUpdate(r) /\ call[r].tender = t
        /\ pc[r] \in {"rollback", "invalidate"} \union Finished

ReplyIsTrue(r) ==
    /\ pc[r] = "invalidate" => code[r] = 200
    /\ IsUpdate(r) /\ pc[r] = "rollback" => code[r] # 200
    /\ pc[r] \in {"rollback", "done"} /\ code[r] \in {404, 409} =>
           \A t \in Tenders : ~Changed(r, t)
    /\ IsUpdate(r) /\ (pc[r] = "invalidate" \/ Answered(r, 200)) => Reported(r)

OwnEntries == \A r \in Requests : EntryIsOwn(r) /\ ReplyIsTrue(r)

ReplyInv == AuditInv /\ OwnEntries

USE DEF Goto, Decide, Op, IsOp, IsUpdate

-------------------------------------------------------------------------------
(* Histories are only added to *)

\* A step keeps the log of t as it is or makes it longer, and an existing tender.
HistoryKept(t) ==
    /\ changeLog[t] \in Seq(Entry) /\ changeLog'[t] \in Seq(Entry)
    /\ Len(changeLog[t]) <= Len(changeLog'[t])
    /\ \A i \in 1 .. Len(changeLog[t]) : changeLog'[t][i] = changeLog[t][i]
    /\ tenders[t] # None =>
           /\ tenders'[t] # None
           /\ tenders'[t].createdBy = tenders[t].createdBy
           /\ tenders'[t].createdAt = tenders[t].createdAt

LEMMA CommitKeepsOthers ==
    ASSUME AuditInv, NEW r \in Requests, pc[r] = "commit", Commit(r),
           NEW t \in Tenders, t # txn[r].key
    PROVE  tenders'[t] = tenders[t] /\ changeLog'[t] = changeLog[t]
BY DEF Commit, AuditInv, TypeInv, TypeOK, StoreTypeOK

LEMMA CommitKeepsHistory ==
    ASSUME AuditInv, NEW r \in Requests, pc[r] = "commit", Commit(r), NEW t \in Tenders
    PROVE  HistoryKept(t)
<1>1. changeLog[t] \in Seq(Entry)
  BY DEF AuditInv, TypeInv, TypeOK, StoreTypeOK
<1>2. CASE t # txn[r].key
  BY <1>1, <1>2, CommitKeepsOthers DEF HistoryKept
<1>3. CASE t = txn[r].key /\ IsUpdate(r)
  <2>1. /\ tenders[t] \in Row /\ dto[r] = tenders[t]
        /\ tenders'[t] = UpdatedRow(r) /\ tenders'[t] # None
        /\ changeLog'[t] = Append(changeLog[t], ChangeEntry(r))
        /\ ChangeEntry(r) \in Entry
    BY <1>3, AuditOfUpdate
  <2>2. /\ tenders'[t].createdBy = tenders[t].createdBy
        /\ tenders'[t].createdAt = tenders[t].createdAt
    BY <2>1 DEF UpdatedRow, Row
  <2>3. /\ changeLog'[t] \in Seq(Entry)
        /\ Len(changeLog[t]) <= Len(changeLog'[t])
        /\ \A i \in 1 .. Len(changeLog[t]) : changeLog'[t][i] = changeLog[t][i]
    BY <1>1, <2>1
  <2> QED BY <1>1, <2>1, <2>2, <2>3 DEF HistoryKept
<1>4. CASE t = txn[r].key /\ IsOp(r, "create")
  BY <1>1, <1>4, AuditOfCreate DEF HistoryKept
<1> QED BY <1>2, <1>3, <1>4, CommittingTxn DEF AuditInv

LEMMA UnchangedKeepsHistory ==
    ASSUME AuditInv, UNCHANGED <<tenders, changeLog>>, NEW t \in Tenders
    PROVE  HistoryKept(t)
BY DEF HistoryKept, AuditInv, TypeInv, TypeOK, StoreTypeOK

\* What was a version of a row stays one.
LEMMA VersionKept ==
    ASSUME NEW t \in Tenders, HistoryKept(t), tenders[t] # None,
           NEW row, NEW n \in 0 .. Len(changeLog[t]), IsVersion(row, t, n)
    PROVE  n \in 0 .. Len(changeLog'[t]) /\ IsVersion(row, t, n)'
<1>1. n \in 0 .. Len(changeLog'[t])
  BY DEF HistoryKept
<1>2. CASE n = 0
  BY <1>2 DEF HistoryKept, IsVersion
<1>3. CASE n # 0
  <2>1. changeLog'[t][n] = changeLog[t][n]
    BY <1>3 DEF HistoryKept
  <2> QED BY <1>3, <2>1 DEF HistoryKept, IsVersion
<1> QED BY <1>1, <1>2, <1>3

\* A commit adds an entry to the log of its own request, if to any.
LEMMA EntriesAfterCommit ==
    ASSUME AuditInv, NEW r \in Requests, pc[r] = "commit", Commit(r),
           NEW o \in Requests, NEW t \in Tenders, o # r \/ t # txn[r].key \/ ~IsUpdate(r)
    PROVE  EntriesOf(o, t)' = EntriesOf(o, t)
<1>1. CASE t # txn[r].key
  BY <1>1, CommitKeepsOthers DEF EntriesOf
<1>2. CASE t = txn[r].key /\ IsOp(r, "create")
  BY <1>2, AuditOfCreate DEF EntriesOf
<1>3. CASE t = txn[r].key /\ IsUpdate(r)
  <2> DEFINE log == changeLog[t]
             n == Len(log)
  <2>1. /\ changeLog'[t] = Append(log, ChangeEntry(r)) /\ ChangeEntry(r) \in Entry
        /\ log \in Seq(Entry)
    BY <1>3, AuditOfUpdate DEF AuditInv, TypeInv, TypeOK, StoreTypeOK
  <2>2. /\ DOMAIN changeLog'[t] = 1 .. n + 1 /\ DOMAIN log = 1 .. n /\ n \in Nat
        /\ \A i \in 1 .. n : changeLog'[t][i] = log[i]
        /\ changeLog'[t][n + 1] = ChangeEntry(r)
    BY <2>1
  <2>3. changeLog'[t][n + 1].request # o
    BY <1>3, <2>2 DEF ChangeEntry
  <2> HIDE DEF n
  <2> QED BY <2>2, <2>3 DEF EntriesOf
<1> QED BY <1>1, <1>2, <1>3, CommittingTxn DEF AuditInv

-------------------------------------------------------------------------------
(* Entries and answers *)

LEMMA InitReply == Init => ReplyInv
<1> SUFFICES ASSUME Init PROVE ReplyInv
  OBVIOUS
<1>1. \A r \in Requests, t \in Tenders : ~Changed(r, t)
  BY DEF Init, StoreInit, Changed, EntriesOf
<1>2. \A r \in Requests : pc[r] = "idle"
  BY DEF Init
<1>3. OwnEntries
  BY <1>1, <1>2 DEF OwnEntries, EntryIsOwn, ReplyIsTrue, Answered
<1> QED BY <1>3, InitAudit DEF ReplyInv

\* A true report stays one while the log of its tender only gets entries of others.
LEMMA ReportedKept ==
    ASSUME NEW r \in Requests, NEW t \in Tenders, call[r].tender = t, Reported(r),
           HistoryKept(t), tenders[t] # None, EntriesOf(r, t)' = EntriesOf(r, t),
           call'[r] = call[r], dto'[r] = dto[r]
    PROVE  Reported(r)'
<1>1. PICK i \in DOMAIN changeLog[t] :
          /\ EntriesOf(r, t) = {i}
          /\ changeLog[t][i].new = call[r].status
          /\ changeLog[t][i].changedBy = call[r].user
          /\ IsVersion(dto[r], t, i)
  BY DEF Reported
<1>2. /\ i \in 1 .. Len(changeLog[t]) /\ i \in 0 .. Len(changeLog[t])
      /\ i \in DOMAIN changeLog'[t] /\ changeLog'[t][i] = changeLog[t][i]
  BY DEF HistoryKept
<1>3. IsVersion(dto[r], t, i)'
  BY <1>1, <1>2, VersionKept DEF IsVersion
<1> QED BY <1>1, <1>2, <1>3 DEF Reported

\* A request with an entry has it in the log of a tender that exists.
LEMMA ChangedExists ==
    ASSUME AuditInv, NEW r \in Requests, NEW t \in Tenders, Changed(r, t)
    PROVE  tenders[t] # None
BY DEF AuditInv, AuditTrail, Changed, EntriesOf

\* A request that does nothing keeps what is said of it, if nothing is added to the
\* log in its name.
LEMMA IdleKeepsReply ==
    ASSUME ReplyInv, NEW r \in Requests,
           \A t \in Tenders : HistoryKept(t) /\ EntriesOf(r, t)' = EntriesOf(r, t),
           call'[r] = call[r], dto'[r] = dto[r],
           \/ pc'[r] = pc[r] /\ code'[r] = code[r]
           \/ pc'[r] = "crashed"
    PROVE  (EntryIsOwn(r) /\ ReplyIsTrue(r))'
<1>1. \A t \in Tenders : Changed(r, t)' <=> Changed(r, t)
  BY DEF Changed
<1>2. EntryIsOwn(r)'
  BY <1>1 DEF ReplyInv, OwnEntries, EntryIsOwn, Finished
<1>3. ASSUME pc[r] = "invalidate" \/ Answered(r, 200), IsUpdate(r) PROVE Reported(r)'
  <2>1. Reported(r)
    BY <1>3 DEF ReplyInv, OwnEntries, ReplyIsTrue
  <2>2. pc[r] # "idle"
    BY <1>3 DEF Answered
  <2>3. call[r].tender \in Tenders
    BY <1>3, <2>2, CallOfActive, CallFields DEF ReplyInv, AuditInv
  <2>4. tenders[call[r].tender] # None
    BY <2>1, <2>3, ChangedExists DEF ReplyInv, Reported, Changed
  <2> QED BY <2>1, <2>3, <2>4, ReportedKept
<1>4. ReplyIsTrue(r)'
  BY <1>1, <1>3 DEF ReplyInv, OwnEntries, ReplyIsTrue, Answered
<1> QED BY <1>2, <1>4

\* A step of a request that has not committed and does not say that it has.
LEMMA FreshKeepsReply ==
    ASSUME ReplyInv, NEW r \in Requests, UNCHANGED <<tenders, changeLog>>,
           pc[r] \notin {"rollback", "invalidate"} \union Finished,
           pc'[r] # "invalidate",
           IsUpdate(r)' /\ pc'[r] \in {"rollback", "done"} => code'[r] # 200
    PROVE  (EntryIsOwn(r) /\ ReplyIsTrue(r))'
<1>1. \A t \in Tenders : ~Changed(r, t)
  BY DEF ReplyInv, OwnEntries, EntryIsOwn
<1>2. \A t \in Tenders : ~Changed(r, t)'
  BY <1>1 DEF Changed, EntriesOf
<1> QED BY <1>2 DEF EntryIsOwn, ReplyIsTrue, Answered

\* A commit of r leaves just its own entry, and the row it will answer with.
LEMMA CommitReports ==
    ASSUME ReplyInv, NEW r \in Requests, pc[r] = "commit", Commit(r), IsUpdate(r)
    PROVE  /\ \A t \in Tenders : Changed(r, t)' => call[r].tender = t
           /\ dto'[r] = txn[r].row /\ call'[r] = call[r] => Reported(r)'
<1>0. AuditInv
  BY DEF ReplyInv
<1>1. PICK t \in Tenders : t = call[r].tender /\ txn[r].key = t
  BY <1>0, CommittingTxn DEF AuditInv
<1>n. PICK n \in Nat : n = Len(changeLog[t])
  BY <1>0 DEF AuditInv, TypeInv, TypeOK, StoreTypeOK
<1>2. \A u \in Tenders : ~Changed(r, u)
  BY DEF ReplyInv, OwnEntries, EntryIsOwn, Finished
<1>3. \A u \in Tenders : Changed(r, u)' => u = t
  BY <1>0, <1>1, <1>2, EntriesAfterCommit DEF Changed
<1>4. /\ changeLog'[t] = Append(changeLog[t], ChangeEntry(r)) /\ ChangeEntry(r) \in Entry
      /\ IsVersion(tenders[t], t, Len(changeLog[t]))'
      /\ tenders'[t] = UpdatedRow(r) /\ changeLog[t] \in Seq(Entry)
  BY <1>0, <1>1, AuditOfUpdate DEF AuditInv, TypeInv, TypeOK, StoreTypeOK
<1>5. /\ n \in Nat /\ DOMAIN changeLog[t] = 1 .. n
      /\ DOMAIN changeLog'[t] = 1 .. n + 1 /\ Len(changeLog'[t]) = n + 1
      /\ \A i \in 1 .. n : changeLog'[t][i] = changeLog[t][i]
      /\ changeLog'[t][n + 1] = ChangeEntry(r)
  BY <1>4, <1>n
<1>6. txn[r].row = UpdatedRow(r)
  BY <1>0 DEF AuditInv, WriteSets, WriteSet
<1>7. EntriesOf(r, t)' = {n + 1}
  <2>1. \A i \in 1 .. n : changeLog[t][i].request # r
    BY <1>1, <1>2, <1>5 DEF Changed, EntriesOf
  <2>2. ChangeEntry(r).request = r
    BY DEF ChangeEntry
  <2>3. \A i \in 1 .. n + 1 : changeLog'[t][i].request = r <=> i = n + 1
    <3> SUFFICES ASSUME NEW i \in 1 .. n + 1
                 PROVE  changeLog'[t][i].request = r <=> i = n + 1
      OBVIOUS
    <3>1. CASE i = n + 1
      BY <1>5, <2>2, <3>1
    <3>2. CASE i # n + 1
      <4>1. i \in 1 .. n
        BY <1>5, <3>2
      <4>2. changeLog'[t][i] = changeLog[t][i]
        BY <1>5, <4>1
      <4> QED BY <2>1, <3>2, <4>1, <4>2
    <3> QED BY <3>1, <3>2
  <2>4. {i \in 1 .. n + 1 : changeLog'[t][i].request = r} = {n + 1}
    BY <2>3
  <2> QED BY <1>5, <2>4 DEF EntriesOf
<1>8. /\ changeLog'[t][n + 1].new = call[r].status
      /\ changeLog'[t][n + 1].changedBy = call[r].user
      /\ n + 1 \in DOMAIN changeLog'[t]
  BY <1>5 DEF ChangeEntry
<1>9. ASSUME dto'[r] = txn[r].row, call'[r] = call[r] PROVE Reported(r)'
  <2>1. IsVersion(dto[r], t, n + 1)'
    BY <1>4, <1>5, <1>6, <1>9 DEF IsVersion
  <2> QED BY <1>1, <1>7, <1>8, <1>9, <2>1 DEF Reported
<1> QED BY <1>1, <1>3, <1>9

\* The requests that take no part in a step keep what is said of them.
LEMMA OthersKeepReply ==
    ASSUME ReplyInv, NEW r \in Requests,
           \A t \in Tenders : HistoryKept(t),
           \A o \in Requests \ {r}, t \in Tenders : EntriesOf(o, t)' = EntriesOf(o, t),
           \A o \in Requests \ {r} :
               pc'[o] = pc[o] /\ call'[o] = call[o] /\ dto'[o] = dto[o] /\ code'[o] = code[o],
           (EntryIsOwn(r) /\ ReplyIsTrue(r))'
    PROVE  OwnEntries'
BY IdleKeepsReply DEF OwnEntries

LEMMA ReplyOfQuietSteps ==
    ASSUME ReplyInv, NEW r \in Requests,
           \/ Begin(r) \/ NoConnection(r) \/ StatementFails(r) \/ CreateTender(r)
           \/ TenderNotFound(r) \/ LockTender(r) \/ WriteStatus(r) \/ WriteChangeLog(r)
           \/ CacheHit(r) \/ CacheUnreadable(r) \/ CacheMiss(r) \/ ReadTender(r)
           \/ FillCache(r) \/ SelectPage(r) \/ Count(r) \/ \E c \in Calls : Arrive(r, c)
    PROVE  OwnEntries'
<1>1. UNCHANGED <<tenders, changeLog>>
  BY DEF Begin, OpenTransaction, NoConnection, StatementFails, CreateTender, AddTender,
         TenderNotFound, LockTender, GetByIdForUpdate, WriteStatus, UpdateStatus,
         WriteChangeLog, AddChangeLog, CacheHit, CacheUnreadable, CacheMiss, ReadTender,
         FillCache, SelectPage, Count, Arrive, storeVars
<1>2. \A o \in Requests \ {r} :
          pc'[o] = pc[o] /\ call'[o] = call[o] /\ dto'[o] = dto[o] /\ code'[o] = code[o]
  BY DEF Begin, NoConnection, StatementFails, CreateTender, TenderNotFound, LockTender,
         WriteStatus, WriteChangeLog, CacheHit, CacheUnreadable, CacheMiss, ReadTender,
         FillCache, SelectPage, Count, Arrive, ReplyInv, AuditInv, TypeInv, TypeOK
<1>3. /\ pc[r] \notin {"rollback", "invalidate"} \union Finished
      /\ pc'[r] # "invalidate"
  BY CallFields, CallOfActive
  DEF Begin, FirstStatement, NoConnection, StatementFails, CreateTender, TenderNotFound,
      LockTender, WriteStatus, WriteChangeLog, CacheHit, CacheUnreadable, CacheMiss,
      ReadTender, FillCache, SelectPage, Count, Arrive, Finished, ReplyInv, AuditInv,
      TypeInv, TypeOK
<1>4. IsUpdate(r)' /\ pc'[r] \in {"rollback", "done"} => code'[r] # 200
  BY CallFields, CallOfActive
  DEF Begin, FirstStatement, NoConnection, StatementFails, CreateTender, TenderNotFound,
      LockTender, WriteStatus, WriteChangeLog, CacheHit, CacheUnreadable, CacheMiss,
      ReadTender, FillCache, SelectPage, Count, Arrive, ReplyInv, AuditInv, TypeInv,
      TypeOK, Stages, Stage, StageOp
<1>5. (EntryIsOwn(r) /\ ReplyIsTrue(r))'
  BY <1>1, <1>3, <1>4, FreshKeepsReply
<1>6. \A t \in Tenders : HistoryKept(t)
  BY <1>1, UnchangedKeepsHistory DEF ReplyInv
<1>7. \A o \in Requests \ {r}, t \in Tenders : EntriesOf(o, t)' = EntriesOf(o, t)
  BY <1>1 DEF EntriesOf
<1> QED BY <1>2, <1>5, <1>6, <1>7, OthersKeepReply

\* A request that was decided ends, with the code it has or with 500.
LEMMA ReplyOfLastSteps ==
    ASSUME ReplyInv, NEW r \in Requests,
           RollbackTransaction(r) \/ RollbackFails(r) \/ InvalidateCache(r)
    PROVE  OwnEntries'
<1>1. UNCHANGED <<tenders, changeLog, call, dto>>
  BY DEF RollbackTransaction, RollbackFails, Rollback, InvalidateCache, storeVars
<1>2. \A o \in Requests \ {r} : pc'[o] = pc[o] /\ code'[o] = code[o]
  BY DEF RollbackTransaction, RollbackFails, InvalidateCache, ReplyInv, AuditInv, TypeInv,
         TypeOK
<1>3. \A o \in Requests, t \in Tenders :
          EntriesOf(o, t)' = EntriesOf(o, t) /\ (Changed(o, t)' <=> Changed(o, t))
  BY <1>1 DEF Changed, EntriesOf
<1>4. \A t \in Tenders : HistoryKept(t)
  BY <1>1, UnchangedKeepsHistory DEF ReplyInv
<1>5. CASE RollbackTransaction(r) \/ RollbackFails(r)
  <2>1. /\ pc[r] = "rollback" /\ pc'[r] \in {"fill", "done"}
        /\ pc'[r] = "fill" => call[r].op = "get"
        /\ code'[r] \in {code[r], 500}
    BY <1>5 DEF RollbackTransaction, RollbackFails, ReplyInv, AuditInv, TypeInv, TypeOK
  <2>2. (EntryIsOwn(r) /\ ReplyIsTrue(r))'
    BY <1>1, <1>3, <2>1
    DEF ReplyInv, OwnEntries, EntryIsOwn, ReplyIsTrue, Answered, Finished
  <2> QED BY <1>1, <1>2, <1>3, <1>4, <2>2, OthersKeepReply
<1>6. CASE InvalidateCache(r)
  <2>1. pc[r] = "invalidate" /\ pc'[r] = "done" /\ code'[r] = code[r]
    BY <1>6 DEF InvalidateCache, ReplyInv, AuditInv, TypeInv, TypeOK
  <2>2. IsUpdate(r)
    BY <2>1 DEF ReplyInv, AuditInv, TypeInv, Stages, Stage, StageOp
  <2>3. Reported(r)'
    <3>1. Reported(r) /\ call[r].tender \in Tenders
      BY <2>1, <2>2, CallOfActive, CallFields
      DEF ReplyInv, OwnEntries, ReplyIsTrue, AuditInv
    <3>2. tenders[call[r].tender] # None
      BY <3>1, ChangedExists DEF ReplyInv, Reported, Changed
    <3> QED BY <1>1, <1>3, <1>4, <3>1, <3>2, ReportedKept
  <2>4. (EntryIsOwn(r) /\ ReplyIsTrue(r))'
    BY <1>1, <1>3, <2>1, <2>3
    DEF ReplyInv, OwnEntries, EntryIsOwn, ReplyIsTrue, Answered, Finished
  <2> QED BY <1>1, <1>2, <1>3, <1>4, <2>4, OthersKeepReply
<1> QED BY <1>5, <1>6

LEMMA ReplyOfCommit ==
    ASSUME ReplyInv, NEW r \in Requests, CommitTransaction(r) \/ CommitFails(r)
    PROVE  OwnEntries'
<1>1. /\ pc[r] = "commit" /\ UNCHANGED call
      /\ \A o \in Requests \ {r} : pc'[o] = pc[o] /\ dto'[o] = dto[o] /\ code'[o] = code[o]
  BY DEF CommitTransaction, CommitFails, ReplyInv, AuditInv, TypeInv, TypeOK
<1>2. CASE Commit(r)
  <2>1. AuditInv /\ \A t \in Tenders : HistoryKept(t)
    BY <1>1, <1>2, CommitKeepsHistory DEF ReplyInv
  <2>2. \A o \in Requests \ {r}, t \in Tenders : EntriesOf(o, t)' = EntriesOf(o, t)
    BY <1>1, <1>2, <2>1, EntriesAfterCommit
  <2>3. \/ pc'[r] = "rollback" /\ code'[r] = 500
        \/ IsOp(r, "create") /\ pc'[r] = "done" /\ code'[r] = 201
        \/ /\ IsUpdate(r) /\ pc'[r] = "invalidate" /\ code'[r] = 200
           /\ dto'[r] = txn[r].row
    BY CommittingTxn DEF CommitTransaction, CommitFails, ReplyInv, AuditInv, TypeInv, TypeOK
  <2>4. CASE IsUpdate(r)
    <3>1. /\ \A t \in Tenders : Changed(r, t)' => call[r].tender = t
          /\ dto'[r] = txn[r].row => Reported(r)'
      BY <1>1, <1>2, <2>4, CommitReports
    <3>2. (EntryIsOwn(r) /\ ReplyIsTrue(r))'
      BY <1>1, <2>3, <2>4, <3>1 DEF EntryIsOwn, ReplyIsTrue, Answered
    <3> QED BY <1>1, <2>1, <2>2, <3>2, OthersKeepReply
  <2>5. CASE ~IsUpdate(r)
    <3>1. \A t \in Tenders : EntriesOf(r, t)' = EntriesOf(r, t)
      BY <1>1, <1>2, <2>1, <2>5, EntriesAfterCommit
    <3>2. \A t \in Tenders : ~Changed(r, t)'
      BY <1>1, <2>5, <3>1 DEF ReplyInv, OwnEntries, EntryIsOwn, Changed
    <3>3. (EntryIsOwn(r) /\ ReplyIsTrue(r))'
      BY <1>1, <2>3, <2>5, <3>2 DEF EntryIsOwn, ReplyIsTrue, Answered
    <3> QED BY <1>1, <2>1, <2>2, <3>3, OthersKeepReply
  <2> QED BY <2>4, <2>5
<1>3. CASE ~Commit(r)
  <2>1. UNCHANGED <<tenders, changeLog>> /\ pc'[r] = "rollback" /\ code'[r] = 500
    BY <1>3 DEF CommitTransaction, CommitFails, storeVars, ReplyInv, AuditInv, TypeInv,
                TypeOK
  <2>2. (EntryIsOwn(r) /\ ReplyIsTrue(r))'
    BY <1>1, <2>1, FreshKeepsReply DEF Finished
  <2>3. \A t \in Tenders : HistoryKept(t)
    BY <2>1, UnchangedKeepsHistory DEF ReplyInv
  <2>4. \A o \in Requests \ {r}, t \in Tenders : EntriesOf(o, t)' = EntriesOf(o, t)
    BY <2>1 DEF EntriesOf
  <2> QED BY <1>1, <2>2, <2>3, <2>4, OthersKeepReply
<1> QED BY <1>2, <1>3

LEMMA ReplyInvStep == ReplyInv /\ [Next]_vars => ReplyInv'
<1> SUFFICES ASSUME ReplyInv, [Next]_vars PROVE ReplyInv'
  OBVIOUS
<1>1. AuditInv'
  BY AuditInvStep DEF ReplyInv
<1>2. ASSUME NEW r \in Requests, Step(r) \/ \E c \in Calls : Arrive(r, c) PROVE OwnEntries'
  BY <1>2, ReplyOfQuietSteps, ReplyOfLastSteps, ReplyOfCommit DEF Step
<1>3. ASSUME UNCHANGED <<tenders, changeLog, call, dto, code>>,
             \A r \in Requests : pc'[r] = pc[r] \/ pc'[r] = "crashed"
      PROVE  OwnEntries'
  <2>1. \A r \in Requests, t \in Tenders :
            HistoryKept(t) /\ EntriesOf(r, t)' = EntriesOf(r, t)
    BY <1>3, UnchangedKeepsHistory DEF ReplyInv, EntriesOf
  <2> QED BY <1>3, <2>1, IdleKeepsReply DEF OwnEntries
<1>4. ASSUME Crash PROVE OwnEntries'
  <2>1. \A r \in Requests : pc'[r] = pc[r] \/ pc'[r] = "crashed"
    BY <1>4 DEF Crash
  <2> QED BY <1>3, <1>4, <2>1 DEF Crash, RollbackAll
<1>5. ASSUME NEW t \in Tenders, ExpireKey(t) PROVE OwnEntries'
  BY <1>3, <1>5 DEF ExpireKey, storeVars, requestVars
<1>6. ASSUME UNCHANGED vars PROVE OwnEntries'
  BY <1>3, <1>6 DEF vars, storeVars, requestVars
<1>7. OwnEntries'
  BY <1>2, <1>4, <1>5, <1>6 DEF Next, Terminated
<1> QED BY <1>1, <1>7 DEF ReplyInv

LEMMA ReplyInvariant == Spec => []ReplyInv
<1>1. Init => ReplyInv
  BY InitReply
<1>2. ReplyInv /\ [Next]_vars => ReplyInv'
  BY ReplyInvStep
<1> QED BY <1>1, <1>2, PTL DEF Spec

\* What an update is answered agrees with the log, after whatever failures.
THEOREM RepliesAreTrue == Spec => []ReplyMatchesLog
<1>1. ReplyInv => ReplyMatchesLog
  <2> SUFFICES ASSUME ReplyInv, NEW r \in Requests, IsUpdate(r)
      PROVE /\ \A u \in Tenders \ {call[r].tender} : EntriesOf(r, u) = {}
            /\ Answered(r, 200) => Reported(r)
            /\ Answered(r, 404) \/ Answered(r, 409) => EntriesOf(r, call[r].tender) = {}
    BY DEF ReplyMatchesLog, Reported
  <2>1. Answered(r, 404) \/ Answered(r, 409) => call[r].tender \in Tenders
    BY CallOfActive, CallFields DEF ReplyInv, AuditInv, Answered
  <2> QED
    BY <2>1 DEF ReplyInv, OwnEntries, EntryIsOwn, ReplyIsTrue, Changed, Answered
<1> QED BY <1>1, ReplyInvariant, PTL

\* Of updates competing for one step of a tender only one is told that it won.
THEOREM OneUpdateWins == Spec => []SingleWinner
<1>1. ReplyInv => SingleWinner
  <2> SUFFICES ASSUME ReplyInv, NEW r \in Requests, NEW o \in Requests,
                      IsUpdate(r), IsUpdate(o), Answered(r, 200), Answered(o, 200),
                      call[r].tender = call[o].tender,
                      \/ call[r].status = call[o].status
                      \/ {call[r].status, call[o].status} = {"won", "lost"}
               PROVE  r = o
    BY DEF SingleWinner
  <2>1. PICK t \in Tenders : t = call[r].tender
    BY CallOfActive, CallFields DEF ReplyInv, AuditInv, Answered
  <2>2. PICK i \in DOMAIN changeLog[t] :
            changeLog[t][i].request = r /\ changeLog[t][i].new = call[r].status
    BY <2>1 DEF ReplyInv, OwnEntries, ReplyIsTrue, Reported, EntriesOf
  <2>3. PICK j \in DOMAIN changeLog[t] :
            changeLog[t][j].request = o /\ changeLog[t][j].new = call[o].status
    BY <2>1 DEF ReplyInv, OwnEntries, ReplyIsTrue, Reported, EntriesOf
  <2>4. changeLog[t] \in Seq(Entry) /\ IsLifecycle(changeLog[t])
    BY <2>2 DEF ReplyInv, AuditInv, AuditTrail, TypeInv, TypeOK, StoreTypeOK
  <2> DEFINE n == Len(changeLog[t])
  <2>5. n \in Nat /\ i \in 1 .. n /\ j \in 1 .. n
    BY <2>4
  <2>6. /\ n <= 2
        /\ n >= 1 => changeLog[t][1].new = "active"
        /\ n = 2 => changeLog[t][2].new \in {"won", "lost"}
    BY <2>4 DEF IsLifecycle
  <2> HIDE DEF n
  <2>7. i \in {1, 2} /\ j \in {1, 2} /\ (i = 2 \/ j = 2 => n = 2) /\ n >= 1
    BY <2>5, <2>6
  <2>8. \/ call[r].status = call[o].status
        \/ call[r].status \in {"won", "lost"} /\ call[o].status \in {"won", "lost"}
    OBVIOUS
  <2>9. i = j
    BY <2>2, <2>3, <2>6, <2>7, <2>8
  <2> QED BY <2>2, <2>3, <2>9
<1> QED BY <1>1, ReplyInvariant, PTL

-------------------------------------------------------------------------------
(* The ledger *)

\* The variables of the ledger, as LedgerRefined maps them.
LedgerStatus == [t \in Tenders |-> IF tenders[t] = None THEN None ELSE tenders[t].status]
LedgerChange(entry) == [old |-> entry.old, new |-> entry.new, changedBy |-> entry.changedBy,
                        request |-> entry.request]
LedgerTrail == [t \in Tenders |-> [i \in DOMAIN changeLog[t] |-> LedgerChange(changeLog[t][i])]]

\* The server applies the transaction of r, whether the answer arrives or not.
Commits(r) ==
    /\ pc[r] = "commit" /\ Commit(r)
    /\ CommitTransaction(r) \/ CommitFails(r)

\* Only commits are visible in the ledger.
LEMMA OnlyCommitsWrite ==
    ASSUME [Next]_vars
    PROVE  \/ UNCHANGED <<tenders, changeLog>>
           \/ \E r \in Requests : Commits(r)
<1>1. ASSUME NEW r \in Requests, Step(r)
      PROVE  UNCHANGED <<tenders, changeLog>> \/ Commits(r)
  <2>1. CASE Begin(r) \/ CreateTender(r) \/ LockTender(r) \/ WriteStatus(r) \/ WriteChangeLog(r)
    BY <2>1 DEF Begin, OpenTransaction, CreateTender, AddTender, LockTender, GetByIdForUpdate,
                WriteStatus, UpdateStatus, WriteChangeLog, AddChangeLog
  <2>2. CASE CommitTransaction(r) \/ CommitFails(r)
    BY <2>2 DEF Commits, CommitTransaction, CommitFails, storeVars
  <2>3. CASE RollbackTransaction(r) \/ RollbackFails(r)
    BY <2>3 DEF RollbackTransaction, RollbackFails, Rollback
  <2>4. CASE \/ NoConnection(r) \/ StatementFails(r) \/ TenderNotFound(r) \/ InvalidateCache(r)
             \/ CacheHit(r) \/ CacheUnreadable(r) \/ CacheMiss(r) \/ ReadTender(r)
             \/ FillCache(r) \/ SelectPage(r) \/ Count(r)
    BY <2>4 DEF NoConnection, StatementFails, TenderNotFound, InvalidateCache, CacheHit,
                CacheUnreadable, CacheMiss, ReadTender, FillCache, SelectPage, Count, storeVars
  <2> QED BY <1>1, <2>1, <2>2, <2>3, <2>4 DEF Step
<1>2. ASSUME NEW r \in Requests, NEW c \in Calls, Arrive(r, c)
      PROVE  UNCHANGED <<tenders, changeLog>>
  BY <1>2 DEF Arrive, storeVars
<1>3. ASSUME NEW t \in Tenders, ExpireKey(t) PROVE UNCHANGED <<tenders, changeLog>>
  BY <1>3 DEF ExpireKey, storeVars
<1>4. Crash \/ UNCHANGED vars => UNCHANGED <<tenders, changeLog>>
  BY DEF Crash, RollbackAll, vars, storeVars
<1> QED BY <1>1, <1>2, <1>3, <1>4 DEF Next, Terminated

LEMMA CreateInLedger ==
    ASSUME AuditInv, NEW r \in Requests, pc[r] = "commit", Commit(r), IsOp(r, "create")
    PROVE  \E t \in Tenders : Ledger!CreateTender(t)
<1>1. PICK t \in Tenders : t = txn[r].key
  BY CommittingTxn DEF AuditInv
<1>2. /\ tenders[t] = None /\ tenders'[t].status = "draft" /\ tenders'[t] # None
      /\ changeLog'[t] = changeLog[t]
  <2>1. /\ tenders[t] = None /\ changeLog'[t] = changeLog[t]
        /\ tenders'[t] = NewRow(call[r].user, txn[r].now)
    BY <1>1, AuditOfCreate
  <2>2. NewRow(call[r].user, txn[r].now) \in Row
    BY CommittingTxn DEF AuditInv, WriteSets, WriteSet
  <2> QED BY <2>1, <2>2, NoneAssumption DEF NewRow
<1>3. \A u \in Tenders \ {t} : tenders'[u] = tenders[u] /\ changeLog'[u] = changeLog[u]
  BY <1>1, CommitKeepsOthers
<1>4. LedgerStatus[t] = None /\ LedgerStatus' = [LedgerStatus EXCEPT ![t] = "draft"]
  BY <1>2, <1>3 DEF LedgerStatus
<1>5. LedgerTrail' = LedgerTrail
  BY <1>2, <1>3 DEF LedgerTrail
<1>6. Ledger!CreateTender(t)
  BY <1>4, <1>5 DEF Ledger!CreateTender, LedgerStatus, LedgerTrail, LedgerChange
<1> QED BY <1>6

LEMMA UpdateInLedger ==
    ASSUME ReplyInv, NEW r \in Requests, pc[r] = "commit", Commit(r), IsUpdate(r)
    PROVE  \E t \in Tenders, new \in Status, user \in Users :
               Ledger!UpdateTenderStatus(t, new, user, r)
<1>1. AuditInv
  BY DEF ReplyInv
<1>2. PICK t \in Tenders : t = txn[r].key /\ t = call[r].tender
  BY <1>1, CommittingTxn DEF AuditInv
<1>3. PICK new \in Status, user \in Users : new = call[r].status /\ user = call[r].user
  BY <1>1, CallOfActive, CallFields DEF AuditInv
<1>4. /\ tenders[t] \in Row /\ tenders[t] # None /\ dto[r] = tenders[t]
      /\ tenders'[t] = UpdatedRow(r) /\ tenders'[t] # None
      /\ changeLog'[t] = Append(changeLog[t], ChangeEntry(r))
      /\ ChangeEntry(r) \in Entry /\ changeLog[t] \in Seq(Entry)
  <2>1. changeLog[t] \in Seq(Entry)
    BY <1>1 DEF AuditInv, TypeInv, TypeOK, StoreTypeOK
  <2> QED BY <1>1, <1>2, <2>1, AuditOfUpdate, NoneAssumption
<1>5. EnsureTransitionAllowed(tenders[t].status, new)
  BY <1>1, <1>2, <1>3, <1>4 DEF AuditInv, WriteSets, WriteSet, Changing
<1>6. \A u \in Tenders \ {t} : tenders'[u] = tenders[u] /\ changeLog'[u] = changeLog[u]
  BY <1>1, <1>2, CommitKeepsOthers
<1>7. LedgerStatus[t] = tenders[t].status /\ LedgerStatus' = [LedgerStatus EXCEPT ![t] = new]
  <2>1. tenders'[t].status = new
    BY <1>3, <1>4 DEF UpdatedRow, Row
  <2> QED BY <1>4, <1>6, <2>1 DEF LedgerStatus
<1> DEFINE change == [old |-> tenders[t].status, new |-> new, changedBy |-> user, request |-> r]
<1>8. LedgerChange(ChangeEntry(r)) = change
  BY <1>3, <1>4 DEF LedgerChange, ChangeEntry
<1>9. LedgerTrail' = [LedgerTrail EXCEPT ![t] = Append(@, change)]
  <2> DEFINE log == changeLog[t]
             seen == [i \in DOMAIN log |-> LedgerChange(log[i])]
  <2>1. PICK n \in Nat : n = Len(log) /\ DOMAIN log = 1 .. n
    BY <1>4
  <2>2. /\ DOMAIN changeLog'[t] = 1 .. n + 1
        /\ \A i \in 1 .. n : changeLog'[t][i] = log[i]
        /\ changeLog'[t][n + 1] = ChangeEntry(r)
    BY <1>4, <2>1
  <2>3. LedgerTrail'[t] = [i \in 1 .. n + 1 |-> IF i = n + 1 THEN change
                                                ELSE LedgerChange(log[i])]
    BY <1>8, <2>2 DEF LedgerTrail
  <2>4. seen \in Seq({LedgerChange(log[i]) : i \in 1 .. n}) /\ Len(seen) = n
    BY <2>1
  <2>5. Append(seen, change) = [i \in 1 .. n + 1 |-> IF i = n + 1 THEN change
                                                     ELSE LedgerChange(log[i])]
    BY <2>1, <2>4
  <2>6. LedgerTrail[t] = seen
    BY DEF LedgerTrail
  <2>7. \A u \in Tenders \ {t} : LedgerTrail'[u] = LedgerTrail[u]
    BY <1>6 DEF LedgerTrail
  <2> QED BY <2>3, <2>5, <2>6, <2>7 DEF LedgerTrail
<1>10. ~ \E u \in Tenders : \E i \in DOMAIN LedgerTrail[u] : LedgerTrail[u][i].request = r
  <2>1. \A u \in Tenders : ~Changed(r, u)
    BY DEF ReplyInv, OwnEntries, EntryIsOwn, Finished
  <2> QED BY <2>1 DEF Changed, EntriesOf, LedgerTrail, LedgerChange
<1>11. LedgerStatus[t] # None
  BY <1>4, <1>7, NoneAssumption DEF Row
<1>12. Ledger!UpdateTenderStatus(t, new, user, r)
  BY <1>5, <1>7, <1>9, <1>10, <1>11
  DEF Ledger!UpdateTenderStatus, Ledger!Used, Ledger!EnsureTransitionAllowed,
      Ledger!AllowedStatusTransitions, Ledger!Status, EnsureTransitionAllowed,
      AllowedStatusTransitions, Status, LedgerStatus, LedgerTrail, LedgerChange
<1> QED BY <1>12

\* The service implements the ledger: of all its steps, only a commit is seen there,
\* as the creation or the status change it makes durable.
THEOREM ServiceImplementsLedger == Spec => LedgerRefined
<1>1. Init => Ledger!LedgerInit
  <2>1. NewRow(Seeder, 0) # None /\ NewRow(Seeder, 0).status = "draft"
    BY SeedAssumption, NoneAssumption DEF NewRow, Row, Status
  <2>2. SUFFICES ASSUME Init PROVE Ledger!LedgerInit
    OBVIOUS
  <2>3. \A t \in Tenders : changeLog[t] = <<>>
    BY <2>2 DEF Init, StoreInit
  <2>4. tenders = [t \in Tenders |-> IF t \in Seeded THEN NewRow(Seeder, 0) ELSE None]
    BY <2>2 DEF Init, StoreInit
  <2>5. LedgerStatus = [t \in Tenders |-> IF t \in Seeded THEN "draft" ELSE None]
    BY <2>1, <2>4 DEF LedgerStatus
  <2>6. LedgerTrail = [t \in Tenders |-> <<>>]
    BY <2>3 DEF LedgerTrail
  <2> QED BY <2>5, <2>6 DEF Ledger!LedgerInit, LedgerStatus, LedgerTrail, LedgerChange
<1>2. ReplyInv /\ [Next]_vars => [Ledger!LedgerNext]_(Ledger!ledgerVars)
  <2> SUFFICES ASSUME ReplyInv, [Next]_vars PROVE [Ledger!LedgerNext]_(Ledger!ledgerVars)
    OBVIOUS
  <2>1. CASE UNCHANGED <<tenders, changeLog>>
    BY <2>1 DEF Ledger!ledgerVars
  <2>2. ASSUME NEW r \in Requests, Commits(r) PROVE Ledger!LedgerNext
    BY <2>2, CreateInLedger, UpdateInLedger, CommittingTxn
    DEF Commits, Ledger!LedgerNext, Ledger!Status, Status, ReplyInv, AuditInv
  <2> QED BY <2>1, <2>2, OnlyCommitsWrite DEF ReplyInv
<1> QED BY <1>1, <1>2, ReplyInvariant, PTL DEF Spec, LedgerRefined, Ledger!LedgerSpec

-------------------------------------------------------------------------------
(* Reads and the cache *)

\* Tender t exists and was `row' once its first so many entries were committed.
VersionOf(t, row) ==
    /\ tenders[t] # None
    /\ \E n \in 0 .. Len(changeLog[t]) : IsVersion(row, t, n)

CachedVersions == \A t \in Tenders : cache[t] \in Cached => VersionOf(t, cache[t].row)

ReadVersions ==
    \A r \in Requests :
        /\ pc[r] = "idle" => dto[r] = None
        /\ IsOp(r, "get") /\ dto[r] # None => VersionOf(call[r].tender, dto[r])

ReadInv == ReplyInv /\ CachedVersions /\ ReadVersions /\ StaleCacheExplained

LEMMA InitRead == Init => ReadInv
<1> SUFFICES ASSUME Init PROVE ReadInv
  OBVIOUS
<1>1. \A t \in Tenders : cache[t] \notin Cached /\ (cache[t] # None => cache[t] = Foreign)
  BY NoCachedAssumption DEF Init, CacheInit
<1>2. \A r \in Requests : pc[r] = "idle" /\ call[r] = None /\ dto[r] = None
  BY DEF Init
<1>3. CachedVersions /\ ReadVersions
  BY <1>1, <1>2 DEF CachedVersions, ReadVersions
<1>4. StaleCacheExplained
  BY <1>1, <1>2 DEF StaleCacheExplained, Stale, Answered
<1> QED BY <1>3, <1>4, InitReply DEF ReadInv

LEMMA VersionOfKept ==
    ASSUME NEW t \in Tenders, HistoryKept(t), NEW row, VersionOf(t, row)
    PROVE  VersionOf(t, row)'
<1>1. PICK n \in 0 .. Len(changeLog[t]) : IsVersion(row, t, n)
  BY DEF VersionOf
<1>2. n \in 0 .. Len(changeLog'[t]) /\ IsVersion(row, t, n)'
  BY <1>1, VersionKept DEF VersionOf
<1> QED BY <1>2 DEF VersionOf, HistoryKept

\* The committed row is the latest version.
LEMMA CommittedIsVersion ==
    ASSUME AuditInv, NEW t \in Tenders, tenders[t] # None
    PROVE  VersionOf(t, tenders[t])
BY DEF VersionOf, AuditInv, AuditTrail, TypeInv, TypeOK, StoreTypeOK

LEMMA EveryHistoryKept ==
    ASSUME AuditInv, [Next]_vars, NEW t \in Tenders
    PROVE  HistoryKept(t)
BY OnlyCommitsWrite, CommitKeepsHistory, UnchangedKeepsHistory DEF Commits

\* How Redis changes: a get stores the row it has read, all else takes keys away.
LEMMA CacheSteps ==
    ASSUME ReadInv, [Next]_vars, NEW t \in Tenders
    PROVE  \/ cache'[t] \in {cache[t], None}
           \/ \E r \in Requests :
                  /\ FillCache(r) /\ call[r].tender = t
                  /\ cache'[t] = [row |-> dto[r], late |-> dto[r] # tenders[t]]
<1>1. cache \in [Tenders -> Cached \union {None, Foreign}]
  BY DEF ReadInv, ReplyInv, AuditInv, TypeInv, TypeOK, CacheTypeOK
<1>2. ASSUME NEW r \in Requests, FillCache(r)
      PROVE  \/ cache'[t] = cache[t]
             \/ /\ call[r].tender = t
                /\ cache'[t] = [row |-> dto[r], late |-> dto[r] # tenders[t]]
  BY <1>1, <1>2 DEF FillCache, SetTender
<1>3. ASSUME NEW r \in Requests, InvalidateCache(r) PROVE cache'[t] \in {cache[t], None}
  BY <1>1, <1>3 DEF InvalidateCache, InvalidateTender
<1>4. ASSUME NEW r \in Requests, Step(r), ~FillCache(r), ~InvalidateCache(r)
      PROVE  cache' = cache
  BY <1>4
  DEF Step, Begin, NoConnection, StatementFails, CreateTender, TenderNotFound, LockTender,
      WriteStatus, WriteChangeLog, CommitTransaction, CommitFails, CacheHit,
      CacheUnreadable, CacheMiss, ReadTender, SelectPage, Count, RollbackTransaction,
      RollbackFails
<1>5. ASSUME NEW u \in Tenders, ExpireKey(u) PROVE cache'[t] \in {cache[t], None}
  BY <1>1, <1>5 DEF ExpireKey, Expire
<1>6. ASSUME NEW r \in Requests, NEW c \in Calls, Arrive(r, c) PROVE cache' = cache
  BY <1>6 DEF Arrive
<1>7. Crash \/ UNCHANGED vars => cache' = cache
  BY DEF Crash, vars
<1> QED BY <1>2, <1>3, <1>4, <1>5, <1>6, <1>7 DEF Next, Terminated

LEMMA CachedVersionsStep ==
    ASSUME ReadInv, [Next]_vars
    PROVE  CachedVersions'
<1> SUFFICES ASSUME NEW t \in Tenders, cache'[t] \in Cached
             PROVE  VersionOf(t, cache[t].row)'
  BY DEF CachedVersions
<1>1. HistoryKept(t)
  BY EveryHistoryKept DEF ReadInv, ReplyInv
<1>2. PICK row : row = cache'[t].row
  OBVIOUS
<1>3. VersionOf(t, row)
  <2>1. CASE cache'[t] = cache[t]
    BY <1>2, <2>1 DEF ReadInv, CachedVersions
  <2>2. ASSUME NEW r \in Requests, FillCache(r), call[r].tender = t,
               cache'[t] = [row |-> dto[r], late |-> dto[r] # tenders[t]]
        PROVE  VersionOf(t, row)
    BY <1>2, <2>2
    DEF FillCache, ReadInv, ReadVersions, ReplyInv, AuditInv, TypeInv, Stages, Stage, StageOp,
        StageData
  <2> QED BY <2>1, <2>2, CacheSteps, NoCachedAssumption
<1>4. VersionOf(t, row)'
  BY <1>1, <1>3, VersionOfKept
<1> QED BY <1>2, <1>4 DEF VersionOf, IsVersion

\* How the row of a request changes.
LEMMA DtoSteps ==
    ASSUME ReadInv, [Next]_vars, NEW r \in Requests
    PROVE  /\ pc'[r] = "idle" => pc[r] = "idle" /\ dto'[r] = dto[r]
           /\ \/ dto'[r] = dto[r] /\ (call'[r] = call[r] \/ pc[r] = "idle")
              \/ ~IsOp(r, "get")'
              \/ /\ call'[r] = call[r] /\ call[r].tender \in Tenders
                 /\ \/ tenders[call[r].tender] # None /\ dto'[r] = tenders[call[r].tender]
                    \/ /\ cache[call[r].tender] \in Cached
                       /\ dto'[r] = cache[call[r].tender].row
<1>1. /\ pc \in [Requests -> Labels] /\ call \in [Requests -> Calls \union {None}]
      /\ dto \in [Requests -> Row \union {None}]
  BY DEF ReadInv, ReplyInv, AuditInv, TypeInv, TypeOK
<1>2. ASSUME NEW o \in Requests, CacheHit(o) \/ ReadTender(o) \/ LockTender(o)
      PROVE  call[o] \in Calls /\ call[o].tender \in Tenders
  BY <1>2, CallOfActive, CallFields
  DEF CacheHit, ReadTender, LockTender, ReadInv, ReplyInv, AuditInv, TypeInv, Stages, Stage,
      StageOp
<1>3. ASSUME NEW o \in Requests, CacheHit(o) \/ ReadTender(o)
      PROVE  /\ pc'[r] = "idle" => pc[r] = "idle" /\ dto'[r] = dto[r]
             /\ \/ dto'[r] = dto[r] /\ call'[r] = call[r]
                \/ /\ call'[r] = call[r] /\ call[r].tender \in Tenders
                   /\ \/ tenders[call[r].tender] # None /\ dto'[r] = tenders[call[r].tender]
                      \/ /\ cache[call[r].tender] \in Cached
                         /\ dto'[r] = cache[call[r].tender].row
  BY <1>1, <1>2, <1>3 DEF CacheHit, Hit, ReadTender
<1>4. ASSUME NEW o \in Requests, LockTender(o) \/ CommitTransaction(o)
      PROVE  /\ pc'[r] = "idle" => pc[r] = "idle" /\ dto'[r] = dto[r]
             /\ (dto'[r] = dto[r] /\ call'[r] = call[r]) \/ ~IsOp(r, "get")'
  <2>1. IsUpdate(o) \/ IsOp(o, "create")
    BY <1>4, CommittingTxn
    DEF LockTender, CommitTransaction, ReadInv, ReplyInv, AuditInv, TypeInv, Stages, Stage,
        StageOp
  <2> QED BY <1>1, <1>4, <2>1 DEF LockTender, CommitTransaction
<1>5. ASSUME NEW o \in Requests, Step(o), ~CacheHit(o), ~ReadTender(o), ~LockTender(o),
             ~CommitTransaction(o)
      PROVE  dto' = dto /\ call' = call /\ (pc'[r] = "idle" => pc[r] = "idle")
  <2>1. CASE Begin(o)
    BY <1>1, <2>1, CallFields, CallOfActive
    DEF Begin, FirstStatement, ReadInv, ReplyInv, AuditInv
  <2>2. CASE ~Begin(o)
    BY <1>1, <1>5, <2>2
    DEF Step, NoConnection, StatementFails, CreateTender, TenderNotFound, WriteStatus,
        WriteChangeLog, CommitFails, InvalidateCache, CacheUnreadable, CacheMiss, FillCache,
        SelectPage, Count, RollbackTransaction, RollbackFails
  <2> QED BY <2>1, <2>2
<1>6. ASSUME NEW o \in Requests, NEW c \in Calls, Arrive(o, c)
      PROVE  /\ dto' = dto /\ (pc'[r] = "idle" => pc[r] = "idle")
             /\ call'[r] = call[r] \/ pc[r] = "idle"
  BY <1>1, <1>6 DEF Arrive
<1>7. ASSUME Crash \/ UNCHANGED vars \/ \E t \in Tenders : ExpireKey(t)
      PROVE  dto' = dto /\ call' = call /\ (pc'[r] = "idle" => pc[r] = "idle")
  BY <1>1, <1>7 DEF Crash, vars, ExpireKey, requestVars
<1> QED BY <1>3, <1>4, <1>5, <1>6, <1>7 DEF Next, Terminated

LEMMA ReadVersionsStep ==
    ASSUME ReadInv, [Next]_vars
    PROVE  ReadVersions'
<1>1. \A t \in Tenders : HistoryKept(t)
  BY EveryHistoryKept DEF ReadInv, ReplyInv
<1>2. ASSUME NEW r \in Requests, pc'[r] = "idle" PROVE dto'[r] = None
  BY <1>2, DtoSteps DEF ReadInv, ReadVersions
<1>3. ASSUME NEW r \in Requests, IsOp(r, "get")', dto'[r] # None
      PROVE  VersionOf(call[r].tender, dto[r])'
  <2>1. pc[r] # "idle" \/ dto'[r] # dto[r]
    BY <1>3 DEF ReadInv, ReadVersions
  <2>2. CASE dto'[r] = dto[r] /\ call'[r] = call[r]
    <3>1. PICK t \in Tenders : t = call[r].tender
      BY <1>3, <2>2, CallFields DEF ReadInv, ReplyInv, AuditInv, TypeInv, TypeOK
    <3>2. VersionOf(t, dto[r])
      BY <1>3, <2>2, <3>1 DEF ReadInv, ReadVersions
    <3>3. VersionOf(t, dto[r])'
      BY <1>1, <2>2, <3>2, VersionOfKept DEF VersionOf, IsVersion
    <3> QED BY <2>2, <3>1, <3>3 DEF VersionOf
  <2>3. ASSUME call'[r] = call[r], NEW t \in Tenders, t = call[r].tender,
               tenders[t] # None, dto'[r] = tenders[t]
        PROVE  VersionOf(call[r].tender, dto[r])'
    <3>1. VersionOf(t, tenders[t])
      BY <2>3, CommittedIsVersion DEF ReadInv, ReplyInv
    <3>2. PICK row : row = tenders[t]
      OBVIOUS
    <3>3. VersionOf(t, row)'
      BY <1>1, <3>1, <3>2, VersionOfKept
    <3> QED BY <2>3, <3>2, <3>3 DEF VersionOf, IsVersion
  <2>4. ASSUME call'[r] = call[r], NEW t \in Tenders, t = call[r].tender,
               cache[t] \in Cached, dto'[r] = cache[t].row
        PROVE  VersionOf(call[r].tender, dto[r])'
    <3>1. PICK row : row = cache[t].row
      OBVIOUS
    <3>2. VersionOf(t, row)
      BY <2>4, <3>1 DEF ReadInv, CachedVersions
    <3>3. VersionOf(t, row)'
      BY <1>1, <3>2, VersionOfKept
    <3> QED BY <2>4, <3>1, <3>3 DEF VersionOf, IsVersion
  <2> QED BY <1>3, <2>1, <2>2, <2>3, <2>4, DtoSteps
<1> QED BY <1>2, <1>3 DEF ReadVersions

\* StaleCacheExplained, tender by tender.
StaleExplained(t) ==
    Stale(t) =>
        \/ cache[t] \in Cached /\ cache[t].late
        \/ cache[t] = Foreign /\ \A r \in Requests : Answered(r, 200) => ~Changed(r, t)
        \/ RedisMayFail
        \/ \E r \in Requests : Changed(r, t) /\ ~Answered(r, 200)

\* A request whose change is in the log is answered 200 only when it has asked Redis
\* to drop the key.
LEMMA OnlyInvalidationAnswers ==
    ASSUME ReplyInv, [Next]_vars, NEW r \in Requests, NEW t \in Tenders,
           Changed(r, t), Answered(r, 200)', ~Answered(r, 200)
    PROVE  InvalidateCache(r) /\ call[r].tender = t
<1>1. /\ IsUpdate(r) /\ call[r].tender = t
      /\ pc[r] \in {"rollback", "invalidate"} \union Finished
      /\ pc[r] = "rollback" => code[r] # 200
  BY DEF ReplyInv, OwnEntries, EntryIsOwn, ReplyIsTrue
<1>2. pc \in [Requests -> Labels] /\ code \in [Requests -> Codes \union {None}]
  BY DEF ReplyInv, AuditInv, TypeInv, TypeOK
<1>3. ASSUME pc'[r] = pc[r], code'[r] = code[r] PROVE FALSE
  BY <1>3 DEF Answered
<1>4. ASSUME NEW o \in Requests, Step(o) PROVE InvalidateCache(r)
  <2>1. CASE RollbackTransaction(o) \/ RollbackFails(o) \/ InvalidateCache(o)
    BY <1>1, <1>2, <1>3, <2>1
    DEF RollbackTransaction, RollbackFails, InvalidateCache, Answered
  <2>2. CASE ~(RollbackTransaction(o) \/ RollbackFails(o) \/ InvalidateCache(o))
    <3>1. /\ pc[o] \notin {"rollback", "invalidate"} \union Finished
          /\ o # r => pc'[r] = pc[r] /\ code'[r] = code[r]
      BY <1>2, <1>4, <2>2
      DEF Step, Begin, NoConnection, StatementFails, CreateTender, TenderNotFound, LockTender,
          WriteStatus, WriteChangeLog, CommitTransaction, CommitFails, CacheHit,
          CacheUnreadable, CacheMiss, ReadTender, FillCache, SelectPage, Count, Finished
    <3> QED BY <1>1, <1>3, <3>1
  <2> QED BY <2>1, <2>2
<1>5. ASSUME NEW o \in Requests, NEW c \in Calls, Arrive(o, c) PROVE FALSE
  BY <1>1, <1>2, <1>3, <1>5 DEF Arrive, Finished
<1>6. ~Crash
  BY <1>2, <1>3 DEF Crash, Answered
<1>7. ASSUME UNCHANGED vars \/ \E u \in Tenders : ExpireKey(u) PROVE FALSE
  BY <1>3, <1>7 DEF vars, ExpireKey, requestVars
<1> QED BY <1>1, <1>4, <1>5, <1>6, <1>7 DEF Next, Terminated

\* What explains a stale value goes on to explain it.
LEMMA ExplanationKept ==
    ASSUME ReadInv, [Next]_vars, NEW t \in Tenders,
           cache'[t] \in {cache[t], None},
           cache[t] \in Cached => tenders'[t] = tenders[t],
           \A r \in Requests : EntriesOf(r, t)' = EntriesOf(r, t),
           \A r \in Requests : InvalidateCache(r) => call[r].tender # t
    PROVE  StaleExplained(t)'
<1> SUFFICES ASSUME Stale(t)'
             PROVE  \/ cache'[t] \in Cached /\ cache'[t].late
                    \/ cache'[t] = Foreign
                       /\ \A r \in Requests : Answered(r, 200)' => ~Changed(r, t)'
                    \/ RedisMayFail
                    \/ \E r \in Requests : Changed(r, t)' /\ ~Answered(r, 200)'
  BY DEF StaleExplained
<1>1. cache'[t] = cache[t] /\ Stale(t)
  BY DEF Stale
<1>2. \A r \in Requests : Changed(r, t)' <=> Changed(r, t)
  BY DEF Changed
<1>3. \A r \in Requests : Changed(r, t) /\ Answered(r, 200)' => Answered(r, 200)
  BY OnlyInvalidationAnswers DEF ReadInv
<1>4. StaleExplained(t)
  BY DEF ReadInv, StaleCacheExplained, StaleExplained
<1> QED BY <1>1, <1>2, <1>3, <1>4 DEF StaleExplained

LEMMA StaleExplainedStep ==
    ASSUME ReadInv, [Next]_vars, NEW t \in Tenders
    PROVE  StaleExplained(t)'
<1>1. ReplyInv /\ AuditInv
  BY DEF ReadInv, ReplyInv
<1>2. CASE RedisMayFail
  BY <1>2 DEF StaleExplained
<1>3. ASSUME NEW r \in Requests, InvalidateCache(r), call[r].tender = t, ~RedisMayFail
      PROVE  StaleExplained(t)'
  <2>1. cache'[t] = None
    BY <1>1, <1>3 DEF InvalidateCache, InvalidateTender, AuditInv, TypeInv, TypeOK, CacheTypeOK
  <2> QED BY <2>1 DEF StaleExplained, Stale
<1>4. ASSUME NEW r \in Requests, FillCache(r), call[r].tender = t,
             cache'[t] = [row |-> dto[r], late |-> dto[r] # tenders[t]]
      PROVE  StaleExplained(t)'
  <2>1. tenders'[t] = tenders[t] /\ cache'[t] \in Cached
    BY <1>1, <1>4
    DEF FillCache, storeVars, AuditInv, TypeInv, TypeOK, Stages, Stage, StageData, Cached
  <2>2. cache'[t].row = dto[r] /\ cache'[t].late = (dto[r] # tenders[t])
    BY <1>4
  <2> QED BY <2>1, <2>2 DEF StaleExplained, Stale
<1>5. ASSUME NEW r \in Requests, Commits(r), IsUpdate(r), txn[r].key = t
      PROVE  StaleExplained(t)'
  <2>1. Changed(r, t)'
    <3>1. /\ changeLog'[t] = Append(changeLog[t], ChangeEntry(r)) /\ ChangeEntry(r) \in Entry
          /\ changeLog[t] \in Seq(Entry)
      BY <1>1, <1>5, AuditOfUpdate DEF Commits, AuditInv, TypeInv, TypeOK, StoreTypeOK
    <3>2. PICK n \in Nat : n \in DOMAIN changeLog'[t] /\ changeLog'[t][n] = ChangeEntry(r)
      BY <3>1
    <3>3. ChangeEntry(r).request = r
      BY DEF ChangeEntry
    <3> QED BY <3>2, <3>3 DEF Changed, EntriesOf
  <2>2. ~Answered(r, 200)'
    BY <1>1, <1>5
    DEF Commits, CommitTransaction, CommitFails, Answered, AuditInv, TypeInv, TypeOK
  <2> QED BY <2>1, <2>2 DEF StaleExplained
<1>6. ASSUME cache'[t] \in {cache[t], None},
             \A r \in Requests : InvalidateCache(r) => call[r].tender # t,
             \A r \in Requests : Commits(r) => ~IsUpdate(r) \/ txn[r].key # t
      PROVE  StaleExplained(t)'
  <2>1. CASE UNCHANGED <<tenders, changeLog>>
    BY <1>6, <2>1, ExplanationKept DEF EntriesOf
  <2>2. ASSUME NEW r \in Requests, Commits(r) PROVE StaleExplained(t)'
    <3>1. \A o \in Requests : EntriesOf(o, t)' = EntriesOf(o, t)
      BY <1>1, <1>6, <2>2, EntriesAfterCommit DEF Commits
    <3>2. cache[t] \in Cached => tenders[t] # None
      BY DEF ReadInv, CachedVersions, VersionOf
    <3>3. cache[t] \in Cached => tenders'[t] = tenders[t]
      BY <1>1, <1>6, <2>2, <3>2, CommitKeepsOthers, AuditOfCreate, CommittingTxn
      DEF Commits, AuditInv
    <3> QED BY <1>6, <3>1, <3>3, ExplanationKept
  <2> QED BY <2>1, <2>2, OnlyCommitsWrite
<1> QED BY <1>2, <1>3, <1>4, <1>5, <1>6, CacheSteps

LEMMA ReadInvariant == Spec => []ReadInv
<1>1. Init => ReadInv
  BY InitRead
<1>2. ReadInv /\ [Next]_vars => ReadInv'
  <2> SUFFICES ASSUME ReadInv, [Next]_vars PROVE ReadInv'
    OBVIOUS
  <2>1. ReplyInv'
    BY ReplyInvStep DEF ReadInv
  <2>2. StaleCacheExplained'
    BY StaleExplainedStep DEF StaleCacheExplained, StaleExplained
  <2> QED BY <2>1, <2>2, CachedVersionsStep, ReadVersionsStep DEF ReadInv
<1> QED BY <1>1, <1>2, PTL DEF Spec

\* What a get answers with, and what Redis holds, is a version that was committed.
THEOREM ReadsSeeCommitted == Spec => []ReadsAreCommitted
<1>1. ReadInv => ReadsAreCommitted
  BY DEF ReadInv, CachedVersions, ReadVersions, VersionOf, ReadsAreCommitted
<1> QED BY <1>1, ReadInvariant, PTL

\* The cache is out of date only in the ways the design accepts.
THEOREM StaleOnlyAsAccepted == Spec => []StaleCacheExplained
<1>1. ReadInv => StaleCacheExplained
  BY DEF ReadInv
<1> QED BY <1>1, ReadInvariant, PTL
===============================================================================
