---------------------------- MODULE TenderTypeProofs ----------------------------
(***************************************************************************)
(* Type correctness of TenderService, for every set of tenders, requests,  *)
(* users and calls, every pool size and every number of crashes.           *)
(*                                                                         *)
(* TypeOK is not inductive by itself: that a commit writes a row, say, is  *)
(* only so because no request reaches the label "commit" without having    *)
(* inserted or updated one.  Stages says what each label implies of the    *)
(* rest of a request's state; TypeInv, the conjunction, is inductive.      *)
(***************************************************************************)
EXTENDS TenderRequirements, FiniteSetTheorems, SequenceTheorems, TLAPS

-------------------------------------------------------------------------------
(* The inductive invariant *)

Op(r, ops) == call[r] # None /\ call[r].op \in ops

Working == {"insert", "lock", "update", "log", "commit", "read", "list", "history", "count"}

\* r changes a status: it holds the locked row of its tender.
Changing(r) == pc[r] \in {"update", "log"} \/ (pc[r] = "commit" /\ IsUpdate(r))

\* Which operation may be at which label.
StageOp(r) ==
    /\ pc[r] # "idle" => call[r] # None
    /\ pc[r] \in {"lookup", "fill"} => Op(r, {"get"})
    /\ pc[r] = "insert" => Op(r, {"create"})
    /\ pc[r] \in {"lock", "update", "log", "invalidate"} => Op(r, {"update"})
    /\ pc[r] = "commit" => Op(r, {"create", "update"})
    /\ pc[r] = "read" => Op(r, {"get", "history"})
    /\ pc[r] = "list" => Op(r, {"list"})
    /\ pc[r] = "history" => Op(r, {"history"})
    /\ pc[r] = "count" => Op(r, {"list", "history"})

\* Which labels have a transaction, and what is in it.
StageTxn(r) ==
    /\ pc[r] \in Working => txn[r] # None
    /\ pc[r] \notin Working \union {"rollback"} => txn[r] = None
    /\ Changing(r) => txn[r].key = call[r].tender
    /\ pc[r] = "commit" => txn[r].key # None
    /\ pc[r] \in {"log", "commit"} => txn[r].row # None

\* Which labels have a row or a page to work on.
StageData(r) ==
    /\ Changing(r) \/ pc[r] = "fill" => dto[r] # None
    /\ pc[r] = "rollback" /\ Op(r, {"get"}) /\ code[r] = 200 => dto[r] # None
    /\ pc[r] = "count" => page[r] # None

Stage(r) == StageOp(r) /\ StageTxn(r) /\ StageData(r)

Stages == \A r \in Requests : Stage(r)

TypeInv == TypeOK /\ Stages

USE DEF Goto, Decide, Op, IsOp, IsUpdate

-------------------------------------------------------------------------------
(* Lemmas *)

LEMMA CallFields ==
    ASSUME NEW c \in Calls
    PROVE  /\ c # None
           /\ c.op \in {"create", "update", "get", "list", "history"}
           /\ c.op = "create" => c.user \in Users
           /\ c.op = "update" => c.tender \in Tenders /\ c.status \in Status /\ c.user \in Users
           /\ c.op \in {"get", "history"} => c.tender \in Tenders
           /\ c.op \in {"list", "history"} => c.limit \in Nat \ {0} /\ c.offset \in Nat
BY CallsAssumption DEF AnyCall, CreateCall, UpdateCall, GetCall, ListCall, HistoryCall

LEMMA CallOfActive ==
    ASSUME TypeInv, NEW r \in Requests, pc[r] # "idle"
    PROVE  call[r] \in Calls
BY CallFields DEF TypeInv, TypeOK, Stages, Stage, StageOp

LEMMA TxnOfWorking ==
    ASSUME TypeInv, NEW r \in Requests, pc[r] \in Working
    PROVE  txn[r] \in Txn
BY NoTxnAssumption DEF TypeInv, TypeOK, StoreTypeOK, Stages, Stage, StageTxn

\* A step of r that leaves the other requests alone need only keep r in stage.
LEMMA OthersKeepStages ==
    ASSUME Stages, NEW r \in Requests,
           \A o \in Requests \ {r} :
               /\ pc'[o] = pc[o] /\ call'[o] = call[o] /\ txn'[o] = txn[o]
               /\ dto'[o] = dto[o] /\ page'[o] = page[o] /\ code'[o] = code[o],
           Stage(r)'
    PROVE  Stages'
<1> SUFFICES ASSUME NEW o \in Requests PROVE Stage(o)'
  BY DEF Stages
<1>1. CASE o = r
  BY <1>1
<1>2. CASE o # r
  BY <1>2 DEF Stages, Stage, StageOp, StageTxn, StageData, Changing
<1> QED BY <1>1, <1>2

\* A statement that writes leaves everything of the store but its transaction.
LEMMA StatementTypes ==
    ASSUME TypeInv, NEW r \in Requests, NEW w \in Txn,
           txn' = [txn EXCEPT ![r] = w], UNCHANGED <<tenders, changeLog, clock>>
    PROVE  /\ StoreTypeOK'
           /\ txn'[r] = w /\ txn'[r] # None
           /\ \A o \in Requests \ {r} : txn'[o] = txn[o]
BY NoTxnAssumption DEF TypeInv, TypeOK, StoreTypeOK

LEMMA RollbackTypes ==
    ASSUME TypeInv, NEW r \in Requests, Rollback(r)
    PROVE  /\ StoreTypeOK'
           /\ txn'[r] = None
           /\ \A o \in Requests \ {r} : txn'[o] = txn[o]
BY DEF TypeInv, TypeOK, StoreTypeOK, Rollback

\* Everything of the store keeps its type when a transaction commits.
LEMMA CommitTypes ==
    ASSUME TypeInv, NEW r \in Requests, pc[r] = "commit", Commit(r)
    PROVE  /\ StoreTypeOK'
           /\ txn'[r] = None
           /\ \A o \in Requests \ {r} : txn'[o] = txn[o]
<1>1. txn[r] \in Txn /\ txn[r].row \in Row /\ txn[r].key \in Tenders
  BY TxnOfWorking DEF TypeInv, Stages, Stage, StageTxn, Working, Txn
<1>2. tenders' \in [Tenders -> Row \union {None}]
  BY <1>1 DEF Commit, TypeInv, TypeOK, StoreTypeOK
<1>3. changeLog' \in [Tenders -> Seq(Entry)]
  <2>1. CASE txn[r].entry = None
    BY <2>1 DEF Commit, TypeInv, TypeOK, StoreTypeOK
  <2>2. CASE txn[r].entry # None
    <3>1. txn[r].entry \in Entry
      BY <1>1, <2>2 DEF Txn
    <3>2. Append(changeLog[txn[r].key], txn[r].entry) \in Seq(Entry)
      BY <1>1, <3>1 DEF TypeInv, TypeOK, StoreTypeOK
    <3> QED BY <1>1, <2>2, <3>2 DEF Commit, TypeInv, TypeOK, StoreTypeOK
  <2> QED BY <2>1, <2>2
<1> QED BY <1>2, <1>3 DEF Commit, TypeInv, TypeOK, StoreTypeOK

LEMMA InitTypes == Init => TypeInv
  BY SeedAssumption, FailureAssumption, NoneAssumption, RedisAssumption
  DEF Init, StoreInit, CacheInit, TypeInv, TypeOK, StoreTypeOK, CacheTypeOK, Stages, Stage,
      StageOp, StageTxn, StageData, Changing, NewRow, Row, Status, Labels, Working

-------------------------------------------------------------------------------
(* One lemma per action *)

LEMMA BeginTypes ==
    ASSUME TypeInv, NEW r \in Requests, Begin(r)
    PROVE  TypeInv'
<1>1. call[r] \in Calls
  BY CallOfActive DEF Begin
<1>2. TypeOK'
  BY <1>1, CallFields, NoneAssumption, NoTxnAssumption
  DEF Begin, OpenTransaction, FirstStatement, Txn, TypeInv, TypeOK, StoreTypeOK,
      CacheTypeOK, Labels, Codes
<1>3. Stages'
  BY <1>1, CallFields, NoneAssumption, NoTxnAssumption
  DEF Begin, OpenTransaction, FirstStatement, Txn, TypeInv, TypeOK, StoreTypeOK, Stages,
      Stage, StageOp, StageTxn, StageData, Changing, Working
<1> QED BY <1>2, <1>3 DEF TypeInv

LEMMA NoConnectionTypes ==
    ASSUME TypeInv, NEW r \in Requests, NoConnection(r)
    PROVE  TypeInv'
<1>1. call[r] \in Calls
  BY CallOfActive DEF NoConnection
<1>2. TypeOK'
  BY <1>1, CallFields
  DEF NoConnection, storeVars, TypeInv, TypeOK, StoreTypeOK, CacheTypeOK, Labels, Codes
<1>3. Stages'
  BY <1>1, CallFields
  DEF NoConnection, storeVars, TypeInv, TypeOK, StoreTypeOK, Stages, Stage, StageOp,
      StageTxn, StageData, Changing, Working
<1> QED BY <1>2, <1>3 DEF TypeInv

LEMMA StatementFailsTypes ==
    ASSUME TypeInv, NEW r \in Requests, StatementFails(r)
    PROVE  TypeInv'
<1>1. call[r] \in Calls
  BY CallOfActive DEF StatementFails
<1>2. TypeOK'
  BY <1>1, CallFields
  DEF StatementFails, storeVars, TypeInv, TypeOK, StoreTypeOK, CacheTypeOK, Labels, Codes
<1>3. Stages'
  BY <1>1, CallFields
  DEF StatementFails, storeVars, TypeInv, TypeOK, StoreTypeOK, Stages, Stage, StageOp,
      StageTxn, StageData, Changing, Working
<1> QED BY <1>2, <1>3 DEF TypeInv

LEMMA CreateTenderTypes ==
    ASSUME TypeInv, NEW r \in Requests, CreateTender(r)
    PROVE  TypeInv'
<1>1. call[r] \in Calls /\ txn[r] \in Txn
  BY CallOfActive, TxnOfWorking DEF CreateTender, Working
<1>2. call[r].user \in Users
  BY <1>1, CallFields DEF CreateTender, TypeInv, Stages, Stage, StageOp
<1>3. PICK t \in Tenders : AddTender(r, t, call[r].user)
  BY DEF CreateTender
<1> DEFINE w == [txn[r] EXCEPT !.key = t, !.row = NewRow(call[r].user, txn[r].now)]
<1>4. w \in Txn
  BY <1>1, <1>2 DEF Txn, NewRow, Row, Entry, Status
<1>5. txn' = [txn EXCEPT ![r] = w] /\ UNCHANGED <<tenders, changeLog, clock>>
  BY <1>3 DEF CreateTender, AddTender, TypeInv, TypeOK, StoreTypeOK
<1>6. w.key # None /\ w.row # None
  BY <1>1, <1>2, NoneAssumption DEF Txn, NewRow, Row, Status
<1> HIDE DEF w
<1>7. /\ StoreTypeOK' /\ txn'[r] = w /\ txn'[r] # None
      /\ \A o \in Requests \ {r} : txn'[o] = txn[o]
  BY <1>4, <1>5, StatementTypes
<1>8. TypeOK'
  BY <1>2, <1>7 DEF CreateTender, TypeInv, TypeOK, CacheTypeOK, Labels, Codes
<1>9. Stage(r)'
  BY <1>1, <1>2, <1>6, <1>7 DEF CreateTender, TypeInv, TypeOK, Stages, Stage, StageOp,
      StageTxn, StageData, Changing, Working
<1>10. Stages'
  BY <1>7, <1>9, OthersKeepStages DEF CreateTender, TypeInv, TypeOK
<1> QED BY <1>8, <1>10 DEF TypeInv

LEMMA TenderNotFoundTypes ==
    ASSUME TypeInv, NEW r \in Requests, TenderNotFound(r)
    PROVE  TypeInv'
<1>1. call[r] \in Calls
  BY CallOfActive DEF TenderNotFound
<1>2. TypeOK'
  BY <1>1, CallFields
  DEF TenderNotFound, storeVars, TypeInv, TypeOK, StoreTypeOK, CacheTypeOK, Labels, Codes
<1>3. Stages'
  BY <1>1, CallFields
  DEF TenderNotFound, storeVars, TypeInv, TypeOK, StoreTypeOK, Stages, Stage, StageOp,
      StageTxn, StageData, Changing, Working
<1> QED BY <1>2, <1>3 DEF TypeInv

LEMMA LockTenderTypes ==
    ASSUME TypeInv, NEW r \in Requests, LockTender(r)
    PROVE  TypeInv'
<1>1. call[r] \in Calls /\ txn[r] \in Txn
  BY CallOfActive, TxnOfWorking DEF LockTender, Working
<1>2. call[r].tender \in Tenders /\ tenders[call[r].tender] \in Row
  BY <1>1, CallFields
  DEF LockTender, GetByIdForUpdate, TypeInv, TypeOK, StoreTypeOK, Stages, Stage, StageOp
<1> DEFINE w == [txn[r] EXCEPT !.key = call[r].tender]
<1>3. w \in Txn
  BY <1>1, <1>2 DEF Txn, NewRow, Row, Entry, Status
<1>4. txn' = [txn EXCEPT ![r] = w] /\ UNCHANGED <<tenders, changeLog, clock>>
  BY DEF LockTender, GetByIdForUpdate, TypeInv, TypeOK, StoreTypeOK
<1>5. w.key = call[r].tender /\ tenders[call[r].tender] # None
  BY <1>1, <1>2, NoneAssumption DEF Txn, NewRow, Row, Status
<1> HIDE DEF w
<1>6. /\ StoreTypeOK' /\ txn'[r] = w /\ txn'[r] # None
      /\ \A o \in Requests \ {r} : txn'[o] = txn[o]
  BY <1>3, <1>4, StatementTypes
<1>7. TypeOK'
  BY <1>2, <1>6 DEF LockTender, TypeInv, TypeOK, CacheTypeOK, Labels, Codes
<1>8. Stage(r)'
  BY <1>1, <1>2, <1>5, <1>6 DEF LockTender, TypeInv, TypeOK, Stages, Stage, StageOp,
      StageTxn, StageData, Changing, Working
<1>9. Stages'
  BY <1>6, <1>8, OthersKeepStages DEF LockTender, TypeInv, TypeOK
<1> QED BY <1>7, <1>9 DEF TypeInv

LEMMA WriteStatusTypes ==
    ASSUME TypeInv, NEW r \in Requests, WriteStatus(r)
    PROVE  TypeInv'
<1>1. call[r] \in Calls /\ txn[r] \in Txn
  BY CallOfActive, TxnOfWorking DEF WriteStatus, Working
<1>2. /\ call[r].tender \in Tenders /\ call[r].status \in Status /\ call[r].user \in Users
      /\ dto[r] \in Row /\ txn[r].key = call[r].tender
  BY <1>1, CallFields
  DEF WriteStatus, TypeInv, TypeOK, Stages, Stage, StageOp, StageTxn, StageData, Changing
<1> DEFINE w == [txn[r] EXCEPT !.row = [dto[r] EXCEPT !.status = call[r].status,
                                                  !.updatedBy = call[r].user,
                                                  !.updatedAt = txn[r].now]]
<1>3. w \in Txn
  BY <1>1, <1>2 DEF Txn, NewRow, Row, Entry, Status
<1>4. txn' = [txn EXCEPT ![r] = w] /\ UNCHANGED <<tenders, changeLog, clock>>
  BY DEF WriteStatus, UpdateStatus, TypeInv, TypeOK, StoreTypeOK
<1>5. w.key = call[r].tender /\ w.row # None
  BY <1>1, <1>2, NoneAssumption DEF Txn, NewRow, Row, Status
<1> HIDE DEF w
<1>6. /\ StoreTypeOK' /\ txn'[r] = w /\ txn'[r] # None
      /\ \A o \in Requests \ {r} : txn'[o] = txn[o]
  BY <1>3, <1>4, StatementTypes
<1>7. TypeOK'
  BY <1>2, <1>6 DEF WriteStatus, TypeInv, TypeOK, CacheTypeOK, Labels, Codes
<1>8. Stage(r)'
  BY <1>1, <1>2, <1>5, <1>6 DEF WriteStatus, TypeInv, TypeOK, Stages, Stage, StageOp,
      StageTxn, StageData, Changing, Working
<1>9. Stages'
  BY <1>6, <1>8, OthersKeepStages DEF WriteStatus, TypeInv, TypeOK
<1> QED BY <1>7, <1>9 DEF TypeInv

LEMMA WriteChangeLogTypes ==
    ASSUME TypeInv, NEW r \in Requests, WriteChangeLog(r)
    PROVE  TypeInv'
<1>1. call[r] \in Calls /\ txn[r] \in Txn
  BY CallOfActive, TxnOfWorking DEF WriteChangeLog, Working
<1>2. /\ call[r].tender \in Tenders /\ call[r].status \in Status /\ call[r].user \in Users
      /\ dto[r] \in Row /\ txn[r].key = call[r].tender /\ txn[r].row # None
  BY <1>1, CallFields
  DEF WriteChangeLog, TypeInv, TypeOK, Stages, Stage, StageOp, StageTxn, StageData, Changing
<1> DEFINE w == [txn[r] EXCEPT !.entry = [old |-> dto[r].status, new |-> call[r].status,
                                            changedBy |-> call[r].user,
                                            changedAt |-> txn[r].now, request |-> r]]
<1>3. w \in Txn
  BY <1>1, <1>2 DEF Txn, NewRow, Row, Entry, Status
<1>4. txn' = [txn EXCEPT ![r] = w] /\ UNCHANGED <<tenders, changeLog, clock>>
  BY DEF WriteChangeLog, AddChangeLog, TypeInv, TypeOK, StoreTypeOK
<1>5. w.key = call[r].tender /\ w.key # None /\ w.row # None
  BY <1>1, <1>2, NoneAssumption DEF Txn, NewRow, Row, Status
<1> HIDE DEF w
<1>6. /\ StoreTypeOK' /\ txn'[r] = w /\ txn'[r] # None
      /\ \A o \in Requests \ {r} : txn'[o] = txn[o]
  BY <1>3, <1>4, StatementTypes
<1>7. TypeOK'
  BY <1>2, <1>6 DEF WriteChangeLog, TypeInv, TypeOK, CacheTypeOK, Labels, Codes
<1>8. Stage(r)'
  BY <1>1, <1>2, <1>5, <1>6 DEF WriteChangeLog, TypeInv, TypeOK, Stages, Stage, StageOp,
      StageTxn, StageData, Changing, Working
<1>9. Stages'
  BY <1>6, <1>8, OthersKeepStages DEF WriteChangeLog, TypeInv, TypeOK
<1> QED BY <1>7, <1>9 DEF TypeInv

LEMMA CommitTransactionTypes ==
    ASSUME TypeInv, NEW r \in Requests, CommitTransaction(r)
    PROVE  TypeInv'
<1>1. call[r] \in Calls
  BY CallOfActive DEF CommitTransaction
<1>2. /\ StoreTypeOK' /\ txn'[r] = None
      /\ \A o \in Requests \ {r} : txn'[o] = txn[o]
  BY CommitTypes DEF CommitTransaction
<1>3. txn[r].row \in Row
  BY TxnOfWorking DEF CommitTransaction, TypeInv, Stages, Stage, StageTxn, Working, Txn
<1>4. TypeOK'
  BY <1>1, <1>2, <1>3 DEF CommitTransaction, TypeInv, TypeOK, CacheTypeOK, Labels, Codes
<1>5. Stage(r)'
  BY <1>1, <1>2, <1>3, CallFields DEF CommitTransaction, TypeInv, TypeOK, Stages, Stage,
      StageOp, StageTxn, StageData, Changing, Working
<1>6. Stages'
  BY <1>2, <1>5, OthersKeepStages DEF CommitTransaction, TypeInv, TypeOK
<1> QED BY <1>4, <1>6 DEF TypeInv

LEMMA RollbackTransactionTypes ==
    ASSUME TypeInv, NEW r \in Requests, RollbackTransaction(r)
    PROVE  TypeInv'
<1>1. call[r] \in Calls
  BY CallOfActive DEF RollbackTransaction
<1>2. /\ StoreTypeOK' /\ txn'[r] = None
      /\ \A o \in Requests \ {r} : txn'[o] = txn[o]
  BY RollbackTypes DEF RollbackTransaction
<1>3. TypeOK'
  BY <1>1, <1>2 DEF RollbackTransaction, TypeInv, TypeOK, CacheTypeOK, Labels, Codes
<1>4. Stage(r)'
  BY <1>1, <1>2, CallFields DEF RollbackTransaction, TypeInv, TypeOK, Stages, Stage,
      StageOp, StageTxn, StageData, Changing, Working
<1>5. Stages'
  BY <1>2, <1>4, OthersKeepStages DEF RollbackTransaction, TypeInv, TypeOK
<1> QED BY <1>3, <1>5 DEF TypeInv

LEMMA RollbackFailsTypes ==
    ASSUME TypeInv, NEW r \in Requests, RollbackFails(r)
    PROVE  TypeInv'
<1>1. call[r] \in Calls
  BY CallOfActive DEF RollbackFails
<1>2. /\ StoreTypeOK' /\ txn'[r] = None
      /\ \A o \in Requests \ {r} : txn'[o] = txn[o]
  BY RollbackTypes DEF RollbackFails
<1>3. TypeOK'
  BY <1>1, <1>2 DEF RollbackFails, TypeInv, TypeOK, CacheTypeOK, Labels, Codes
<1>4. Stage(r)'
  BY <1>1, <1>2, CallFields DEF RollbackFails, TypeInv, TypeOK, Stages, Stage, StageOp,
      StageTxn, StageData, Changing, Working
<1>5. Stages'
  BY <1>2, <1>4, OthersKeepStages DEF RollbackFails, TypeInv, TypeOK
<1> QED BY <1>3, <1>5 DEF TypeInv

LEMMA CommitFailsTypes ==
    ASSUME TypeInv, NEW r \in Requests, CommitFails(r)
    PROVE  TypeInv'
<1>1. call[r] \in Calls
  BY CallOfActive DEF CommitFails
<1>2. StoreTypeOK' /\ \A o \in Requests \ {r} : txn'[o] = txn[o]
  <2>1. CASE Commit(r)
    BY <2>1, CommitTypes DEF CommitFails
  <2>2. CASE UNCHANGED storeVars
    BY <2>2 DEF storeVars, TypeInv, TypeOK, StoreTypeOK
  <2> QED BY <2>1, <2>2 DEF CommitFails
<1>3. TypeOK'
  BY <1>2 DEF CommitFails, TypeInv, TypeOK, CacheTypeOK, Labels, Codes
<1>4. Stage(r)'
  BY <1>1, <1>2, CallFields DEF CommitFails, TypeInv, TypeOK, Stages, Stage, StageOp,
      StageTxn, StageData, Changing, Working
<1>5. Stages'
  BY <1>2, <1>4, OthersKeepStages DEF CommitFails, TypeInv, TypeOK
<1> QED BY <1>3, <1>5 DEF TypeInv

LEMMA InvalidateCacheTypes ==
    ASSUME TypeInv, NEW r \in Requests, InvalidateCache(r)
    PROVE  TypeInv'
<1>1. call[r] \in Calls
  BY CallOfActive DEF InvalidateCache
<1>2. TypeOK'
  BY <1>1, CallFields
  DEF InvalidateCache, storeVars, InvalidateTender, TypeInv, TypeOK, StoreTypeOK,
      CacheTypeOK, Labels, Codes
<1>3. Stages'
  BY <1>1, CallFields
  DEF InvalidateCache, storeVars, InvalidateTender, TypeInv, TypeOK, StoreTypeOK, Stages,
      Stage, StageOp, StageTxn, StageData, Changing, Working
<1> QED BY <1>2, <1>3 DEF TypeInv

LEMMA CacheHitTypes ==
    ASSUME TypeInv, NEW r \in Requests, CacheHit(r)
    PROVE  TypeInv'
<1>1. call[r] \in Calls
  BY CallOfActive DEF CacheHit
<1>2. call[r].tender \in Tenders
  BY <1>1, CallFields DEF CacheHit, TypeInv, Stages, Stage, StageOp
<1>3. cache[call[r].tender].row \in Row
  BY DEF CacheHit, Hit, Cached
<1>4. TypeOK'
  BY <1>1, CallFields, NoneAssumption, <1>2, <1>3
  DEF CacheHit, storeVars, TypeInv, TypeOK, StoreTypeOK, CacheTypeOK, Labels, Codes
<1>5. Stages'
  BY <1>1, CallFields, NoneAssumption, <1>2, <1>3
  DEF CacheHit, storeVars, TypeInv, TypeOK, StoreTypeOK, Stages, Stage, StageOp, StageTxn,
      StageData, Changing, Working
<1> QED BY <1>4, <1>5 DEF TypeInv

LEMMA CacheUnreadableTypes ==
    ASSUME TypeInv, NEW r \in Requests, CacheUnreadable(r)
    PROVE  TypeInv'
<1>1. call[r] \in Calls
  BY CallOfActive DEF CacheUnreadable
<1>2. TypeOK'
  BY <1>1, CallFields
  DEF CacheUnreadable, storeVars, TypeInv, TypeOK, StoreTypeOK, CacheTypeOK, Labels, Codes
<1>3. Stages'
  BY <1>1, CallFields
  DEF CacheUnreadable, storeVars, TypeInv, TypeOK, StoreTypeOK, Stages, Stage, StageOp,
      StageTxn, StageData, Changing, Working
<1> QED BY <1>2, <1>3 DEF TypeInv

LEMMA CacheMissTypes ==
    ASSUME TypeInv, NEW r \in Requests, CacheMiss(r)
    PROVE  TypeInv'
<1>1. call[r] \in Calls
  BY CallOfActive DEF CacheMiss
<1>2. TypeOK'
  BY <1>1, CallFields
  DEF CacheMiss, storeVars, TypeInv, TypeOK, StoreTypeOK, CacheTypeOK, Labels, Codes
<1>3. Stages'
  BY <1>1, CallFields
  DEF CacheMiss, storeVars, TypeInv, TypeOK, StoreTypeOK, Stages, Stage, StageOp, StageTxn,
      StageData, Changing, Working
<1> QED BY <1>2, <1>3 DEF TypeInv

LEMMA ReadTenderTypes ==
    ASSUME TypeInv, NEW r \in Requests, ReadTender(r)
    PROVE  TypeInv'
<1>1. call[r] \in Calls
  BY CallOfActive DEF ReadTender
<1>2. call[r].tender \in Tenders /\ tenders[call[r].tender] \in Row
  BY <1>1, CallFields DEF ReadTender, TypeInv, TypeOK, StoreTypeOK, Stages, Stage, StageOp
<1>3. dto' \in [Requests -> Row \union {None}] /\ code' \in [Requests -> Codes \union {None}]
  BY <1>2 DEF ReadTender, TypeInv, TypeOK, Codes
<1>4. TypeOK'
  BY <1>3 DEF ReadTender, storeVars, TypeInv, TypeOK, StoreTypeOK, CacheTypeOK, Labels
<1>5. Stage(r)'
  BY <1>1, <1>2 DEF ReadTender, storeVars, TypeInv, TypeOK, Stages, Stage, StageOp,
      StageTxn, StageData, Changing, Working
<1>6. Stages'
  BY <1>5, OthersKeepStages DEF ReadTender, storeVars, TypeInv, TypeOK
<1> QED BY <1>4, <1>6 DEF TypeInv

LEMMA FillCacheTypes ==
    ASSUME TypeInv, NEW r \in Requests, FillCache(r)
    PROVE  TypeInv'
<1>1. call[r] \in Calls
  BY CallOfActive DEF FillCache
<1>2. call[r].tender \in Tenders
  BY <1>1, CallFields DEF FillCache, TypeInv, Stages, Stage, StageOp
<1>3. [row |-> dto[r], late |-> dto[r] # tenders[call[r].tender]] \in Cached
  BY DEF FillCache, TypeInv, TypeOK, Stages, Stage, StageData, Cached
<1>4. CacheTypeOK'
  BY <1>2, <1>3 DEF FillCache, SetTender, TypeInv, TypeOK, CacheTypeOK
<1>5. TypeOK'
  BY <1>1, CallFields, <1>4
  DEF FillCache, storeVars, TypeInv, TypeOK, StoreTypeOK, Labels, Codes
<1>6. Stages'
  BY <1>1, CallFields, <1>4
  DEF FillCache, storeVars, TypeInv, TypeOK, StoreTypeOK, Stages, Stage, StageOp, StageTxn,
      StageData, Changing, Working
<1> QED BY <1>5, <1>6 DEF TypeInv

\* The number of rows a list selects is a number, as there are finitely many ids.
LEMMA MatchingFinite ==
    ASSUME NEW s
    PROVE  Cardinality(Matching(s)) \in Nat
BY TendersAssumption, FS_Subset, FS_CardinalityType DEF Matching

LEMMA NewestFirstType ==
    ASSUME NEW S, IsFiniteSet(S), NEW time, DOMAIN time = S, NEW s \in NewestFirst(time)
    PROVE  /\ Cardinality(S) \in Nat
           /\ s \in [1 .. Cardinality(S) -> S]
BY FS_CardinalityType DEF NewestFirst, Injection

\* A page of a sequence is a sequence of the same elements.
LEMMA PageOfType ==
    ASSUME NEW S, NEW s \in Seq(S), NEW limit \in Nat \ {0}, NEW offset \in Nat
    PROVE  PageOf(s, limit, offset) \in Seq(S)
<1> DEFINE end == IF offset + limit < Len(s) THEN offset + limit ELSE Len(s)
<1>1. CASE offset <= Len(s)
  <2>1. offset + 1 \in 1 .. Len(s) + 1 /\ end \in offset + 1 - 1 .. Len(s)
    BY <1>1
  <2> QED BY <2>1, SubSeqProperties DEF PageOf
<1>2. CASE offset > Len(s)
  <2>1. end < offset + 1 /\ end \in Int /\ offset + 1 \in Int
    BY <1>2
  <2> QED BY <2>1, SubSeqEmpty DEF PageOf
<1> QED BY <1>1, <1>2

LEMMA SelectedType ==
    ASSUME TypeInv, NEW r \in Requests, pc[r] \in {"list", "history"}, NEW all \in Selected(r)
    PROVE  all \in Seq(Tenders \union Entry)
<1>1. call[r] \in Calls
  BY CallOfActive
<1>2. CASE pc[r] = "list"
  <2> DEFINE S == Matching(call[r].status)
  <2>1. all \in NewestFirst([t \in S |-> tenders[t].createdAt])
    BY <1>1, <1>2, CallFields
    DEF Selected, TendersInOrder, TypeInv, Stages, Stage, StageOp
  <2>2. IsFiniteSet(S) /\ S \subseteq Tenders
    BY TendersAssumption, FS_Subset DEF Matching
  <2> HIDE DEF S
  <2>3. Cardinality(S) \in Nat /\ all \in [1 .. Cardinality(S) -> S]
    BY <2>1, <2>2, NewestFirstType
  <2> QED BY <2>2, <2>3
<1>3. CASE pc[r] = "history"
  <2> DEFINE log == changeLog[call[r].tender]
  <2>1. log \in Seq(Entry)
    BY <1>1, <1>3, CallFields DEF TypeInv, TypeOK, StoreTypeOK, Stages, Stage, StageOp
  <2>2. PICK s \in NewestFirst([i \in DOMAIN log |-> log[i].changedAt]) :
            all = [k \in DOMAIN s |-> log[s[k]]]
    BY <1>1, <1>3, CallFields
    DEF Selected, HistoryInOrder, TypeInv, Stages, Stage, StageOp
  <2> HIDE DEF log
  <2>3. IsFiniteSet(DOMAIN log)
    BY <2>1, FS_Interval
  <2>4. Cardinality(DOMAIN log) \in Nat /\ s \in [1 .. Cardinality(DOMAIN log) -> DOMAIN log]
    BY <2>3, NewestFirstType
  <2>5. \A k \in DOMAIN s : log[s[k]] \in Entry
    BY <2>1, <2>4
  <2>6. all \in [1 .. Cardinality(DOMAIN log) -> Entry]
    BY <2>2, <2>4, <2>5
  <2> QED BY <2>4, <2>6
<1> QED BY <1>2, <1>3, NoneAssumption

LEMMA SelectPageTypes ==
    ASSUME TypeInv, NEW r \in Requests, SelectPage(r)
    PROVE  TypeInv'
<1>1. call[r] \in Calls /\ call[r].limit \in Nat \ {0} /\ call[r].offset \in Nat
  BY CallOfActive, CallFields DEF SelectPage, TypeInv, Stages, Stage, StageOp
<1>2. PICK all \in Selected(r) :
          \/ /\ page' = [page EXCEPT ![r] = [items |-> PageFor(r, all), total |-> Len(all)]]
             /\ Decide(r, 200) /\ Goto(r, "rollback")
          \/ /\ page' = [page EXCEPT ![r] = [items |-> <<>>, total |-> 0]]
             /\ Goto(r, "count") /\ UNCHANGED code
  BY DEF SelectPage
<1>3. /\ pc[r] \in {"list", "history"}
      /\ UNCHANGED <<storeVars, cache, call, dto, preceding, crashes>>
  BY DEF SelectPage
<1>4. all \in Seq(Tenders \union Entry) /\ PageFor(r, all) \in Seq(Tenders \union Entry)
  BY <1>1, SelectedType, PageOfType, <1>3 DEF PageFor
<1>5. PICK p \in Page : page' = [page EXCEPT ![r] = p]
  <2>1. [items |-> PageFor(r, all), total |-> Len(all)] \in Page
    BY <1>4 DEF Page
  <2>2. [items |-> <<>>, total |-> 0] \in Page
    BY DEF Page
  <2> QED BY <1>2, <2>1, <2>2
<1>6. page' \in [Requests -> Page \union {None}] /\ page'[r] \in Page
  BY <1>5 DEF TypeInv, TypeOK
<1>7. /\ \A o \in Requests \ {r} : page'[o] = page[o]
      /\ \/ Decide(r, 200) /\ Goto(r, "rollback")
         \/ Goto(r, "count") /\ UNCHANGED code
  BY <1>2, <1>5 DEF TypeInv, TypeOK
<1>8. pc' \in [Requests -> Labels] /\ code' \in [Requests -> Codes \union {None}]
  BY <1>7 DEF TypeInv, TypeOK, Labels, Codes
<1>9. TypeOK'
  BY <1>8, <1>6, <1>3 DEF storeVars, TypeInv, TypeOK, StoreTypeOK, CacheTypeOK, Labels,
      Codes
<1>10. Stage(r)'
  BY <1>1, <1>7, <1>6, <1>3, NoPageAssumption
  DEF storeVars, TypeInv, TypeOK, Stages, Stage, StageOp, StageTxn, StageData, Changing,
      Working
<1>11. Stages'
  BY <1>7, <1>10, <1>3, OthersKeepStages DEF storeVars, TypeInv, TypeOK
<1> QED BY <1>9, <1>11 DEF TypeInv

LEMMA CountTypes ==
    ASSUME TypeInv, NEW r \in Requests, Count(r)
    PROVE  TypeInv'
<1>1. call[r] \in Calls /\ page[r] \in Page
  BY CallOfActive DEF Count, TypeInv, TypeOK, Stages, Stage, StageData
<1> DEFINE n == IF call[r].op = "list" THEN Cardinality(Matching(call[r].status))
                                       ELSE Len(changeLog[call[r].tender])
<1>2. n \in Nat
  <2>1. call[r].op = "history" => changeLog[call[r].tender] \in Seq(Entry)
    BY <1>1, CallFields DEF TypeInv, TypeOK, StoreTypeOK
  <2>2. call[r].op \in {"list", "history"}
    BY DEF Count, TypeInv, Stages, Stage, StageOp
  <2>3. CASE call[r].op = "list"
    BY <2>3, MatchingFinite
  <2>4. CASE call[r].op = "history"
    BY <2>1, <2>4
  <2> QED BY <2>2, <2>3, <2>4
<1>3. page' = [page EXCEPT ![r] = [page[r] EXCEPT !.total = n]]
  BY DEF Count, TypeInv, TypeOK
<1> HIDE DEF n
<1>4. page' \in [Requests -> Page \union {None}]
  BY <1>1, <1>2, <1>3 DEF Page, TypeInv, TypeOK
<1>5. TypeOK'
  BY <1>4 DEF Count, storeVars, TypeInv, TypeOK, StoreTypeOK, CacheTypeOK, Labels, Codes
<1>6. Stage(r)'
  BY <1>1 DEF Count, storeVars, TypeInv, TypeOK, Stages, Stage, StageOp, StageTxn,
      StageData, Changing, Working
<1>7. Stages'
  BY <1>3, <1>6, OthersKeepStages DEF Count, storeVars, TypeInv, TypeOK
<1> QED BY <1>5, <1>7 DEF TypeInv

LEMMA ArriveTypes ==
    ASSUME TypeInv, NEW r \in Requests, NEW c \in Calls, Arrive(r, c)
    PROVE  TypeInv'
<1>1. c # None /\ c.op \in {"create", "update", "get", "list", "history"}
  BY CallFields
<1>2. TypeOK'
  BY DEF Arrive, storeVars, TypeInv, TypeOK, StoreTypeOK, CacheTypeOK, Labels
<1>3. Stage(r)'
  BY <1>1 DEF Arrive, storeVars, TypeInv, TypeOK, Stages, Stage, StageOp, StageTxn,
      StageData, Changing, Working
<1>4. Stages'
  BY <1>3, OthersKeepStages DEF Arrive, storeVars, TypeInv, TypeOK
<1> QED BY <1>2, <1>4 DEF TypeInv

LEMMA CrashTypes ==
    ASSUME TypeInv, Crash
    PROVE  TypeInv'
<1>1. TypeOK'
  BY FailureAssumption DEF Crash, RollbackAll, TypeInv, TypeOK, StoreTypeOK, CacheTypeOK,
      Labels
<1>2. Stages'
  BY DEF Crash, RollbackAll, Finished, TypeInv, TypeOK, StoreTypeOK, Stages, Stage,
      StageOp, StageTxn, StageData, Changing, Working
<1> QED BY <1>1, <1>2 DEF TypeInv

LEMMA UnchangedTypes ==
    ASSUME TypeInv, UNCHANGED <<storeVars, requestVars, crashes>>, CacheTypeOK'
    PROVE  TypeInv'
BY DEF storeVars, requestVars, TypeInv, TypeOK, StoreTypeOK, Stages, Stage, StageOp,
      StageTxn, StageData, Changing, Working

-------------------------------------------------------------------------------
(* The theorem *)

\* TypeInv is preserved by every step; used by every later proof.
LEMMA TypeInvStep == TypeInv /\ [Next]_vars => TypeInv'
<1> SUFFICES ASSUME TypeInv, [Next]_vars PROVE TypeInv'
  OBVIOUS
<1>1. ASSUME NEW r \in Requests, Step(r) PROVE TypeInv'
  BY <1>1, BeginTypes, NoConnectionTypes, StatementFailsTypes, CreateTenderTypes,
     TenderNotFoundTypes, LockTenderTypes, WriteStatusTypes, WriteChangeLogTypes,
     CommitTransactionTypes, CommitFailsTypes, InvalidateCacheTypes, CacheHitTypes,
     CacheUnreadableTypes, CacheMissTypes, ReadTenderTypes, FillCacheTypes, SelectPageTypes,
     CountTypes, RollbackTransactionTypes, RollbackFailsTypes DEF Step
<1>2. ASSUME NEW r \in Requests, NEW c \in Calls, Arrive(r, c) PROVE TypeInv'
  BY <1>2, ArriveTypes
<1>3. ASSUME NEW t \in Tenders, ExpireKey(t) PROVE TypeInv'
  <2>1. CacheTypeOK'
    BY <1>3 DEF ExpireKey, Expire, TypeInv, TypeOK, CacheTypeOK
  <2> QED BY <1>3, <2>1, UnchangedTypes DEF ExpireKey
<1>4. CASE Crash
  BY <1>4, CrashTypes
<1>5. CASE UNCHANGED vars
  BY <1>5, UnchangedTypes DEF vars, TypeInv, TypeOK, CacheTypeOK
<1> QED BY <1>1, <1>2, <1>3, <1>4, <1>5 DEF Next, Terminated

\* Every variable keeps its type in every reachable state, whatever fails.
THEOREM TypeCorrect == Spec => []TypeOK
<1>1. Init => TypeInv
  BY InitTypes
<1>2. TypeInv /\ [Next]_vars => TypeInv'
  BY TypeInvStep
<1>3. TypeInv => TypeOK
  BY DEF TypeInv
<1> QED BY <1>1, <1>2, <1>3, PTL DEF Spec
===============================================================================
