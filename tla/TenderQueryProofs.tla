--------------------------- MODULE TenderQueryProofs ---------------------------
(***************************************************************************)
(* Lists and histories: a page fits its total, and a query sees what was   *)
(* answered before it arrived, for every value of the constants.           *)
(*                                                                         *)
(* The total is counted in one step of the query, and may be old when it   *)
(* is answered; the answers it has to count are those of requests that     *)
(* were done when it arrived, and stay as they are (PrecedingDone).  At    *)
(* the count itself every update answered 200 has an entry of its own in   *)
(* the log (ReplyInv), and the tenders are at least as many as the         *)
(* creations answered 201 (CreationsExist).                                *)
(***************************************************************************)
EXTENDS TenderReplyProofs

-------------------------------------------------------------------------------
(* The inductive invariant *)

IsQuery(r) == IsOp(r, "list") \/ IsOp(r, "history")

\* The changes of its tender, and the creations, r was preceded by.
ToldChanges(r) ==
    {o \in preceding[r] : IsUpdate(o) /\ Answered(o, 200) /\ call[o].tender = call[r].tender}
ToldCreations(r) == {o \in preceding[r] : IsOp(o, "create") /\ Answered(o, 201)}

Created == {o \in Requests : IsOp(o, "create") /\ Answered(o, 201)}
Existing == {t \in Tenders : tenders[t] # None}

\* What PageFitsTotal and QueriesSeeAnswers say of r.
Fits(r) ==
    page[r].items # <<>> =>
    LET last == call[r].offset + Len(page[r].items) IN
    /\ last <= page[r].total
    /\ Len(page[r].items) = call[r].limit \/ last = page[r].total
Sees(r) ==
    /\ IsOp(r, "history") => Cardinality(ToldChanges(r)) <= page[r].total
    /\ IsOp(r, "list") /\ call[r].status = None =>
           Cardinality(ToldCreations(r)) <= page[r].total

\* Both hold from the moment the total is counted; only an empty page waits for it.
PageIsTrue(r) ==
    /\ pc[r] = "count" => page[r].items = <<>>
    /\ IsQuery(r) /\ pc[r] \in {"rollback", "done"} /\ code[r] = 200 => Fits(r) /\ Sees(r)

\* Nothing that was answered before r arrived is open.
PrecedingDone(r) == \A o \in preceding[r] : pc[o] = "done"

\* A creation that is rolled back is not told that it succeeded.
ToldAtEnd(r) == IsOp(r, "create") /\ pc[r] = "rollback" => code[r] # 201

\* A creation answered 201 left its tender behind.
CreationsExist ==
    /\ IsFiniteSet(Created)
    /\ Cardinality(Created) <= Cardinality(Existing)

QueryInv ==
    /\ ReplyInv
    /\ \A r \in Requests : PageIsTrue(r) /\ PrecedingDone(r) /\ ToldAtEnd(r)
    /\ CreationsExist

USE DEF Goto, Decide, Op, IsOp, IsUpdate

-------------------------------------------------------------------------------
(* Pages of sequences *)

\* A page with elements ends within the sequence, at its limit or at the end.
LEMMA PageOfFits ==
    ASSUME NEW S, NEW s \in Seq(S), NEW limit \in Nat \ {0}, NEW offset \in Nat,
           PageOf(s, limit, offset) # <<>>
    PROVE  /\ offset + Len(PageOf(s, limit, offset)) <= Len(s)
           /\ \/ Len(PageOf(s, limit, offset)) = limit
              \/ offset + Len(PageOf(s, limit, offset)) = Len(s)
<1>1. PICK end \in Nat :
          /\ end = IF offset + limit < Len(s) THEN offset + limit ELSE Len(s)
          /\ PageOf(s, limit, offset) = SubSeq(s, offset + 1, end)
  BY DEF PageOf
<1>2. offset + 1 <= end
  BY <1>1, SubSeqEmpty
<1>3. \A i \in offset + 1 .. end : s[i] \in S
  BY <1>1
<1>4. Len(PageOf(s, limit, offset)) = end - offset
  BY <1>1, <1>2, <1>3, SubSeqProperties
<1> QED BY <1>1, <1>2, <1>4

\* What a query selects is as long as the log, or as many as the rows that match.
LEMMA SelectedLength ==
    ASSUME TypeInv, NEW r \in Requests, pc[r] \in {"list", "history"}, NEW all \in Selected(r)
    PROVE  /\ IsOp(r, "list") => Len(all) = Cardinality(Matching(call[r].status))
           /\ IsOp(r, "history") => Len(all) = Len(changeLog[call[r].tender])
<1>1. call[r] \in Calls
  BY CallOfActive
<1>2. ASSUME pc[r] = "list" PROVE Len(all) = Cardinality(Matching(call[r].status))
  <2>1. PICK S : S = Matching(call[r].status)
    OBVIOUS
  <2>2. all \in NewestFirst([t \in S |-> tenders[t].createdAt])
    BY <1>1, <1>2, <2>1, CallFields
    DEF Selected, TendersInOrder, TypeInv, Stages, Stage, StageOp
  <2>3. IsFiniteSet(S)
    BY <2>1, TendersAssumption, FS_Subset DEF Matching
  <2>4. Cardinality(S) \in Nat /\ all \in [1 .. Cardinality(S) -> S]
    BY <2>2, <2>3, NewestFirstType
  <2> QED BY <2>1, <2>4
<1>3. ASSUME pc[r] = "history" PROVE Len(all) = Len(changeLog[call[r].tender])
  <2> DEFINE log == changeLog[call[r].tender]
  <2>1. log \in Seq(Entry)
    BY <1>1, <1>3, CallFields DEF TypeInv, TypeOK, StoreTypeOK, Stages, Stage, StageOp
  <2>2. PICK s \in NewestFirst([i \in DOMAIN log |-> log[i].changedAt]) :
            all = [k \in DOMAIN s |-> log[s[k]]]
    BY <1>1, <1>3, CallFields
    DEF Selected, HistoryInOrder, TypeInv, Stages, Stage, StageOp
  <2> HIDE DEF log
  <2>n. PICK n \in Nat : n = Len(log) /\ DOMAIN log = 1 .. n
    BY <2>1
  <2>3. IsFiniteSet(1 .. n) /\ Cardinality(1 .. n) = n
    BY FS_Interval
  <2>4. s \in [1 .. n -> DOMAIN log]
    BY <2>n, <2>3, NewestFirstType
  <2>5. Len(all) = Len(log)
    BY <2>2, <2>n, <2>4
  <2> QED BY <2>5 DEF log
<1> QED BY <1>2, <1>3 DEF TypeInv, Stages, Stage, StageOp

-------------------------------------------------------------------------------
(* What is there to be counted *)

\* Each update of t that was answered 200 has its own entry in the log of t.
LEMMA LogCountsAnswers ==
    ASSUME ReplyInv, NEW t \in Tenders, NEW O \in SUBSET Requests,
           \A o \in O : IsUpdate(o) /\ Answered(o, 200) /\ call[o].tender = t
    PROVE  Cardinality(O) <= Len(changeLog[t])
<1>1. changeLog[t] \in Seq(Entry)
  BY DEF ReplyInv, AuditInv, TypeInv, TypeOK, StoreTypeOK
<1>2. PICK n \in Nat : n = Len(changeLog[t]) /\ DOMAIN changeLog[t] = 1 .. n
  BY <1>1
<1>3. \A o \in O : \E i \in 1 .. n : changeLog[t][i].request = o
  <2> SUFFICES ASSUME NEW o \in O PROVE \E i \in 1 .. n : changeLog[t][i].request = o
    OBVIOUS
  <2>1. Reported(o) /\ call[o].tender = t
    BY DEF ReplyInv, OwnEntries, ReplyIsTrue
  <2>2. PICK i \in DOMAIN changeLog[t] : EntriesOf(o, t) = {i}
    BY <2>1 DEF Reported
  <2>3. changeLog[t][i].request = o
    BY <2>2 DEF EntriesOf
  <2> QED BY <1>2, <2>3
<1> DEFINE place == [o \in O |-> CHOOSE i \in 1 .. n : changeLog[t][i].request = o]
<1>4. \A o \in O : place[o] \in 1 .. n /\ changeLog[t][place[o]].request = o
  BY <1>3
<1>5. place \in [O -> 1 .. n]
  BY <1>4
<1> HIDE DEF place
<1>6. place \in Injection(O, 1 .. n)
  <2>1. ASSUME NEW a \in O, NEW b \in O, place[a] = place[b] PROVE a = b
    BY <1>4, <2>1
  <2> QED BY <1>5, <2>1 DEF Injection, IsInjective
<1>7. IsFiniteSet(1 .. n) /\ Cardinality(1 .. n) = n
  BY FS_Interval
<1> QED BY <1>2, <1>6, <1>7, FS_Injection

\* A query that counts now sees all it was preceded by.
LEMMA CountSees ==
    ASSUME QueryInv, NEW r \in Requests, pc[r] \in {"list", "history", "count"}
    PROVE  /\ IsOp(r, "history") =>
                  Cardinality(ToldChanges(r)) <= Len(changeLog[call[r].tender])
           /\ IsOp(r, "list") /\ call[r].status = None =>
                  Cardinality(ToldCreations(r)) <= Cardinality(Matching(call[r].status))
<1>1. TypeInv /\ preceding[r] \in SUBSET Requests /\ call[r] \in Calls
  BY CallOfActive DEF QueryInv, ReplyInv, AuditInv, TypeInv, TypeOK
<1>2. ASSUME IsOp(r, "history")
      PROVE  Cardinality(ToldChanges(r)) <= Len(changeLog[call[r].tender])
  <2>1. PICK t \in Tenders : t = call[r].tender
    BY <1>1, <1>2, CallFields
  <2>2. PICK O \in SUBSET Requests : O = ToldChanges(r)
    BY <1>1 DEF ToldChanges
  <2>3. \A o \in O : IsUpdate(o) /\ Answered(o, 200) /\ call[o].tender = t
    BY <2>1, <2>2 DEF ToldChanges
  <2> QED BY <2>1, <2>2, <2>3, LogCountsAnswers DEF QueryInv
<1>3. ASSUME call[r].status = None
      PROVE  Cardinality(ToldCreations(r)) <= Cardinality(Matching(call[r].status))
  <2>1. Matching(call[r].status) = Existing
    BY <1>3 DEF Matching, Existing
  <2>2. ToldCreations(r) \in SUBSET Created
    BY <1>1 DEF ToldCreations, Created
  <2>3. PICK C, E : C = Created /\ E = Existing
    OBVIOUS
  <2>4. IsFiniteSet(C) /\ Cardinality(C) <= Cardinality(E) /\ IsFiniteSet(E)
    BY <2>3, TendersAssumption, FS_Subset DEF QueryInv, CreationsExist, Existing
  <2>5. Cardinality(ToldCreations(r)) <= Cardinality(C)
    BY <2>2, <2>3, <2>4, FS_Subset
  <2>6. Cardinality(ToldCreations(r)) \in Nat /\ Cardinality(C) \in Nat /\ Cardinality(E) \in Nat
    BY <2>2, <2>3, <2>4, FS_Subset, FS_CardinalityType
  <2> QED BY <2>1, <2>3, <2>4, <2>5, <2>6
<1> QED BY <1>2, <1>3

-------------------------------------------------------------------------------
(* How requests move *)

\* Request o takes no part in a step, but may be what it ends at.
Unmoved(o) ==
    /\ pc'[o] = pc[o] /\ call'[o] = call[o] /\ code'[o] = code[o]
    /\ page'[o] = page[o] /\ preceding'[o] = preceding[o]

LEMMA StepMovesOne ==
    ASSUME TypeInv, NEW r \in Requests, Step(r)
    PROVE  /\ pc[r] \notin Finished \union {"idle"}
           /\ UNCHANGED <<call, preceding>>
           /\ \A o \in Requests \ {r} : Unmoved(o)
<1>1. /\ pc \in [Requests -> Labels] /\ code \in [Requests -> Codes \union {None}]
      /\ page \in [Requests -> Page \union {None}]
  BY DEF TypeInv, TypeOK
<1>2. CASE \/ Begin(r) \/ NoConnection(r) \/ StatementFails(r) \/ CreateTender(r)
           \/ TenderNotFound(r) \/ LockTender(r) \/ WriteStatus(r) \/ WriteChangeLog(r)
           \/ CommitTransaction(r) \/ CommitFails(r)
  BY <1>1, <1>2
  DEF Begin, NoConnection, StatementFails, CreateTender, TenderNotFound, LockTender,
      WriteStatus, WriteChangeLog, CommitTransaction, CommitFails, Finished, Unmoved
<1>3. CASE \/ InvalidateCache(r) \/ CacheHit(r) \/ CacheUnreadable(r) \/ CacheMiss(r)
           \/ ReadTender(r) \/ FillCache(r) \/ RollbackTransaction(r) \/ RollbackFails(r)
  BY <1>1, <1>3
  DEF InvalidateCache, CacheHit, CacheUnreadable, CacheMiss, ReadTender, FillCache,
      RollbackTransaction, RollbackFails, Finished, Unmoved
<1>4. CASE SelectPage(r)
  <2>1. PICK p : page' = [page EXCEPT ![r] = p]
    BY <1>4 DEF SelectPage
  <2>2. \A o \in Requests \ {r} : pc'[o] = pc[o] /\ code'[o] = code[o]
    BY <1>1, <1>4 DEF SelectPage
  <2> QED BY <1>1, <1>4, <2>1, <2>2 DEF SelectPage, Finished, Unmoved
<1>5. CASE Count(r)
  BY <1>1, <1>5 DEF Count, Finished, Unmoved
<1> QED BY <1>2, <1>3, <1>4, <1>5 DEF Step

\* A request that is done is left alone.
LEMMA DoneStays ==
    ASSUME TypeInv, [Next]_vars, NEW o \in Requests, pc[o] = "done"
    PROVE  Unmoved(o)
<1>1. /\ pc \in [Requests -> Labels] /\ call \in [Requests -> Calls \union {None}]
      /\ preceding \in [Requests -> SUBSET Requests]
  BY DEF TypeInv, TypeOK
<1>2. ASSUME NEW r \in Requests, Step(r) PROVE Unmoved(o)
  BY <1>2, StepMovesOne DEF Finished
<1>3. ASSUME NEW r \in Requests, NEW c \in Calls, Arrive(r, c) PROVE Unmoved(o)
  BY <1>1, <1>3 DEF Arrive, Unmoved
<1>4. ASSUME NEW t \in Tenders, ExpireKey(t) PROVE Unmoved(o)
  BY <1>4 DEF ExpireKey, requestVars, Unmoved
<1>5. CASE Crash
  BY <1>5 DEF Crash, Finished, Unmoved
<1>6. CASE UNCHANGED vars
  BY <1>6 DEF vars, requestVars, Unmoved
<1> QED BY <1>2, <1>3, <1>4, <1>5, <1>6 DEF Next, Terminated

\* What a request was told of before it arrived does not change.
LEMMA ToldStays ==
    ASSUME QueryInv, [Next]_vars, NEW r \in Requests,
           call'[r] = call[r], preceding'[r] = preceding[r]
    PROVE  ToldChanges(r)' = ToldChanges(r) /\ ToldCreations(r)' = ToldCreations(r)
<1>1. TypeInv /\ preceding[r] \in SUBSET Requests
  BY DEF QueryInv, ReplyInv, AuditInv, TypeInv, TypeOK
<1>2. \A o \in preceding[r] :
          pc'[o] = pc[o] /\ call'[o] = call[o] /\ code'[o] = code[o]
  BY <1>1, DoneStays DEF QueryInv, PrecedingDone, Unmoved
<1> QED BY <1>1, <1>2 DEF ToldChanges, ToldCreations, Answered

\* A page that is not touched stays true.
LEMMA PageKept ==
    ASSUME QueryInv, [Next]_vars, NEW r \in Requests,
           call'[r] = call[r], preceding'[r] = preceding[r], page'[r] = page[r]
    PROVE  (Fits(r)' <=> Fits(r)) /\ (Sees(r)' <=> Sees(r))
<1>1. ToldChanges(r)' = ToldChanges(r) /\ ToldCreations(r)' = ToldCreations(r)
  BY ToldStays
<1>2. Fits(r)' <=> Fits(r)
  BY DEF Fits
<1>3. Sees(r)' <=> Sees(r)
  BY <1>1 DEF Sees
<1> QED BY <1>2, <1>3

-------------------------------------------------------------------------------
(* The steps of a query *)

LEMMA SelectPageIsTrue ==
    ASSUME QueryInv, [Next]_vars, NEW r \in Requests, SelectPage(r)
    PROVE  PageIsTrue(r)'
<1>1. /\ TypeInv /\ pc[r] \in {"list", "history"} /\ call[r] \in Calls
      /\ call[r].limit \in Nat \ {0} /\ call[r].offset \in Nat
      /\ page \in [Requests -> Page \union {None}] /\ pc \in [Requests -> Labels]
      /\ UNCHANGED <<call, preceding>>
  BY CallOfActive, CallFields
  DEF SelectPage, QueryInv, ReplyInv, AuditInv, TypeInv, TypeOK, Stages, Stage, StageOp
<1>2. PICK all \in Selected(r) :
          \/ /\ PageFor(r, all) # <<>>
             /\ page' = [page EXCEPT ![r] = [items |-> PageFor(r, all), total |-> Len(all)]]
             /\ Goto(r, "rollback")
          \/ /\ page' = [page EXCEPT ![r] = [items |-> <<>>, total |-> 0]]
             /\ Goto(r, "count")
  BY DEF SelectPage
<1>3. CASE page'[r] = [items |-> <<>>, total |-> 0] /\ pc'[r] = "count"
  BY <1>3 DEF PageIsTrue
<1>4. ASSUME PageFor(r, all) # <<>>, pc'[r] = "rollback",
             page'[r] = [items |-> PageFor(r, all), total |-> Len(all)]
      PROVE  PageIsTrue(r)'
  <2>1. page'[r].items = PageFor(r, all) /\ page'[r].total = Len(all)
    BY <1>4
  <2>2. all \in Seq(Tenders \union Entry)
    BY <1>1, SelectedType
  <2>3. Fits(r)'
    BY <1>1, <1>4, <2>1, <2>2, PageOfFits DEF Fits, PageFor
  <2>4. /\ IsOp(r, "history") => Cardinality(ToldChanges(r)) <= Len(all)
        /\ IsOp(r, "list") /\ call[r].status = None => Cardinality(ToldCreations(r)) <= Len(all)
    BY <1>1, CountSees, SelectedLength
  <2>5. Sees(r)'
    BY <1>1, <2>1, <2>4, ToldStays DEF Sees
  <2> QED BY <1>4, <2>3, <2>5 DEF PageIsTrue
<1> QED BY <1>1, <1>2, <1>3, <1>4

LEMMA CountIsTrue ==
    ASSUME QueryInv, [Next]_vars, NEW r \in Requests, Count(r)
    PROVE  PageIsTrue(r)'
<1>1. /\ TypeInv /\ pc[r] = "count" /\ call[r] \in Calls
      /\ call[r].op \in {"list", "history"}
      /\ page[r] \in Page /\ page[r].items = <<>>
      /\ page \in [Requests -> Page \union {None}] /\ pc \in [Requests -> Labels]
      /\ UNCHANGED <<call, preceding>>
  BY CallOfActive, CallFields
  DEF Count, QueryInv, PageIsTrue, ReplyInv, AuditInv, TypeInv, TypeOK, Stages, Stage,
      StageOp, StageData
<1> DEFINE n == IF call[r].op = "list" THEN Cardinality(Matching(call[r].status))
                                       ELSE Len(changeLog[call[r].tender])
<1>2. page' = [page EXCEPT ![r] = [page[r] EXCEPT !.total = n]] /\ pc'[r] = "rollback"
  BY <1>1 DEF Count
<1>3. /\ IsOp(r, "history") => Cardinality(ToldChanges(r)) <= n
      /\ IsOp(r, "list") /\ call[r].status = None => Cardinality(ToldCreations(r)) <= n
  BY <1>1, CountSees
<1> HIDE DEF n
<1>4. page'[r].items = <<>> /\ page'[r].total = n
  BY <1>1, <1>2 DEF Page
<1>5. Fits(r)'
  BY <1>4 DEF Fits
<1>6. Sees(r)'
  BY <1>1, <1>3, <1>4, ToldStays DEF Sees
<1> QED BY <1>2, <1>5, <1>6 DEF PageIsTrue

\* Only SelectPage and Count make a query answer 200.
LEMMA OtherStepsAreTrue ==
    ASSUME QueryInv, [Next]_vars, NEW r \in Requests, Step(r), ~SelectPage(r), ~Count(r)
    PROVE  PageIsTrue(r)'
<1>1. /\ TypeInv /\ call[r] \in Calls /\ UNCHANGED <<call, preceding>>
      /\ pc \in [Requests -> Labels] /\ code \in [Requests -> Codes \union {None}]
  BY StepMovesOne, CallOfActive DEF QueryInv, ReplyInv, AuditInv, TypeInv, TypeOK
<1>2. /\ page' = page /\ pc'[r] # "count"
      /\ \/ pc[r] = "rollback" /\ pc'[r] \in {"done", "fill"} /\ code'[r] \in {code[r], 500}
         \/ pc'[r] \notin {"rollback", "done"}
         \/ code'[r] # 200
         \/ ~IsQuery(r)
  <2>1. CASE Begin(r)
    BY <1>1, <2>1, CallFields DEF Begin, FirstStatement
  <2>2. CASE \/ NoConnection(r) \/ StatementFails(r) \/ CreateTender(r) \/ TenderNotFound(r)
             \/ LockTender(r) \/ WriteStatus(r) \/ WriteChangeLog(r) \/ CommitFails(r)
    BY <1>1, <2>2
    DEF NoConnection, StatementFails, CreateTender, TenderNotFound, LockTender, WriteStatus,
        WriteChangeLog, CommitFails
  <2>3. CASE \/ CommitTransaction(r) \/ InvalidateCache(r) \/ CacheHit(r)
             \/ CacheUnreadable(r) \/ CacheMiss(r) \/ ReadTender(r) \/ FillCache(r)
    BY <1>1, <2>3
    DEF CommitTransaction, InvalidateCache, CacheHit, CacheUnreadable, CacheMiss, ReadTender,
        FillCache, IsQuery, TypeInv, Stages, Stage, StageOp
  <2>4. CASE RollbackTransaction(r) \/ RollbackFails(r)
    BY <1>1, <2>4 DEF RollbackTransaction, RollbackFails
  <2> QED BY <2>1, <2>2, <2>3, <2>4 DEF Step
<1>3. (Fits(r)' <=> Fits(r)) /\ (Sees(r)' <=> Sees(r)) /\ (IsQuery(r)' <=> IsQuery(r))
  BY <1>1, <1>2, PageKept DEF IsQuery
<1> QED BY <1>1, <1>2, <1>3 DEF QueryInv, PageIsTrue

LEMMA PagesAreTrueStep ==
    ASSUME QueryInv, [Next]_vars, NEW r \in Requests
    PROVE  PageIsTrue(r)'
<1>1. /\ TypeInv /\ pc \in [Requests -> Labels] /\ call \in [Requests -> Calls \union {None}]
      /\ preceding \in [Requests -> SUBSET Requests]
  BY DEF QueryInv, ReplyInv, AuditInv, TypeInv, TypeOK
<1>2. ASSUME call'[r] = call[r], preceding'[r] = preceding[r], page'[r] = page[r],
             code'[r] = code[r], pc'[r] = pc[r]
      PROVE  PageIsTrue(r)'
  BY <1>2, PageKept DEF QueryInv, PageIsTrue, IsQuery
<1>3. ASSUME NEW o \in Requests, Step(o) PROVE PageIsTrue(r)'
  <2>1. CASE o = r
    BY <1>3, <2>1, SelectPageIsTrue, CountIsTrue, OtherStepsAreTrue
  <2>2. CASE o # r
    BY <1>1, <1>2, <1>3, <2>2, StepMovesOne DEF Unmoved
  <2> QED BY <2>1, <2>2
<1>4. ASSUME NEW o \in Requests, NEW c \in Calls, Arrive(o, c) PROVE PageIsTrue(r)'
  <2>1. CASE o = r
    BY <1>1, <1>4, <2>1 DEF Arrive, PageIsTrue
  <2>2. CASE o # r
    BY <1>1, <1>2, <1>4, <2>2 DEF Arrive
  <2> QED BY <2>1, <2>2
<1>5. ASSUME NEW t \in Tenders, ExpireKey(t) PROVE PageIsTrue(r)'
  BY <1>2, <1>5 DEF ExpireKey, requestVars
<1>6. ASSUME Crash PROVE PageIsTrue(r)'
  <2>1. pc'[r] = pc[r] \/ pc'[r] = "crashed"
    BY <1>6 DEF Crash
  <2> QED BY <1>2, <1>6, <2>1 DEF Crash, PageIsTrue
<1>7. CASE UNCHANGED vars
  BY <1>2, <1>7 DEF vars, requestVars
<1> QED BY <1>3, <1>4, <1>5, <1>6, <1>7 DEF Next, Terminated

LEMMA PrecedingDoneStep ==
    ASSUME QueryInv, [Next]_vars, NEW r \in Requests
    PROVE  PrecedingDone(r)'
<1>1. /\ TypeInv /\ preceding \in [Requests -> SUBSET Requests]
      /\ \A o \in preceding[r] : pc[o] = "done"
  BY DEF QueryInv, PrecedingDone, ReplyInv, AuditInv, TypeInv, TypeOK
<1>2. \A o \in Requests : pc[o] = "done" => pc'[o] = "done"
  BY <1>1, DoneStays DEF Unmoved
<1>3. preceding'[r] \subseteq {o \in Requests : pc[o] = "done"}
  <2>1. CASE preceding' = preceding
    BY <1>1, <2>1
  <2>2. ASSUME NEW o \in Requests, NEW c \in Calls, Arrive(o, c)
        PROVE  preceding'[r] \subseteq {u \in Requests : pc[u] = "done"}
    BY <1>1, <2>2 DEF Arrive
  <2>3. preceding' = preceding \/ \E o \in Requests, c \in Calls : Arrive(o, c)
    BY <1>1, StepMovesOne DEF Next, Terminated, ExpireKey, Crash, vars, requestVars
  <2> QED BY <2>1, <2>2, <2>3
<1> QED BY <1>2, <1>3 DEF PrecedingDone

-------------------------------------------------------------------------------
(* Creations *)

\* Only the commit of a creation makes it one that was answered 201.
LEMMA ToldAtEndStep ==
    ASSUME QueryInv, [Next]_vars, NEW r \in Requests
    PROVE  /\ ToldAtEnd(r)'
           /\ r \in Created' => r \in Created \/ (Commits(r) /\ IsOp(r, "create"))
<1>1. /\ TypeInv /\ pc \in [Requests -> Labels] /\ call \in [Requests -> Calls \union {None}]
      /\ code \in [Requests -> Codes \union {None}] /\ Stage(r) /\ ToldAtEnd(r)
  BY DEF QueryInv, ReplyInv, AuditInv, TypeInv, TypeOK, Stages
<1>2. ASSUME call'[r] = call[r], code'[r] = code[r], pc'[r] = pc[r]
      PROVE  ToldAtEnd(r)' /\ (r \in Created' => r \in Created)
  BY <1>1, <1>2 DEF ToldAtEnd, Created, Answered
<1>3. ASSUME pc'[r] \notin {"rollback", "done"} \/ code'[r] # 201 \/ ~IsOp(r, "create")'
      PROVE  ToldAtEnd(r)' /\ r \notin Created'
  BY <1>3 DEF ToldAtEnd, Created, Answered
<1>4. ASSUME Step(r), ~CommitTransaction(r)
      PROVE  \/ pc'[r] \notin {"rollback", "done"} \/ code'[r] # 201 \/ ~IsOp(r, "create")'
  <2>1. CASE Begin(r)
    BY <1>1, <2>1, CallOfActive, CallFields DEF Begin, FirstStatement
  <2>2. CASE \/ NoConnection(r) \/ StatementFails(r) \/ CreateTender(r) \/ TenderNotFound(r)
             \/ LockTender(r) \/ WriteStatus(r) \/ WriteChangeLog(r) \/ CommitFails(r)
    BY <1>1, <2>2
    DEF NoConnection, StatementFails, CreateTender, TenderNotFound, LockTender, WriteStatus,
        WriteChangeLog, CommitFails
  <2>3. CASE \/ InvalidateCache(r) \/ CacheHit(r) \/ CacheUnreadable(r) \/ CacheMiss(r)
             \/ ReadTender(r) \/ FillCache(r) \/ SelectPage(r) \/ Count(r)
    BY <1>1, <2>3
    DEF InvalidateCache, CacheHit, CacheUnreadable, CacheMiss, ReadTender, FillCache,
        SelectPage, Count, Stage, StageOp
  <2>4. CASE RollbackTransaction(r) \/ RollbackFails(r)
    BY <1>1, <2>4 DEF RollbackTransaction, RollbackFails, ToldAtEnd
  <2> QED BY <1>4, <2>1, <2>2, <2>3, <2>4 DEF Step
<1>5. ASSUME CommitTransaction(r)
      PROVE  /\ ToldAtEnd(r)'
             /\ r \in Created' => Commits(r) /\ IsOp(r, "create")
  <2>1. /\ pc[r] = "commit" /\ Commit(r) /\ call' = call
        /\ pc'[r] \in {"done", "invalidate"}
    BY <1>1, <1>5 DEF CommitTransaction
  <2> QED BY <1>5, <2>1 DEF ToldAtEnd, Created, Commits
<1>6. ASSUME NEW o \in Requests, Step(o), o # r
      PROVE  call'[r] = call[r] /\ code'[r] = code[r] /\ pc'[r] = pc[r]
  BY <1>1, <1>6, StepMovesOne DEF Unmoved
<1>7. ASSUME NEW o \in Requests, NEW c \in Calls, Arrive(o, c)
      PROVE  \/ call'[r] = call[r] /\ code'[r] = code[r] /\ pc'[r] = pc[r]
             \/ pc'[r] \notin {"rollback", "done"}
  BY <1>1, <1>7 DEF Arrive
<1>8. ASSUME Crash \/ UNCHANGED vars \/ \E t \in Tenders : ExpireKey(t)
      PROVE  \/ call'[r] = call[r] /\ code'[r] = code[r] /\ pc'[r] = pc[r]
             \/ pc'[r] \notin {"rollback", "done"}
  BY <1>1, <1>8 DEF Crash, vars, ExpireKey, requestVars
<1> QED BY <1>2, <1>3, <1>4, <1>5, <1>6, <1>7, <1>8 DEF Next, Terminated

\* Commits is about one request: no two commit in one step.
LEMMA CommitsOnce ==
    ASSUME TypeInv, NEW r \in Requests, NEW o \in Requests, Commits(r), Commits(o)
    PROVE  r = o
<1>1. pc \in [Requests -> Labels] /\ pc[o] = "commit"
  BY DEF Commits, TypeInv, TypeOK
<1>2. pc' # pc /\ pc'[o] # pc[o] /\ pc' = [pc EXCEPT ![r] = pc'[r]]
  BY <1>1 DEF Commits, CommitTransaction, CommitFails, TypeInv, TypeOK
<1> QED BY <1>1, <1>2

LEMMA CreationsExistStep ==
    ASSUME QueryInv, [Next]_vars
    PROVE  CreationsExist'
<1>1. /\ ReplyInv /\ AuditInv /\ TypeInv
      /\ IsFiniteSet(Created) /\ Cardinality(Created) <= Cardinality(Existing)
  BY DEF QueryInv, CreationsExist, ReplyInv, AuditInv
<1>2. PICK C, D, E, F : C = Created /\ D = Created' /\ E = Existing /\ F = Existing'
  OBVIOUS
<1>3. IsFiniteSet(E) /\ IsFiniteSet(F) /\ E \subseteq F
  <2>1. E \in SUBSET Tenders /\ F \in SUBSET Tenders
    BY <1>2 DEF Existing
  <2>2. \A t \in Tenders : tenders[t] # None => tenders'[t] # None
    BY <1>1, EveryHistoryKept DEF HistoryKept
  <2>3. E \subseteq F
    BY <1>2, <2>2 DEF Existing
  <2> QED BY <2>1, <2>3, TendersAssumption, FS_Subset
<1>4. /\ Cardinality(C) \in Nat /\ Cardinality(E) \in Nat /\ Cardinality(F) \in Nat
      /\ Cardinality(E) <= Cardinality(F)
  BY <1>1, <1>2, <1>3, FS_CardinalityType, FS_Subset
<1>5. \A r \in Requests : r \in D => r \in C \/ (Commits(r) /\ IsOp(r, "create"))
  BY <1>2, ToldAtEndStep
<1>6. D \subseteq Requests
  BY <1>2 DEF Created
<1>7. CASE D \subseteq C
  <2>1. IsFiniteSet(D) /\ Cardinality(D) <= Cardinality(C) /\ Cardinality(D) \in Nat
    BY <1>1, <1>2, <1>7, FS_Subset, FS_CardinalityType
  <2>2. Cardinality(D) <= Cardinality(F)
    BY <1>1, <1>2, <1>4, <2>1
  <2> QED BY <1>2, <2>1, <2>2 DEF CreationsExist
<1>8. ASSUME NEW r \in Requests, r \in D, r \notin C
      PROVE  CreationsExist'
  <2>1. Commits(r) /\ IsOp(r, "create")
    BY <1>5, <1>8
  <2>2. PICK t \in Tenders : t = txn[r].key
    BY <1>1, <2>1, CommittingTxn DEF Commits
  <2>3. t \notin E /\ t \in F
    <3>1. tenders[t] = None
      BY <1>1, <2>1, <2>2, AuditOfCreate DEF Commits
    <3>2. tenders'[t] \in Row
      BY <1>1, <2>1, <2>2, CommittingTxn, NoneAssumption
      DEF Commits, Commit, TypeInv, TypeOK, StoreTypeOK
    <3> QED BY <1>2, <3>1, <3>2, NoneAssumption DEF Existing
  <2>4. \A o \in Requests \ {r} : ~Commits(o)
    BY <1>1, <2>1, CommitsOnce
  <2>5. D \in SUBSET (C \union {r})
    BY <1>5, <1>6, <2>4
  <2>6. IsFiniteSet(C \union {r}) /\ Cardinality(C \union {r}) = Cardinality(C) + 1
    BY <1>1, <1>2, <1>8, FS_AddElement
  <2>7. /\ IsFiniteSet(D) /\ Cardinality(D) \in Nat
        /\ Cardinality(D) <= Cardinality(C) + 1
    BY <2>5, <2>6, FS_Subset, FS_CardinalityType
  <2>8. Cardinality(E \union {t}) = Cardinality(E) + 1
    BY <1>3, <2>3, FS_AddElement
  <2>9. Cardinality(E \union {t}) <= Cardinality(F)
    BY <1>3, <2>3, FS_Subset
  <2>10. Cardinality(D) <= Cardinality(F)
    BY <1>1, <1>2, <1>4, <2>7, <2>8, <2>9
  <2> QED BY <1>2, <2>7, <2>10 DEF CreationsExist
<1> QED BY <1>6, <1>7, <1>8

-------------------------------------------------------------------------------
(* The theorems *)

LEMMA InitQuery == Init => QueryInv
<1> SUFFICES ASSUME Init PROVE QueryInv
  OBVIOUS
<1>1. \A r \in Requests : pc[r] = "idle" /\ preceding[r] = {}
  BY DEF Init
<1>2. \A r \in Requests : pc[r] # "done"
  BY <1>1
<1>3. \A r \in Requests : PageIsTrue(r) /\ PrecedingDone(r) /\ ToldAtEnd(r)
  BY <1>1 DEF PageIsTrue, PrecedingDone, ToldAtEnd
<1>4. Created = {}
  BY <1>2 DEF Created, Answered
<1>5. CreationsExist
  <2>1. IsFiniteSet(Existing)
    BY TendersAssumption, FS_Subset DEF Existing
  <2>2. PICK E : E = Existing
    OBVIOUS
  <2>3. Cardinality(E) \in Nat
    BY <2>1, <2>2, FS_CardinalityType
  <2> QED BY <1>4, <2>2, <2>3, FS_EmptySet DEF CreationsExist
<1> QED BY <1>3, <1>5, InitReply DEF QueryInv

LEMMA QueryInvariant == Spec => []QueryInv
<1>1. Init => QueryInv
  BY InitQuery
<1>2. QueryInv /\ [Next]_vars => QueryInv'
  <2> SUFFICES ASSUME QueryInv, [Next]_vars PROVE QueryInv'
    OBVIOUS
  <2>1. ReplyInv'
    BY ReplyInvStep DEF QueryInv
  <2>2. \A r \in Requests : PageIsTrue(r)' /\ PrecedingDone(r)' /\ ToldAtEnd(r)'
    BY PagesAreTrueStep, PrecedingDoneStep, ToldAtEndStep
  <2> QED BY <2>1, <2>2, CreationsExistStep DEF QueryInv
<1> QED BY <1>1, <1>2, PTL DEF Spec

\* The items of a page and its total are of one moment: however rows appear while a
\* list or history runs, the total covers the page, and only a last page is short.
THEOREM PagesFitTheirTotals == Spec => []PageFitsTotal
<1>1. QueryInv => PageFitsTotal
  BY DEF QueryInv, PageIsTrue, Fits, IsQuery, Answered, PageFitsTotal
<1> QED BY <1>1, QueryInvariant, PTL

\* A list counts every creation, and a history every change, that was answered with
\* success before it arrived.
THEOREM QueriesCountAnswers == Spec => []QueriesSeeAnswers
<1>1. QueryInv => QueriesSeeAnswers
  <2> SUFFICES ASSUME QueryInv, NEW r \in Requests, Answered(r, 200)
      PROVE  /\ IsOp(r, "history") => page[r].total >= Cardinality(ToldChanges(r))
             /\ IsOp(r, "list") /\ call[r].status = None =>
                    page[r].total >= Cardinality(ToldCreations(r))
    BY DEF QueriesSeeAnswers, ToldChanges, ToldCreations
  <2>1. IsQuery(r) => Sees(r)
    BY DEF QueryInv, PageIsTrue, Answered
  <2> QED BY <2>1 DEF Sees, IsQuery
<1> QED BY <1>1, QueryInvariant, PTL
===============================================================================
