----------------------------- MODULE TenderLedger -----------------------------
(***************************************************************************)
(* What the write side of the service promises: a tender comes into being  *)
(* as a draft, and a status change is one atomic step that moves it along  *)
(* the transition table and appends one entry to its trail.  A request     *)
(* takes effect at most once.  No transaction, lock, cache or failure is   *)
(* visible at this level; TenderRequirements states that TenderService     *)
(* implements it.                                                          *)
(***************************************************************************)
EXTENDS TenderModels

CONSTANT Existing    \* tenders that exist at the start

VARIABLES
    status,   \* status of each tender, None before it is created
    trail     \* the changes each tender went through, oldest first

ledgerVars == <<status, trail>>

Change == [old : Status, new : Status, changedBy : Users, request : Requests]

Used(r) == \E t \in Tenders : \E i \in DOMAIN trail[t] : trail[t][i].request = r

LedgerInit ==
    /\ status = [t \in Tenders |-> IF t \in Existing THEN "draft" ELSE None]
    /\ trail = [t \in Tenders |-> <<>>]

CreateTender(t) ==
    /\ status[t] = None
    /\ status' = [status EXCEPT ![t] = "draft"]
    /\ UNCHANGED trail

UpdateTenderStatus(t, new, user, r) ==
    /\ status[t] # None
    /\ EnsureTransitionAllowed(status[t], new)
    /\ ~Used(r)
    /\ status' = [status EXCEPT ![t] = new]
    /\ trail' = [trail EXCEPT ![t] = Append(@, [old |-> status[t], new |-> new,
                                                changedBy |-> user, request |-> r])]

LedgerNext ==
    \E t \in Tenders :
        \/ CreateTender(t)
        \/ \E new \in Status, user \in Users, r \in Requests :
               UpdateTenderStatus(t, new, user, r)

LedgerSpec == LedgerInit /\ [][LedgerNext]_ledgerVars
===============================================================================
