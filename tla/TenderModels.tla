----------------------------- MODULE TenderModels -----------------------------
(***************************************************************************)
(* The rows of the two tables (app/dal/models/db_models.py), the status    *)
(* enumeration and the transition table of TenderServiceImpl.              *)
(*                                                                         *)
(* A tender keeps the columns the operations change or order by; title,    *)
(* description, issuer, budget, currency and the two dates are written     *)
(* once by create_tender and never read by any decision, so they are left  *)
(* out.  A change-log entry's random id and its free-text update_reason    *)
(* are both stood for by `request', the call that wrote it: each call      *)
(* writes at most one entry.                                               *)
(***************************************************************************)
EXTENDS Naturals, Sequences, FiniteSets

CONSTANTS
    Tenders,    \* ids that uuid4 may give to a tender
    Requests,   \* HTTP requests, each with a database session of its own
    Users,      \* subjects of the accepted tokens
    None        \* absence: no row, no entry, no transaction, no cached value

Status == {"draft", "active", "won", "lost"}

AllowedStatusTransitions ==
    [s \in Status |-> CASE s = "draft"  -> {"active"}
                        [] s = "active" -> {"won", "lost"}
                        [] OTHER        -> {}]

\* Fault for mutation: a terminal status may be reopened.
LenientTransition(current, new) == new # current

\* _ensure_transition_allowed, as the condition under which it does not raise.
EnsureTransitionAllowed(current, new) == new \in AllowedStatusTransitions[current]

Row == [status : Status, createdBy : Users, updatedBy : Users,
        createdAt : Nat, updatedAt : Nat]

Entry == [old : Status, new : Status, changedBy : Users, changedAt : Nat,
          request : Requests]

\* Fault for mutation: the status column has no default.
RowWithoutStatus(user, now) ==
    [status |-> None, createdBy |-> user, updatedBy |-> user,
     createdAt |-> now, updatedAt |-> now]

\* What create_tender's INSERT stores: the column default for status, the
\* caller as creator and last editor, now() as both timestamps.
NewRow(user, now) ==
    [status |-> "draft", createdBy |-> user, updatedBy |-> user,
     createdAt |-> now, updatedAt |-> now]

ASSUME TendersAssumption == IsFiniteSet(Tenders)

ASSUME NoneAssumption ==
    None \notin Row \union Entry \union Tenders \union Users \union Status
===============================================================================
