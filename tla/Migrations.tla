------------------------------- MODULE Migrations -------------------------------
(***************************************************************************)
(* The three Alembic revisions over a database that has rows, run by       *)
(* `alembic upgrade' and `alembic downgrade' commands while a process of   *)
(* the release before them may still be writing.                           *)
(*                                                                         *)
(* env.py runs all revisions of one command in one transaction.  Its       *)
(* changes are in command[c] until the commit; what keeps others from      *)
(* coming between are the table locks of PostgreSQL, which a session takes *)
(* with each statement and holds until its transaction ends.               *)
(***************************************************************************)
EXTENDS Naturals, Sequences

CONSTANTS
    Tenders,    \* tenders that may have a row and, each, one entry in the log
    Commands,   \* runs of alembic, each used once
    Writers,    \* requests served by the release that was there before
    DbMayFail,  \* may a connection be lost?
    None

ASSUME MigrationAssumption ==
    /\ Commands \cap Writers = {}
    /\ DbMayFail \in BOOLEAN

Sessions == Commands \union Writers

Base == 0
Latest == 3     \* `head'; 1 is fe28531ffeb6, 2 is 023e8e649151, 3 is a716200b052e
Revisions == Base .. Latest

\* What a revision makes of the schema.
SchemaAt(n) ==
    [type |-> IF n >= 1 THEN "present" ELSE "absent",
     tables |-> IF n >= 1 THEN "present" ELSE "absent",
     updated_by |-> IF n >= 2 THEN "required" ELSE "absent",
     update_reason |-> CASE n = 0 -> "absent" [] n = 3 -> "required" [] OTHER -> "nullable",
     version |-> n]

\* The states an object may be in, within a transaction too.
StatesOf ==
    [type |-> {"absent", "present"}, tables |-> {"absent", "present"},
     updated_by |-> {"absent", "nullable", "required"},
     update_reason |-> {"absent", "nullable", "required"}, version |-> Revisions]

Schema == [type : StatesOf.type, tables : StatesOf.tables, updated_by : StatesOf.updated_by,
           update_reason : StatesOf.update_reason, version : StatesOf.version]

VARIABLES
    schema,    \* committed: the state of each object, and alembic_version
    editors,   \* committed: updated_by of each tender, "unset" for no value
    reasons,   \* committed: update_reason of its log entry, "missing" for NULL
    command,   \* the transaction of each command
    writer,    \* the transaction of each writer
    locks,     \* the table locks each session holds
    release    \* the revision that the process of the writers was made for

migrationVars == <<schema, editors, reasons, command, writer, locks, release>>

Editors == {"unset", "creator", "other"}
Reasons == {"missing", "given", "placeholder"}

Writer == [tender : Tenders, editor : Editors, reason : Reasons \union {None},
           state : {"row", "log", "done"}]

\* Changes to a part of a function.
Part(D, S) == UNION {[P -> S] : P \in SUBSET D}

Command == [state : {"running", "committed", "failed"}, began : Revisions,
            target : Revisions, at : Revisions, done : 0 .. 3,
            schema : Part(DOMAIN StatesOf, UNION {StatesOf[o] : o \in DOMAIN StatesOf}),
            editors : Part(Tenders, Editors \union {None}),
            reasons : Part(Tenders, Reasons \union {None})]

ASSUME NoValueAssumption ==
    None \notin Editors \union Reasons \union Writer \union Command

MigrationTypeOK ==
    /\ schema \in Schema
    /\ editors \in [Tenders -> Editors \union {None}]
    /\ reasons \in [Tenders -> Reasons \union {None}]
    /\ locks \in [Sessions -> SUBSET ({"tenders", "log", "version"} \X {"row", "table"})]
    /\ release \in Revisions
    /\ \A c \in Commands : command[c] # None =>
           /\ command[c].state \in {"running", "committed", "failed"}
           /\ {command[c].began, command[c].target, command[c].at} \subseteq Revisions
           /\ command[c].done \in 0 .. 3
           /\ \A o \in DOMAIN command[c].schema : command[c].schema[o] \in StatesOf[o]
           /\ command[c].editors \in Part(Tenders, Editors \union {None})
           /\ command[c].reasons \in Part(Tenders, Reasons \union {None})
    /\ writer \in [Writers -> Writer \union {None}]

EditorsOf(n) == IF n = 0 THEN {} ELSE IF n = 1 THEN {"unset"} ELSE {"creator", "other"}
ReasonsOf(n) == IF n = 0 THEN {} ELSE IF n < 3 THEN {"missing", "given"}
                                                ELSE {"placeholder", "given"}

\* A database at some revision, with rows as the program leaves them there.
MigrationInit ==
    /\ release \in Revisions
    /\ schema = SchemaAt(release)
    /\ editors \in [Tenders -> EditorsOf(release) \union {None}]
    /\ reasons \in {f \in [Tenders -> ReasonsOf(release) \union {None}] :
                       \A t \in Tenders : editors[t] = None => f[t] = None}
    /\ command = [c \in Commands |-> None]
    /\ writer = [w \in Writers |-> None]
    /\ locks = [s \in Sessions |-> {}]

-------------------------------------------------------------------------------
(* Locks *)

Updates == {"backfill_updated_by", "backfill_reason"}

TableOf(op) ==
    CASE op = "stamp" -> "version"
      [] op \in {"backfill_reason", "require_reason", "relax_reason", "drop_log"} -> "log"
      [] OTHER -> "tenders"

\* ALTER, DROP and CREATE take a table for themselves, UPDATE shares it with
\* others; the one row of alembic_version is as good as a table.
LockOf(op) == <<TableOf(op), IF op \in Updates THEN "row" ELSE "table">>

Conflict(k, l) == k[1] = l[1] /\ "table" \in {k[2], l[2]}

Blockers(s, k) == {o \in Sessions \ {s} : \E l \in locks[o] : Conflict(k, l)}

Take(s, k) ==
    /\ Blockers(s, k) = {}
    /\ locks' = [locks EXCEPT ![s] = @ \union {k}]

Release(s) == locks' = [locks EXCEPT ![s] = {}]

-------------------------------------------------------------------------------
(* The statements of a command *)

\* fe28531ffeb6, up and down.
CreateTables == <<"create_tables", "stamp">>
DropTables == <<"drop_log", "drop_tenders", "stamp">>

\* 023e8e649151
AddUpdatedBy == <<"add_updated_by", "backfill_updated_by", "require_updated_by", "stamp">>
DropUpdatedBy == <<"drop_updated_by", "stamp">>

\* Fault for mutation: updated_by is made required by the last revision.
RequireBothAtLast ==
    <<"backfill_reason", "require_reason", "require_updated_by", "stamp">>

\* a716200b052e
RequireReason == <<"backfill_reason", "require_reason", "stamp">>
RelaxReason == <<"relax_reason", "stamp">>

\* down_revision of each puts them in this order.
Upgrade == <<CreateTables, AddUpdatedBy, RequireReason>>
Downgrade == <<DropTables, DropUpdatedBy, RelaxReason>>

Running(c) == command[c] # None /\ command[c].state = "running"
Pending(c) == Running(c) /\ command[c].at # command[c].target

\* The revision the command moves to next, and its next statement.
Towards(c) == IF command[c].target > command[c].at THEN command[c].at + 1
                                                   ELSE command[c].at - 1

NextOp(c) ==
    LET script == IF command[c].target > command[c].at THEN Upgrade[command[c].at + 1]
                                                       ELSE Downgrade[command[c].at]
    IN script[command[c].done + 1]

Over(changes, f) == [x \in DOMAIN f |-> IF x \in DOMAIN changes THEN changes[x] ELSE f[x]]

Adding(changes, f) ==
    [x \in DOMAIN changes \union DOMAIN f |-> IF x \in DOMAIN f THEN f[x] ELSE changes[x]]

\* What a statement of the command sees: the committed rows and its own changes.
Sees(c) == Over(command[c].schema, schema)
SeesEditors(c) == Over(command[c].editors, editors)
SeesReasons(c) == Over(command[c].reasons, reasons)

\* PostgreSQL, or the version check of Alembic, refuses the statement.
Refused(c, op) ==
    CASE op = "create_tables"      -> "present" \in {Sees(c).type, Sees(c).tables}
      [] op = "stamp"              -> Sees(c).version # command[c].at
      [] op = "add_updated_by"     -> Sees(c).tables = "absent" \/ Sees(c).updated_by # "absent"
      [] op \in {"backfill_updated_by", "drop_updated_by"} -> Sees(c).updated_by = "absent"
      [] op = "require_updated_by" ->
             \/ Sees(c).updated_by = "absent"
             \/ \E t \in Tenders : SeesEditors(c)[t] = "unset"
      [] op = "require_reason"     ->
             \/ Sees(c).tables = "absent"
             \/ \E t \in Tenders : SeesReasons(c)[t] = "missing"
      [] OTHER                     -> Sees(c).tables = "absent"

SchemaChange(c, op) ==
    CASE op = "create_tables"      -> [type |-> "present", tables |-> "present",
                                       update_reason |-> "nullable"]
      [] op = "add_updated_by"     -> [updated_by |-> "nullable"]
      [] op = "require_updated_by" -> [updated_by |-> "required"]
      [] op = "drop_updated_by"    -> [updated_by |-> "absent"]
      [] op = "require_reason"     -> [update_reason |-> "required"]
      [] op = "relax_reason"       -> [update_reason |-> "nullable"]
      [] op = "drop_tenders"       -> [tables |-> "absent", update_reason |-> "absent"]
      [] op = "stamp"              -> [version |-> Towards(c)]
      [] OTHER                     -> <<>>

\* Fault for mutation: the new column is not filled.
NoBackfill(c, op) ==
    CASE op = "drop_updated_by" ->
             [t \in {u \in Tenders : SeesEditors(c)[u] # None} |-> "unset"]
      [] op = "drop_tenders" -> [t \in Tenders |-> None]
      [] OTHER -> <<>>

EditorChange(c, op) ==
    CASE op = "backfill_updated_by" ->
             [t \in {u \in Tenders : SeesEditors(c)[u] = "unset"} |-> "creator"]
      [] op = "drop_updated_by" ->
             [t \in {u \in Tenders : SeesEditors(c)[u] # None} |-> "unset"]
      [] op = "drop_tenders" -> [t \in Tenders |-> None]
      [] OTHER -> <<>>

\* Fault for mutation: the UPDATE has lost its WHERE update_reason IS NULL.
OverwriteReasons(c, op) ==
    CASE op = "backfill_reason" ->
             [t \in {u \in Tenders : SeesReasons(c)[u] # None} |-> "placeholder"]
      [] op = "drop_log" -> [t \in Tenders |-> None]
      [] OTHER -> <<>>

ReasonChange(c, op) ==
    CASE op = "backfill_reason" ->
             [t \in {u \in Tenders : SeesReasons(c)[u] = "missing"} |-> "placeholder"]
      [] op = "drop_log" -> [t \in Tenders |-> None]
      [] OTHER -> <<>>

-------------------------------------------------------------------------------
(* Commands *)

\* The command reads alembic_version and sets out for its target.
BeginCommand(c, target) ==
    /\ command[c] = None
    /\ command' = [command EXCEPT ![c] =
                      [state |-> "running", began |-> schema.version, target |-> target,
                       at |-> schema.version, done |-> 0,
                       schema |-> <<>>, editors |-> <<>>, reasons |-> <<>>]]
    /\ UNCHANGED <<schema, editors, reasons, writer, locks, release>>

\* Fault for mutation: env.py opens no transaction, every statement commits.
ApplyAtOnce(c) ==
    LET op == NextOp(c) IN
    /\ Pending(c)
    /\ Blockers(c, LockOf(op)) = {}
    /\ ~Refused(c, op)
    /\ schema' = Over(SchemaChange(c, op), schema)
    /\ editors' = Over(EditorChange(c, op), editors)
    /\ reasons' = Over(ReasonChange(c, op), reasons)
    /\ command' = [command EXCEPT
                      ![c].at = IF op = "stamp" THEN Towards(c) ELSE @,
                      ![c].done = IF op = "stamp" THEN 0 ELSE @ + 1]
    /\ UNCHANGED <<writer, locks, release>>

Execute(c) ==
    LET op == NextOp(c) IN
    /\ Pending(c)
    /\ Take(c, LockOf(op))
    /\ ~Refused(c, op)
    /\ command' = [command EXCEPT
                      ![c].schema = Adding(@, SchemaChange(c, op)),
                      ![c].editors = Adding(@, EditorChange(c, op)),
                      ![c].reasons = Adding(@, ReasonChange(c, op)),
                      ![c].at = IF op = "stamp" THEN Towards(c) ELSE @,
                      ![c].done = IF op = "stamp" THEN 0 ELSE @ + 1]
    /\ UNCHANGED <<schema, editors, reasons, writer, release>>

CommitCommand(c) ==
    /\ Running(c) /\ command[c].at = command[c].target
    /\ schema' = Sees(c)
    /\ editors' = SeesEditors(c)
    /\ reasons' = SeesReasons(c)
    /\ command' = [command EXCEPT ![c].state = "committed"]
    /\ Release(c)
    /\ UNCHANGED <<writer, release>>

\* The exception leaves begin_transaction and the connection: all is rolled back.
Abandon(c) ==
    /\ command' = [command EXCEPT ![c].state = "failed"]
    /\ Release(c)
    /\ UNCHANGED <<schema, editors, reasons, writer, release>>

IsRefused(c) ==
    /\ Pending(c)
    /\ Blockers(c, LockOf(NextOp(c))) = {}
    /\ Refused(c, NextOp(c))

RefuseStatement(c) == IsRefused(c) /\ Abandon(c)

LoseConnection(c) == DbMayFail /\ Running(c) /\ Abandon(c)

-------------------------------------------------------------------------------
(* Writers: create_tender and update_tender_status of the release before.    *)
(* A release of Latest is that of TenderService, an earlier one has not yet   *)
(* what the later revisions add.                                              *)

Writing(w, state) == writer[w] # None /\ writer[w].state = state

\* Bound: a tender that has its one entry in the log is not updated again.
WriterRow(w, t) ==
    LET editor == CASE editors[t] = None -> IF release = 1 THEN "unset" ELSE "creator"
                    [] OTHER             -> IF release = 1 THEN editors[t] ELSE "other" IN
    /\ writer[w] = None
    /\ release >= 1
    /\ editors[t] # None => reasons[t] = None
    /\ schema.tables = "present"
    /\ schema.updated_by = "required" => editor # "unset"
    /\ release >= 2 => schema.updated_by # "absent"
    /\ \A o \in Writers : Writing(o, "row") \/ Writing(o, "log") => writer[o].tender # t
    /\ Take(w, <<"tenders", "row">>)
    /\ writer' = [writer EXCEPT ![w] = [tender |-> t, editor |-> editor, reason |-> None,
                                        state |-> "row"]]
    /\ UNCHANGED <<schema, editors, reasons, command, release>>

\* A release before a716200b052e may leave the reason out.
WriterLog(w, reason) ==
    LET t == writer[w].tender IN
    /\ Writing(w, "row")
    /\ editors[t] # None
    /\ reason = "missing" => release < 3 /\ schema.update_reason = "nullable"
    /\ Take(w, <<"log", "row">>)
    /\ writer' = [writer EXCEPT ![w].reason = reason, ![w].state = "log"]
    /\ UNCHANGED <<schema, editors, reasons, command, release>>

WriterCommit(w) ==
    LET t == writer[w].tender IN
    /\ Writing(w, "log") \/ (Writing(w, "row") /\ editors[t] = None)
    /\ editors' = [editors EXCEPT ![t] = writer[w].editor]
    /\ reasons' = [reasons EXCEPT ![t] = IF writer[w].reason = None THEN @
                                                                  ELSE writer[w].reason]
    /\ writer' = [writer EXCEPT ![w].state = "done"]
    /\ Release(w)
    /\ UNCHANGED <<schema, command, release>>

\* Fault for mutation: the unit of work does not roll back after an exception.
LeaveTransactionOpen(w) ==
    /\ Writing(w, "row") \/ Writing(w, "log")
    /\ writer' = [writer EXCEPT ![w].state = "done"]
    /\ UNCHANGED <<schema, editors, reasons, command, locks, release>>

\* A statement of the writer fails, or the request is given up: the unit of work
\* rolls back.
WriterFails(w) ==
    /\ Writing(w, "row") \/ Writing(w, "log")
    /\ writer' = [writer EXCEPT ![w].state = "done"]
    /\ Release(w)
    /\ UNCHANGED <<schema, editors, reasons, command, release>>

-------------------------------------------------------------------------------
(* PostgreSQL finds sessions that wait for each other and aborts one *)

WaitsFor(s) ==
    IF s \in Commands
    THEN IF Pending(s) THEN Blockers(s, LockOf(NextOp(s))) ELSE {}
    ELSE IF Writing(s, "row") THEN Blockers(s, <<"log", "row">>) ELSE {}

\* Who is in D waits for others in D, so that none of them goes on by itself.
Stuck(D) == D # {} /\ \A s \in D : WaitsFor(s) \cap D # {}

Deadlocked(s) == \E D \in SUBSET Sessions : s \in D /\ Stuck(D)

DeadlockVictim(c) == Running(c) /\ Deadlocked(c) /\ Abandon(c)

CommandAdvances(c) ==
    Execute(c) \/ CommitCommand(c) \/ RefuseStatement(c) \/ DeadlockVictim(c)

WriterAdvances(w) ==
    \/ \E t \in Tenders : WriterRow(w, t)
    \/ \E reason \in {"missing", "given"} : WriterLog(w, reason)
    \/ WriterCommit(w)

-------------------------------------------------------------------------------
(* Requirements *)

Upgrades(c) == command[c] # None /\ command[c].target > command[c].began

\* What the commands have left is the schema of the revision in alembic_version,
\* whatever failed on the way: env.py runs a command as one transaction.  Only
\* the enum type outlives the downgrade to base.
SchemaMatchesRevision ==
    \/ schema = SchemaAt(schema.version)
    \/ schema = [SchemaAt(Base) EXCEPT !.type = "present"]

FilledOnly(old, new, gap, value) ==
    \A t \in Tenders : new[t] # old[t] => old[t] = gap /\ new[t] = value

\* An upgrade loses no row and no value: what its commit changes are gaps, filled
\* with the creator or with the placeholder reason (WHERE ... IS NULL).
UpgradeKeepsData ==
    [][\A c \in Commands : Upgrades(c) /\ CommitCommand(c) =>
           /\ FilledOnly(editors, editors', "unset", "creator")
           /\ FilledOnly(reasons, reasons', "missing", "placeholder")]_migrationVars

\* A writer of the release before that committed an entry without a reason.
LegacyEntry(t) ==
    \E w \in Writers : Writing(w, "done") /\ writer[w].tender = t
                                          /\ writer[w].reason = "missing"

\* What an upgrade cannot be blamed for: another command has changed the revision,
\* or a writer has left a new gap behind the UPDATE that fills them.
Overtaken(c) ==
    \/ schema.version # command[c].began
    \/ NextOp(c) = "require_reason" /\ \E t \in Tenders :
           SeesReasons(c)[t] = "missing" /\ LegacyEntry(t)

\* PostgreSQL refuses a statement of an upgrade, and with it the start of the
\* service, only when it was overtaken, or after a downgrade to base.
UpgradeRefusalsExplained ==
    \A c \in Commands : Upgrades(c) /\ IsRefused(c) =>
        \/ Overtaken(c)
        \/ NextOp(c) = "create_tables" /\ schema = [SchemaAt(Base) EXCEPT !.type = "present"]

Downgrades(c) == command[c] # None /\ command[c].target < command[c].began

\* Two upgrades that have both filled the reasons and now want the log alone.
SharedBackfill(c, d) ==
    c # d /\ NextOp(c) = "require_reason" /\ NextOp(d) = "require_reason"

\* No upgrade and no request of the release before is aborted for the other by the
\* deadlock detector: both go to tenders first and then to the log (upgrade of
\* 023e8e649151 and of a716200b052e; update_tender_status).  Sessions wait in a
\* circle only with a downgrade, which goes the other way, with a command that was
\* overtaken, or when two upgrades share the lock of the UPDATE of the log.
CirclesExplained ==
    \A D \in SUBSET Sessions : Stuck(D) =>
        \/ \E c \in D \cap Commands : Downgrades(c) \/ schema.version # command[c].began
        \/ \E c, d \in D \cap Commands : SharedBackfill(c, d)

-------------------------------------------------------------------------------
(* Promised by the repository and not kept *)

\* An upgrade that nobody overtakes is applied: README.md, the migrations are
\* applied automatically when `app' starts.
UpgradesApply ==
    \A c \in Commands : Upgrades(c) /\ IsRefused(c) => Overtaken(c)
===============================================================================
