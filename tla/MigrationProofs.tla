---------------------------- MODULE MigrationProofs ----------------------------
(***************************************************************************)
(* What the migrations promise, for any number of tenders, of alembic      *)
(* commands (run by containers or by hand) and of writers of the release   *)
(* before them, whatever fails and wherever a container is killed.         *)
(*                                                                         *)
(* The argument: no two sessions hold locks that conflict (Exclusion), and *)
(* a command has a lock for everything it has changed (Locked).  The table *)
(* of the version is the one it locks last and never shares, so when it    *)
(* commits a new revision, the schema is the one it started from, and what *)
(* it sees is the schema its position in the scripts calls for (OnCourse). *)
(* The gaps it has filled stay filled, because those who could open a new  *)
(* one wait for its locks (Filled); what a writer is about to commit fits  *)
(* the schema, which cannot change under its locks (Fitting).              *)
(***************************************************************************)
EXTENDS Deployment, TLAPS

-------------------------------------------------------------------------------
(* The inductive invariant *)

\* The type invariant of the migrations, with what a command is made of.
SchemaTyped ==
    /\ schema \in Schema
    /\ editors \in [Tenders -> Editors \union {None}]
    /\ reasons \in [Tenders -> Reasons \union {None}]
    /\ locks \in [Sessions -> SUBSET ({"tenders", "log", "version"} \X {"row", "table"})]
    /\ release \in Revisions
    /\ writer \in [Writers -> Writer \union {None}]
    /\ command \in [Commands -> Command \union {None}]

Exclusion ==
    \A s, o \in Sessions : s # o =>
        \A k \in locks[s], l \in locks[o] : ~Conflict(k, l)

Changes(c, object) == object \in DOMAIN command[c].schema

\* What the command has made of an object of the revision it began with.
Ahead(c, object) ==
    IF Changes(c, object) THEN command[c].schema[object] ELSE SchemaAt(command[c].began)[object]

\* Where a running command is in its scripts: it moves from the revision it
\* began with to its target, and leaves each by a stamp.
Placed(c) ==
    LET began == command[c].began
        at == command[c].at
        target == command[c].target
        done == command[c].done
    IN
    /\ (began <= at /\ at <= target) \/ (target <= at /\ at <= began)
    /\ at = target => done = 0
    /\ at < target => done <= (IF at = 1 THEN 3 ELSE at \div 2 + 1)
    /\ at > target => done <= (IF at = 1 THEN 2 ELSE 1)

\* What a running command has changed it holds a lock for.
Locked(c) ==
    /\ Changes(c, "version") <=> command[c].at # command[c].began
    /\ Changes(c, "version") =>
           <<"version", "table">> \in locks[c] /\ schema.version = command[c].began
    /\ Changes(c, "tables") \/ Changes(c, "type") \/ Changes(c, "updated_by")
           => <<"tenders", "table">> \in locks[c]
    /\ Changes(c, "update_reason")
           => <<"log", "table">> \in locks[c] \/ <<"tenders", "table">> \in locks[c]
    /\ DOMAIN command[c].editors # {} => <<"tenders", "table">> \in locks[c]
    /\ DOMAIN command[c].reasons # {} =>
           \/ <<"log", "table">> \in locks[c]
           \/ /\ <<"log", "row">> \in locks[c]
              /\ command[c].at = 2 /\ command[c].done = 1 /\ command[c].target = 3

\* What a running command sees of the schema it began with.
OnCourse(c) ==
    LET began == command[c].began
        at == command[c].at
        up == command[c].target >= at
        done == command[c].done
    IN
    /\ Ahead(c, "type") = IF at + began + done = 0 THEN "absent" ELSE "present"
    /\ Ahead(c, "tables") =
           IF (at = 0 /\ done = 0) \/ (at = 1 /\ ~up /\ done = 2) THEN "absent" ELSE "present"
    /\ Ahead(c, "updated_by") =
           IF at = 3 \/ (at = 2 /\ (up \/ done = 0)) \/ (at = 1 /\ up /\ done = 3)
           THEN "required"
           ELSE IF at = 1 /\ up /\ done \in {1, 2} THEN "nullable" ELSE "absent"
    /\ Ahead(c, "update_reason") =
           IF (at = 0 /\ done = 0) \/ (at = 1 /\ ~up /\ done = 2) THEN "absent"
           ELSE IF (at = 3 /\ done = 0) \/ (at = 2 /\ up /\ done = 2) THEN "required"
           ELSE "nullable"
    /\ Ahead(c, "version") = at
    /\ at + done > 0 /\ began = 0 => Changes(c, "type")
    /\ at = began /\ done = 0 =>
           /\ DOMAIN command[c].schema = {}
           /\ DOMAIN command[c].editors = {} /\ DOMAIN command[c].reasons = {}

\* A column that a running command has made required has a value in every row.
FilledEditors(c) ==
    \/ Changes(c, "updated_by") /\ command[c].schema.updated_by = "required"
    \/ /\ command[c].at = 1 /\ command[c].at < command[c].target /\ command[c].done >= 2
    => \A t \in Tenders : SeesEditors(c)[t] # "unset"

FilledReasons(c) ==
    Changes(c, "update_reason") /\ command[c].schema.update_reason = "required" =>
        /\ <<"log", "table">> \in locks[c]
        /\ \A t \in Tenders : SeesReasons(c)[t] # "missing"

\* After the UPDATE, only the commit of a writer leaves an entry without a reason.
AboutToRequire(c) ==
    command[c].at = 2 /\ command[c].at < command[c].target /\ command[c].done = 1 =>
        /\ <<"log", "row">> \in locks[c]
        /\ \A t \in Tenders : SeesReasons(c)[t] = "missing" => LegacyEntry(t)

\* An upgrade only fills gaps, and they are still there.
OnlyFills(c) ==
    command[c].began < command[c].target =>
        /\ \A t \in DOMAIN command[c].editors :
               editors[t] = "unset" /\ command[c].editors[t] = "creator"
        /\ \A t \in DOMAIN command[c].reasons :
               reasons[t] = "missing" /\ command[c].reasons[t] = "placeholder"

\* A downgrade empties the log before it drops the tenders, and then both.
Empties(c) ==
    /\ command[c].began >= command[c].target =>
           /\ \A t \in DOMAIN command[c].reasons : command[c].reasons[t] = None
           /\ \/ command[c].at = 1 /\ command[c].at > command[c].target /\ command[c].done >= 1
              \/ command[c].at = 0 /\ command[c].at < command[c].began
              => DOMAIN command[c].reasons = Tenders
    /\ Changes(c, "tables") /\ command[c].schema.tables = "absent" =>
           /\ DOMAIN command[c].editors = Tenders /\ DOMAIN command[c].reasons = Tenders
           /\ \A t \in Tenders : command[c].editors[t] = None /\ command[c].reasons[t] = None
    /\ (\E t \in DOMAIN command[c].editors : command[c].editors[t] = None) =>
           Changes(c, "tables") /\ command[c].schema.tables = "absent"
    /\ DOMAIN command[c].editors # {} =>
           \/ Changes(c, "updated_by")
           \/ Changes(c, "tables") /\ command[c].schema.tables = "absent"

\* What a running command has done to the rows.
Filled(c) ==
    FilledEditors(c) /\ FilledReasons(c) /\ AboutToRequire(c) /\ OnlyFills(c) /\ Empties(c)

CommandInv(c) == Running(c) => Placed(c) /\ Locked(c) /\ OnCourse(c) /\ Filled(c)

Active(w) == Writing(w, "row") \/ Writing(w, "log")

\* What a writer is about to commit fits the schema, and its tender is its own.
Fitting(w) ==
    Active(w) =>
        /\ <<"tenders", "row">> \in locks[w]
        /\ schema.tables = "present"
        /\ writer[w].editor = "unset" => schema.updated_by # "required"
        /\ writer[w].editor # None
        /\ reasons[writer[w].tender] = None
        /\ writer[w].reason # None => <<"log", "row">> \in locks[w]
        /\ writer[w].reason = "missing" => schema.update_reason = "nullable"
        /\ \A o \in Writers \ {w} : Active(o) => writer[o].tender # writer[w].tender

\* There is no entry in the log of a tender that there is not.
EntriesHaveRows == \A t \in Tenders : editors[t] = None => reasons[t] = None

\* The rows are what PostgreSQL lets the committed schema have.
RowsFitSchema ==
    /\ schema.updated_by = "required" => \A t \in Tenders : editors[t] # "unset"
    /\ schema.update_reason = "required" => \A t \in Tenders : reasons[t] # "missing"
    /\ schema.tables = "absent" => \A t \in Tenders : editors[t] = None /\ reasons[t] = None

MigrationInv ==
    /\ SchemaTyped
    /\ Exclusion
    /\ SchemaMatchesRevision
    /\ RowsFitSchema
    /\ EntriesHaveRows
    /\ \A c \in Commands : CommandInv(c)
    /\ \A w \in Writers : Fitting(w)

-------------------------------------------------------------------------------
(* The scripts *)

Position(c, at, done, op) ==
    command[c].at = at /\ command[c].done = done /\ NextOp(c) = op

UpgradePosition(c) ==
    \/ Position(c, 0, 0, "create_tables") \/ Position(c, 0, 1, "stamp")
    \/ Position(c, 1, 0, "add_updated_by") \/ Position(c, 1, 1, "backfill_updated_by")
    \/ Position(c, 1, 2, "require_updated_by") \/ Position(c, 1, 3, "stamp")
    \/ Position(c, 2, 0, "backfill_reason") \/ Position(c, 2, 1, "require_reason")
    \/ Position(c, 2, 2, "stamp")

DowngradePosition(c) ==
    \/ Position(c, 1, 0, "drop_log") \/ Position(c, 1, 1, "drop_tenders")
    \/ Position(c, 1, 2, "stamp")
    \/ Position(c, 2, 0, "drop_updated_by") \/ Position(c, 2, 1, "stamp")
    \/ Position(c, 3, 0, "relax_reason") \/ Position(c, 3, 1, "stamp")

LEMMA CommandFields ==
    ASSUME SchemaTyped, NEW c \in Commands, command[c] # None
    PROVE  /\ command[c] \in Command
           /\ command[c].state \in {"running", "committed", "failed"}
           /\ command[c].began \in 0 .. 3 /\ command[c].target \in 0 .. 3
           /\ command[c].at \in 0 .. 3 /\ command[c].done \in 0 .. 3
BY DEF SchemaTyped, Command, Revisions, Base, Latest

LEMMA UpgradeScript ==
    /\ Upgrade[1][1] = "create_tables" /\ Upgrade[1][2] = "stamp"
    /\ Upgrade[2][1] = "add_updated_by" /\ Upgrade[2][2] = "backfill_updated_by"
    /\ Upgrade[2][3] = "require_updated_by" /\ Upgrade[2][4] = "stamp"
    /\ Upgrade[3][1] = "backfill_reason" /\ Upgrade[3][2] = "require_reason"
    /\ Upgrade[3][3] = "stamp"
BY DEF Upgrade, CreateTables, AddUpdatedBy, RequireReason

LEMMA DowngradeScript ==
    /\ Downgrade[1][1] = "drop_log" /\ Downgrade[1][2] = "drop_tenders"
    /\ Downgrade[1][3] = "stamp"
    /\ Downgrade[2][1] = "drop_updated_by" /\ Downgrade[2][2] = "stamp"
    /\ Downgrade[3][1] = "relax_reason" /\ Downgrade[3][2] = "stamp"
BY DEF Downgrade, DropTables, DropUpdatedBy, RelaxReason

\* A command that is not at its target has a statement left in the script it is in.
LEMMA ScriptPosition ==
    ASSUME SchemaTyped, NEW c \in Commands, Pending(c), Placed(c)
    PROVE  IF command[c].target > command[c].at THEN UpgradePosition(c)
                                                ELSE DowngradePosition(c)
<1>1. /\ command[c].at \in 0 .. 3 /\ command[c].done \in 0 .. 3
      /\ command[c].target \in 0 .. 3 /\ command[c].at # command[c].target
  BY CommandFields DEF Pending, Running
<1>p. PICK n \in 0 .. 3, k \in 0 .. 3, m \in 0 .. 3 :
          command[c].at = n /\ command[c].done = k /\ command[c].target = m
  BY <1>1
<1>2. CASE m > n
  <2>1. NextOp(c) = Upgrade[n + 1][k + 1]
    BY <1>2, <1>p DEF NextOp
  <2>2. n \in 0 .. 2 /\ k <= (IF n = 1 THEN 3 ELSE n \div 2 + 1)
    BY <1>p, <1>2 DEF Placed
  <2>3. UpgradePosition(c)
    BY <1>p, <2>1, <2>2, UpgradeScript DEF UpgradePosition, Position
  <2> QED BY <1>p, <1>2, <2>3
<1>3. CASE ~(m > n)
  <2>1. NextOp(c) = Downgrade[n][k + 1]
    BY <1>3, <1>p DEF NextOp
  <2>2. n \in 1 .. 3 /\ k <= (IF n = 1 THEN 2 ELSE 1)
    BY <1>p, <1>1, <1>3 DEF Placed
  <2>3. DowngradePosition(c)
    BY <1>p, <2>1, <2>2, DowngradeScript DEF DowngradePosition, Position
  <2> QED BY <1>p, <1>3, <2>3
<1> QED BY <1>2, <1>3

-------------------------------------------------------------------------------
(* What a command sees, and the locks *)

LEMMA PartDomain ==
    ASSUME NEW D, NEW S, NEW f \in Part(D, S)
    PROVE  DOMAIN f \subseteq D /\ \A x \in DOMAIN f : f[x] \in S
BY DEF Part

LEMMA CommandChanges ==
    ASSUME SchemaTyped, NEW c \in Commands, command[c] # None
    PROVE  /\ DOMAIN command[c].schema \subseteq DOMAIN StatesOf
           /\ DOMAIN command[c].editors \subseteq Tenders
           /\ DOMAIN command[c].reasons \subseteq Tenders
           /\ \A t \in DOMAIN command[c].editors :
                  command[c].editors[t] \in Editors \union {None}
           /\ \A t \in DOMAIN command[c].reasons :
                  command[c].reasons[t] \in Reasons \union {None}
<1>1. command[c] \in Command
  BY CommandFields
<1>2. /\ command[c].schema \in
             Part(DOMAIN StatesOf, UNION {StatesOf[o] : o \in DOMAIN StatesOf})
      /\ command[c].editors \in Part(Tenders, Editors \union {None})
      /\ command[c].reasons \in Part(Tenders, Reasons \union {None})
  BY <1>1 DEF Command
<1> QED BY <1>2, PartDomain

LEMMA SeesRows ==
    ASSUME SchemaTyped, NEW c \in Commands
    PROVE  /\ SeesEditors(c) = [t \in Tenders |->
                  IF t \in DOMAIN command[c].editors THEN command[c].editors[t] ELSE editors[t]]
           /\ SeesReasons(c) = [t \in Tenders |->
                  IF t \in DOMAIN command[c].reasons THEN command[c].reasons[t] ELSE reasons[t]]
BY DEF SchemaTyped, SeesEditors, SeesReasons, Over

LEMMA SeesSchema ==
    ASSUME SchemaTyped, NEW c \in Commands
    PROVE  /\ DOMAIN Sees(c) = DOMAIN StatesOf
           /\ \A object \in DOMAIN StatesOf : Sees(c)[object] =
                  IF Changes(c, object) THEN command[c].schema[object] ELSE schema[object]
BY DEF SchemaTyped, Schema, Sees, Over, Changes, StatesOf

LEMMA SessionsAre ==
    /\ \A c \in Commands : c \in Sessions /\ c \notin Writers
    /\ \A w \in Writers : w \in Sessions /\ w \notin Commands
BY MigrationAssumption DEF Sessions

LEMMA TakeExcludes ==
    ASSUME SchemaTyped, Exclusion, NEW s \in Sessions,
           NEW k \in {"tenders", "log", "version"} \X {"row", "table"}, Take(s, k)
    PROVE  /\ Exclusion'
           /\ locks' \in [Sessions -> SUBSET ({"tenders", "log", "version"} \X {"row", "table"})]
           /\ locks'[s] = locks[s] \union {k}
           /\ \A o \in Sessions \ {s} : locks'[o] = locks[o]
<1>1. /\ locks'[s] = locks[s] \union {k}
      /\ \A o \in Sessions \ {s} : locks'[o] = locks[o]
      /\ locks' \in [Sessions -> SUBSET ({"tenders", "log", "version"} \X {"row", "table"})]
  BY DEF SchemaTyped, Take
<1>2. \A o \in Sessions \ {s} : \A l \in locks[o] : ~Conflict(k, l) /\ ~Conflict(l, k)
  BY DEF Take, Blockers, Conflict
<1>3. Exclusion'
  <2> SUFFICES ASSUME NEW a \in Sessions, NEW b \in Sessions, a # b,
                      NEW m \in locks'[a], NEW l \in locks'[b]
               PROVE  ~Conflict(m, l)
    BY DEF Exclusion, Conflict
  <2>1. CASE a = s
    BY <1>1, <1>2, <2>1 DEF Exclusion
  <2>2. CASE b = s
    BY <1>1, <1>2, <2>2 DEF Exclusion
  <2>3. CASE a # s /\ b # s
    BY <1>1, <2>3 DEF Exclusion
  <2> QED BY <2>1, <2>2, <2>3
<1> QED BY <1>1, <1>3

LEMMA ReleaseExcludes ==
    ASSUME SchemaTyped, Exclusion, NEW s \in Sessions, Release(s)
    PROVE  /\ Exclusion'
           /\ locks' \in [Sessions -> SUBSET ({"tenders", "log", "version"} \X {"row", "table"})]
           /\ \A o \in Sessions \ {s} : locks'[o] = locks[o]
<1>1. /\ locks'[s] = {}
      /\ \A o \in Sessions \ {s} : locks'[o] = locks[o]
      /\ locks' \in [Sessions -> SUBSET ({"tenders", "log", "version"} \X {"row", "table"})]
  BY DEF SchemaTyped, Release
<1> QED BY <1>1 DEF Exclusion, Conflict

-------------------------------------------------------------------------------
(* The initial states, and what a step leaves alone *)

LEMMA SchemaAtTyped ==
    ASSUME NEW n \in Revisions
    PROVE  SchemaAt(n) \in Schema
BY DEF SchemaAt, Schema, StatesOf, Revisions, Base, Latest

LEMMA InitMigrationInv == ASSUME MigrationInit PROVE MigrationInv
<1>1. SchemaTyped
  <2>1. schema \in Schema
    BY SchemaAtTyped DEF MigrationInit
  <2>2. /\ editors \in [Tenders -> Editors \union {None}]
        /\ reasons \in [Tenders -> Reasons \union {None}]
    BY DEF MigrationInit, EditorsOf, ReasonsOf, Editors, Reasons
  <2> QED BY <2>1, <2>2 DEF MigrationInit, SchemaTyped
<1>2. \A c \in Commands : command[c] = None
  BY DEF MigrationInit
<1>3. \A w \in Writers : writer[w] = None
  BY DEF MigrationInit
<1>4. \A s \in Sessions : locks[s] = {}
  BY DEF MigrationInit
<1>5. schema.version = release /\ schema = SchemaAt(release) /\ release \in 0 .. 3
  BY DEF MigrationInit, SchemaAt, Revisions, Base, Latest
<1>6. RowsFitSchema
  <2>1. \A t \in Tenders : /\ editors[t] \in EditorsOf(release) \union {None}
                           /\ reasons[t] \in ReasonsOf(release) \union {None}
    BY DEF MigrationInit
  <2>2. None \notin {"unset", "missing"}
    BY NoValueAssumption DEF Editors, Reasons
  <2>3. CASE release = 0
    BY <1>5, <2>1, <2>3 DEF RowsFitSchema, SchemaAt, EditorsOf, ReasonsOf
  <2>4. CASE release = 1
    BY <1>5, <2>4 DEF RowsFitSchema, SchemaAt
  <2>5. CASE release = 2
    BY <1>5, <2>1, <2>2, <2>5 DEF RowsFitSchema, SchemaAt, EditorsOf
  <2>6. CASE release = 3
    BY <1>5, <2>1, <2>2, <2>6 DEF RowsFitSchema, SchemaAt, EditorsOf, ReasonsOf
  <2> QED BY <1>5, <2>3, <2>4, <2>5, <2>6
<1> QED BY <1>1, <1>2, <1>3, <1>4, <1>5, <1>6
        DEF MigrationInv, Exclusion, SchemaMatchesRevision, EntriesHaveRows, CommandInv, Running,
            Fitting, Active, Writing, MigrationInit

LEMMA NothingIsNone == None \notin {"unset", "creator", "other", "missing", "given", "placeholder"}
BY NoValueAssumption DEF Editors, Reasons

\* Between the first statement of 023e8e649151 and its stamp the column is its own.
LEMMA AddsColumn ==
    ASSUME SchemaTyped, NEW c \in Commands, command[c] # None, Placed(c), OnCourse(c),
           command[c].at = 1, command[c].target > 1, command[c].done >= 1
    PROVE  Changes(c, "updated_by")
<1>1. /\ command[c].began \in {0, 1} /\ command[c].done \in {1, 2, 3}
      /\ command[c].target \in {2, 3}
  BY CommandFields DEF Placed
<1>2. Ahead(c, "updated_by") # "absent"
  BY <1>1 DEF OnCourse
<1>3. SchemaAt(command[c].began)["updated_by"] = "absent"
  BY <1>1 DEF SchemaAt
<1> QED BY <1>2, <1>3 DEF Ahead

\* The rows and the version a command has locked are all that its invariant needs.
LEMMA CommandKept ==
    ASSUME SchemaTyped, SchemaTyped', NEW c \in Commands, CommandInv(c),
           command'[c] = command[c], locks'[c] = locks[c],
           <<"version", "table">> \in locks[c] => schema'.version = schema.version,
           <<"tenders", "table">> \in locks[c] => editors' = editors,
           \A t \in Tenders : LegacyEntry(t) => LegacyEntry(t)',
           <<"log", "table">> \in locks[c] => reasons' = reasons,
           <<"log", "row">> \in locks[c] =>
               \A t \in Tenders : reasons'[t] = reasons[t]
                                  \/ (reasons[t] = None
                                      /\ (reasons'[t] = "missing" => LegacyEntry(t)'))
    PROVE  CommandInv(c)'
<1> SUFFICES ASSUME Running(c)' PROVE (Placed(c) /\ Locked(c) /\ OnCourse(c) /\ Filled(c))'
  BY DEF CommandInv
<1>0. Running(c) /\ command[c] # None
  BY DEF Running
<1>1. Placed(c) /\ Locked(c) /\ OnCourse(c) /\ Filled(c)
  BY <1>0 DEF CommandInv
<1>2. /\ SeesEditors(c) = [t \in Tenders |->
             IF t \in DOMAIN command[c].editors THEN command[c].editors[t] ELSE editors[t]]
      /\ SeesReasons(c) = [t \in Tenders |->
             IF t \in DOMAIN command[c].reasons THEN command[c].reasons[t] ELSE reasons[t]]
      /\ SeesEditors(c)' = [t \in Tenders |->
             IF t \in DOMAIN command[c].editors THEN command[c].editors[t] ELSE editors'[t]]
      /\ SeesReasons(c)' = [t \in Tenders |->
             IF t \in DOMAIN command[c].reasons THEN command[c].reasons[t] ELSE reasons'[t]]
  BY DEF SchemaTyped, SeesEditors, SeesReasons, Over
<1>3. \A object : Changes(c, object)' = Changes(c, object)
                  /\ Ahead(c, object)' = Ahead(c, object)
  BY DEF Changes, Ahead
<1>4. Placed(c)'
  BY <1>1 DEF Placed
<1>5. Locked(c)'
  BY <1>1, <1>3 DEF Locked
<1>6. OnCourse(c)'
  BY <1>1, <1>3 DEF OnCourse
<1>7. Filled(c)'
  <2>1. FilledEditors(c)'
    <3>1. FilledEditors(c) /\ (Changes(c, "updated_by") => editors' = editors)
      BY <1>1 DEF Filled, Locked
    <3>2. command[c].at = 1 /\ command[c].at < command[c].target /\ command[c].done >= 2
              => Changes(c, "updated_by")
      BY <1>0, <1>1, AddsColumn, CommandFields
    <3> QED BY <1>2, <1>3, <3>1, <3>2 DEF FilledEditors
  <2>2. FilledReasons(c)'
    BY <1>1, <1>2, <1>3 DEF Filled, FilledReasons
  <2>3. AboutToRequire(c)'
    BY <1>1, <1>2, <1>3 DEF Filled, AboutToRequire
  <2>4. OnlyFills(c)'
    <3>1. DOMAIN command[c].editors \subseteq Tenders /\ DOMAIN command[c].reasons \subseteq Tenders
      BY <1>0, CommandChanges
    <3>2. \A t \in DOMAIN command[c].editors : editors'[t] = editors[t]
      BY <1>1 DEF Locked
    <3>3. \A t \in DOMAIN command[c].reasons : reasons[t] # None => reasons'[t] = reasons[t]
      BY <1>1, <3>1 DEF Locked
    <3> QED BY <1>1, <3>2, <3>3, NothingIsNone DEF Filled, OnlyFills
  <2>5. Empties(c)'
    BY <1>1, <1>3 DEF Filled, Empties
  <2> QED BY <2>1, <2>2, <2>3, <2>4, <2>5 DEF Filled
<1> QED BY <1>4, <1>5, <1>6, <1>7

\* The same for a writer that has written and not committed.
LEMMA WriterKept ==
    ASSUME NEW w \in Writers, Fitting(w),
           writer'[w] = writer[w], locks'[w] = locks[w],
           <<"tenders", "row">> \in locks[w] =>
               schema'.tables = schema.tables /\ schema'.updated_by = schema.updated_by,
           <<"tenders", "row">> \in locks[w] /\ <<"log", "row">> \in locks[w] =>
               schema'.update_reason = schema.update_reason,
           Active(w) => reasons'[writer[w].tender] = reasons[writer[w].tender],
           \A o \in Writers \ {w} :
               Active(o)' /\ Active(w) => writer'[o].tender # writer[w].tender
    PROVE  Fitting(w)'
<1>1. Active(w)' <=> Active(w)
  BY DEF Active, Writing
<1>2. SUFFICES ASSUME Active(w) PROVE Fitting(w)'
  BY <1>1 DEF Fitting
<1>3. \A o \in Writers \ {w} : Active(o)' => writer'[o].tender # writer'[w].tender
  BY <1>2
<1>4. /\ <<"tenders", "row">> \in locks'[w]
      /\ schema'.tables = "present"
      /\ writer'[w].editor = "unset" => schema'.updated_by # "required"
      /\ writer'[w].editor # None
      /\ reasons'[writer'[w].tender] = None
      /\ writer'[w].reason # None => <<"log", "row">> \in locks'[w]
  BY <1>2 DEF Fitting
<1>5. writer'[w].reason = "missing" => schema'.update_reason = "nullable"
  BY <1>2, <1>4, NothingIsNone DEF Fitting
<1> QED BY <1>3, <1>4, <1>5 DEF Fitting

\* A step that leaves the database and the other sessions alone.
LEMMA DatabaseKept ==
    ASSUME MigrationInv, SchemaTyped', Exclusion', NEW s \in Sessions,
           UNCHANGED <<schema, editors, reasons>>,
           \A c \in Commands \ {s} : command'[c] = command[c] /\ locks'[c] = locks[c],
           \A w \in Writers \ {s} : writer'[w] = writer[w] /\ locks'[w] = locks[w],
           s \in Commands => CommandInv(s)',
           s \in Writers =>
               /\ Fitting(s)' /\ ~Writing(s, "done")
               /\ \A o \in Writers \ {s} :
                      Active(s)' /\ Active(o) => writer'[s].tender # writer[o].tender
    PROVE  MigrationInv'
<1>1. SchemaMatchesRevision' /\ RowsFitSchema' /\ EntriesHaveRows'
  BY DEF MigrationInv, SchemaMatchesRevision, RowsFitSchema, EntriesHaveRows
<1>2. \A t \in Tenders : LegacyEntry(t) => LegacyEntry(t)'
  BY DEF LegacyEntry, Writing
<1>3. ASSUME NEW c \in Commands PROVE CommandInv(c)'
  <2>1. CASE c # s
    BY <1>2, <2>1, CommandKept DEF MigrationInv
  <2> QED BY <2>1
<1>4. ASSUME NEW w \in Writers PROVE Fitting(w)'
  <2>1. CASE w # s
    <3>1. ASSUME NEW o \in Writers \ {w}, Active(o)', Active(w)
          PROVE  writer'[o].tender # writer[w].tender
      <4>1. CASE o = s
        BY <2>1, <3>1, <4>1
      <4>2. CASE o # s
        <5>1. Active(o)
          BY <3>1, <4>2 DEF Active, Writing
        <5> QED BY <3>1, <4>2, <5>1 DEF MigrationInv, Fitting
      <4> QED BY <4>1, <4>2
    <3> QED BY <2>1, <3>1, WriterKept DEF MigrationInv
  <2> QED BY <2>1
<1> QED BY <1>1, <1>3, <1>4 DEF MigrationInv

-------------------------------------------------------------------------------
(* Commands begin, and give up *)

LEMMA BeginTyped ==
    ASSUME SchemaTyped, NEW c \in Commands, NEW n \in Revisions, BeginCommand(c, n)
    PROVE  SchemaTyped' /\ command'[c] =
               [state |-> "running", began |-> schema.version, target |-> n,
                at |-> schema.version, done |-> 0,
                schema |-> <<>>, editors |-> <<>>, reasons |-> <<>>]
<1>1. schema.version \in Revisions
  BY DEF SchemaTyped, Schema, StatesOf
<1>2. \A D, S : <<>> \in Part(D, S)
  <2>1. \A S : <<>> \in [{} -> S]
    OBVIOUS
  <2> QED BY <2>1 DEF Part
<1>3. [state |-> "running", began |-> schema.version, target |-> n,
       at |-> schema.version, done |-> 0,
       schema |-> <<>>, editors |-> <<>>, reasons |-> <<>>] \in Command
  BY <1>1, <1>2 DEF Command
<1> QED BY <1>3 DEF SchemaTyped, BeginCommand

LEMMA BeginKeeps ==
    ASSUME MigrationInv, NEW c \in Commands, NEW n \in Revisions, BeginCommand(c, n)
    PROVE  MigrationInv'
<1>1. /\ SchemaTyped'
      /\ command'[c] = [state |-> "running", began |-> schema.version, target |-> n,
                        at |-> schema.version, done |-> 0,
                        schema |-> <<>>, editors |-> <<>>, reasons |-> <<>>]
  BY BeginTyped DEF MigrationInv
<1>2. /\ UNCHANGED <<schema, editors, reasons, writer, locks>>
      /\ \A d \in Commands \ {c} : command'[d] = command[d]
  BY DEF BeginCommand, MigrationInv, SchemaTyped
<1>3. /\ command'[c].began = schema.version /\ command'[c].at = schema.version
      /\ command'[c].target = n /\ command'[c].done = 0
      /\ DOMAIN command'[c].schema = {} /\ DOMAIN command'[c].editors = {}
      /\ DOMAIN command'[c].reasons = {}
  BY <1>1
<1>4. schema.version \in 0 .. 3 /\ n \in 0 .. 3
  BY DEF MigrationInv, SchemaTyped, Schema, StatesOf, Revisions, Base, Latest
<1>5. /\ \A object : ~Changes(c, object)'
      /\ \A object : Ahead(c, object)' = SchemaAt(schema.version)[object]
  BY <1>3 DEF Changes, Ahead
<1>6. Placed(c)'
  BY <1>3, <1>4 DEF Placed
<1>7. Locked(c)'
  BY <1>3, <1>5 DEF Locked
<1>8. OnCourse(c)'
  BY <1>3, <1>4, <1>5 DEF OnCourse, SchemaAt
<1>9. Filled(c)'
  BY <1>3, <1>4, <1>5
     DEF Filled, FilledEditors, FilledReasons, AboutToRequire, OnlyFills, Empties
<1>10. CommandInv(c)'
  BY <1>6, <1>7, <1>8, <1>9 DEF CommandInv
<1> QED BY <1>1, <1>2, <1>10, DatabaseKept, SessionsAre DEF MigrationInv, Exclusion

LEMMA AbandonKeeps ==
    ASSUME MigrationInv, NEW c \in Commands, Running(c), Abandon(c)
    PROVE  MigrationInv'
<1>1. command[c] \in Command
  BY CommandFields DEF MigrationInv, Running
<1>2. command' = [command EXCEPT ![c] = [command[c] EXCEPT !.state = "failed"]]
  BY DEF Abandon
<1>3. [command[c] EXCEPT !.state = "failed"] \in Command
  BY <1>1 DEF Command
<1>4. command' \in [Commands -> Command \union {None}]
  BY <1>2, <1>3 DEF MigrationInv, SchemaTyped
<1>5. command'[c].state = "failed" /\ \A d \in Commands \ {c} : command'[d] = command[d]
  BY <1>1, <1>2 DEF MigrationInv, SchemaTyped, Command
<1>6. /\ Exclusion'
      /\ locks' \in [Sessions -> SUBSET ({"tenders", "log", "version"} \X {"row", "table"})]
      /\ \A o \in Sessions \ {c} : locks'[o] = locks[o]
  BY ReleaseExcludes, SessionsAre DEF MigrationInv, Abandon
<1>7. SchemaTyped'
  BY <1>4, <1>6 DEF MigrationInv, SchemaTyped, Abandon
<1>8. CommandInv(c)'
  BY <1>5 DEF CommandInv, Running
<1>9. UNCHANGED <<schema, editors, reasons, writer>>
  BY DEF Abandon
<1> QED BY <1>5, <1>6, <1>7, <1>8, <1>9, DatabaseKept, SessionsAre

-------------------------------------------------------------------------------
(* Writers *)

LEMMA WriterFields ==
    ASSUME SchemaTyped, NEW w \in Writers, writer[w] # None
    PROVE  /\ writer[w] \in Writer
           /\ writer[w].tender \in Tenders /\ writer[w].editor \in Editors
           /\ writer[w].reason \in Reasons \union {None}
           /\ writer[w].state \in {"row", "log", "done"}
BY DEF SchemaTyped, Writer

\* The INSERT or UPDATE of a tender, under its row lock.
LEMMA WriterRowKeeps ==
    ASSUME MigrationInv, NEW w \in Writers, NEW t \in Tenders, WriterRow(w, t)
    PROVE  MigrationInv'
<1> DEFINE editor == CASE editors[t] = None -> IF release = 1 THEN "unset" ELSE "creator"
                       [] OTHER             -> IF release = 1 THEN editors[t] ELSE "other"
           row == [tender |-> t, editor |-> editor, reason |-> None, state |-> "row"]
<1>1. /\ writer' = [writer EXCEPT ![w] = row]
      /\ schema.tables = "present"
      /\ schema.updated_by = "required" => editor # "unset"
      /\ editors[t] # None => reasons[t] = None
      /\ \A o \in Writers : Active(o) => writer[o].tender # t
      /\ writer[w] = None
      /\ UNCHANGED <<schema, editors, reasons, command, release>>
  BY DEF WriterRow, Active
<1>2. editors[t] \in Editors \union {None}
  BY DEF MigrationInv, SchemaTyped
<1>3. editor \in Editors
  BY <1>2 DEF Editors
<1> HIDE DEF editor
<1>4. row \in Writer
  BY <1>3 DEF Writer
<1>5. writer' \in [Writers -> Writer \union {None}] /\ writer'[w] = row
      /\ \A o \in Writers \ {w} : writer'[o] = writer[o]
  BY <1>1, <1>4 DEF MigrationInv, SchemaTyped
<1>6. /\ Exclusion'
      /\ locks' \in [Sessions -> SUBSET ({"tenders", "log", "version"} \X {"row", "table"})]
      /\ locks'[w] = locks[w] \union {<<"tenders", "row">>}
      /\ \A o \in Sessions \ {w} : locks'[o] = locks[o]
  BY TakeExcludes, SessionsAre DEF MigrationInv, WriterRow
<1>7. SchemaTyped'
  BY <1>1, <1>5, <1>6 DEF MigrationInv, SchemaTyped
<1>8. reasons[t] = None
  BY <1>1 DEF MigrationInv, EntriesHaveRows
<1>9. Fitting(w)'
  <2>1. /\ writer'[w].tender = t /\ writer'[w].editor = editor /\ writer'[w].reason = None
        /\ writer'[w].state = "row"
    BY <1>5
  <2>2. \A o \in Writers \ {w} : Active(o)' => writer'[o].tender # t
    BY <1>1, <1>5 DEF Active, Writing
  <2>3. editor # None
    BY <1>3, NoValueAssumption
  <2> QED BY <1>1, <1>6, <1>8, <2>1, <2>2, <2>3, NothingIsNone DEF Fitting
<1>10. \A o \in Writers \ {w} : Active(o) => writer'[w].tender # writer[o].tender
  BY <1>1, <1>5
<1>11. ~Writing(w, "done")
  BY <1>1 DEF Writing
<1> QED BY <1>1, <1>5, <1>6, <1>7, <1>9, <1>10, <1>11, DatabaseKept, SessionsAre

\* The INSERT of an entry.
LEMMA WriterLogKeeps ==
    ASSUME MigrationInv, NEW w \in Writers, NEW reason \in {"missing", "given"},
           WriterLog(w, reason)
    PROVE  MigrationInv'
<1>1. /\ writer[w] # None /\ writer[w].state = "row"
      /\ reason = "missing" => schema.update_reason = "nullable"
      /\ writer' = [writer EXCEPT ![w] =
                       [[writer[w] EXCEPT !.reason = reason] EXCEPT !.state = "log"]]
      /\ UNCHANGED <<schema, editors, reasons, command, release>>
  BY DEF WriterLog, Writing, MigrationInv, SchemaTyped
<1>2. writer[w] \in Writer
  BY <1>1, WriterFields DEF MigrationInv
<1> DEFINE row == [[writer[w] EXCEPT !.reason = reason] EXCEPT !.state = "log"]
<1>3. /\ row \in Writer /\ row.tender = writer[w].tender /\ row.editor = writer[w].editor
      /\ row.reason = reason /\ row.state = "log"
  BY <1>2 DEF Writer, Reasons
<1>4. writer' \in [Writers -> Writer \union {None}] /\ writer'[w] = row
      /\ \A o \in Writers \ {w} : writer'[o] = writer[o]
  BY <1>1, <1>3 DEF MigrationInv, SchemaTyped
<1> HIDE DEF row
<1>5. /\ Exclusion'
      /\ locks' \in [Sessions -> SUBSET ({"tenders", "log", "version"} \X {"row", "table"})]
      /\ locks'[w] = locks[w] \union {<<"log", "row">>}
      /\ \A o \in Sessions \ {w} : locks'[o] = locks[o]
  BY TakeExcludes, SessionsAre DEF MigrationInv, WriterLog
<1>6. SchemaTyped'
  BY <1>1, <1>4, <1>5 DEF MigrationInv, SchemaTyped
<1>7. Active(w) /\ Fitting(w) /\ ~Writing(w, "done")
  BY <1>1 DEF MigrationInv, Active, Writing
<1>8. \A o \in Writers \ {w} : Active(o) => writer'[w].tender # writer[o].tender
  BY <1>3, <1>4, <1>7 DEF Fitting
<1>9. Fitting(w)'
  <2>1. \A o \in Writers \ {w} : Active(o)' => writer'[o].tender # writer'[w].tender
    BY <1>4, <1>8 DEF Active, Writing
  <2> QED BY <1>1, <1>3, <1>4, <1>5, <1>7, <2>1 DEF Fitting
<1> QED BY <1>1, <1>4, <1>5, <1>6, <1>7, <1>8, <1>9, DatabaseKept, SessionsAre

LEMMA WriterFailsKeeps ==
    ASSUME MigrationInv, NEW w \in Writers, WriterFails(w)
    PROVE  MigrationInv'
<1>1. /\ writer[w] # None /\ writer[w].state \in {"row", "log"}
      /\ writer' = [writer EXCEPT ![w] = [writer[w] EXCEPT !.state = "done"]]
      /\ UNCHANGED <<schema, editors, reasons, command, release>>
  BY DEF WriterFails, Writing, MigrationInv, SchemaTyped
<1>2. writer[w] \in Writer
  BY <1>1, WriterFields DEF MigrationInv
<1>3. [writer[w] EXCEPT !.state = "done"] \in Writer
  BY <1>2 DEF Writer
<1>4. writer' \in [Writers -> Writer \union {None}] /\ writer'[w].state = "done"
      /\ \A o \in Writers \ {w} : writer'[o] = writer[o]
  BY <1>1, <1>2, <1>3 DEF MigrationInv, SchemaTyped, Writer
<1>5. /\ Exclusion'
      /\ locks' \in [Sessions -> SUBSET ({"tenders", "log", "version"} \X {"row", "table"})]
      /\ \A o \in Sessions \ {w} : locks'[o] = locks[o]
  BY ReleaseExcludes, SessionsAre DEF MigrationInv, WriterFails
<1>6. SchemaTyped'
  BY <1>1, <1>4, <1>5 DEF MigrationInv, SchemaTyped
<1>7. ~Active(w)' /\ ~Writing(w, "done")
  BY <1>1, <1>4 DEF Active, Writing
<1>8. Fitting(w)'
  BY <1>7 DEF Fitting
<1> QED BY <1>1, <1>4, <1>5, <1>6, <1>7, <1>8, DatabaseKept, SessionsAre

\* The commit of a writer: what it leaves fits the schema, and who could be in
\* its way waits for its locks.
LEMMA WriterCommitKeeps ==
    ASSUME MigrationInv, NEW w \in Writers, WriterCommit(w)
    PROVE  MigrationInv'
<1>0. writer[w] # None /\ writer[w] \in Writer /\ writer[w].tender \in Tenders
  BY WriterFields DEF MigrationInv, WriterCommit, Writing
<1>t. PICK t \in Tenders : t = writer[w].tender
  BY <1>0
<1>1. /\ writer[w] # None /\ writer[w].state \in {"row", "log"}
      /\ writer' = [writer EXCEPT ![w] = [writer[w] EXCEPT !.state = "done"]]
      /\ editors' = [editors EXCEPT ![t] = writer[w].editor]
      /\ reasons' = [reasons EXCEPT ![t] = IF writer[w].reason = None THEN reasons[t]
                                                                     ELSE writer[w].reason]
      /\ UNCHANGED <<schema, command, release>>
  BY <1>t DEF WriterCommit, Writing, MigrationInv, SchemaTyped
<1>2. /\ writer[w] \in Writer /\ writer[w].editor \in Editors
      /\ writer[w].reason \in Reasons \union {None}
  BY <1>1, WriterFields DEF MigrationInv
<1>3. [writer[w] EXCEPT !.state = "done"] \in Writer
  BY <1>2 DEF Writer
<1>4. /\ writer' \in [Writers -> Writer \union {None}]
      /\ \A o \in Writers \ {w} : writer'[o] = writer[o]
      /\ writer'[w] # None /\ writer'[w].state = "done"
      /\ writer'[w].tender = t /\ writer'[w].reason = writer[w].reason
  BY <1>1, <1>2, <1>3, <1>t, NoValueAssumption DEF MigrationInv, SchemaTyped, Writer
<1>5. Active(w) /\ Fitting(w)
  BY <1>1 DEF MigrationInv, Active, Writing
<1>6. /\ <<"tenders", "row">> \in locks[w] /\ schema.tables = "present"
      /\ writer[w].editor = "unset" => schema.updated_by # "required"
      /\ writer[w].editor # None /\ reasons[t] = None
      /\ writer[w].reason # None => <<"log", "row">> \in locks[w]
      /\ writer[w].reason = "missing" => schema.update_reason = "nullable"
      /\ \A o \in Writers \ {w} : Active(o) => writer[o].tender # t
  BY <1>5, <1>t DEF Fitting
<1>7. /\ \A u \in Tenders \ {t} : editors'[u] = editors[u] /\ reasons'[u] = reasons[u]
      /\ editors'[t] = writer[w].editor /\ reasons'[t] = writer[w].reason
      /\ editors' \in [Tenders -> Editors \union {None}]
      /\ reasons' \in [Tenders -> Reasons \union {None}]
  BY <1>1, <1>2, <1>6 DEF MigrationInv, SchemaTyped
<1>8. /\ Exclusion'
      /\ locks' \in [Sessions -> SUBSET ({"tenders", "log", "version"} \X {"row", "table"})]
      /\ \A o \in Sessions \ {w} : locks'[o] = locks[o]
  BY ReleaseExcludes, SessionsAre DEF MigrationInv, WriterCommit
<1>9. SchemaTyped'
  BY <1>1, <1>4, <1>7, <1>8 DEF MigrationInv, SchemaTyped
<1>10. SchemaMatchesRevision'
  BY <1>1 DEF MigrationInv, SchemaMatchesRevision
<1>11. RowsFitSchema' /\ EntriesHaveRows'
  <2>1. schema'.updated_by = "required" => \A u \in Tenders : editors'[u] # "unset"
    BY <1>1, <1>6, <1>7 DEF MigrationInv, RowsFitSchema
  <2>2. schema'.update_reason = "required" => \A u \in Tenders : reasons'[u] # "missing"
    BY <1>1, <1>6, <1>7 DEF MigrationInv, RowsFitSchema
  <2>3. schema'.tables # "absent"
    BY <1>1, <1>6
  <2>4. EntriesHaveRows'
    BY <1>6, <1>7 DEF MigrationInv, EntriesHaveRows
  <2> QED BY <2>1, <2>2, <2>3, <2>4 DEF RowsFitSchema
<1>12. /\ \A u \in Tenders : LegacyEntry(u) => LegacyEntry(u)'
       /\ writer[w].reason = "missing" => LegacyEntry(t)'
  BY <1>1, <1>4 DEF LegacyEntry, Writing
<1>13. ASSUME NEW c \in Commands PROVE CommandInv(c)'
  <2>1. /\ c \in Sessions /\ w \in Sessions /\ c # w
    BY SessionsAre
  <2>2. <<"tenders", "table">> \notin locks[c]
    BY <2>1, <1>6 DEF MigrationInv, Exclusion, Conflict
  <2>3. <<"log", "table">> \in locks[c] => reasons' = reasons
    <3>1. <<"log", "table">> \in locks[c] => writer[w].reason = None
      BY <2>1, <1>6 DEF MigrationInv, Exclusion, Conflict
    <3>2. writer[w].reason = None => \A u \in Tenders : reasons'[u] = reasons[u]
      BY <1>6, <1>7
    <3> QED BY <1>7, <3>1, <3>2 DEF MigrationInv, SchemaTyped
  <2>4. \A u \in Tenders : reasons'[u] = reasons[u]
            \/ (reasons[u] = None /\ (reasons'[u] = "missing" => LegacyEntry(u)'))
    BY <1>6, <1>7, <1>12
  <2> QED BY <1>1, <1>8, <1>9, <1>12, <2>1, <2>2, <2>3, <2>4, CommandKept DEF MigrationInv
<1>14. ASSUME NEW o \in Writers PROVE Fitting(o)'
  <2>1. CASE o = w
    BY <1>4, <2>1 DEF Fitting, Active, Writing
  <2>2. CASE o # w
    <3>1. Active(o) => writer[o].tender # t /\ writer[o].tender \in Tenders
      BY <1>6, <2>2, WriterFields DEF MigrationInv, Active, Writing
    <3>2. Active(o) => reasons'[writer[o].tender] = reasons[writer[o].tender]
      BY <1>7, <3>1
    <3>3. ASSUME NEW x \in Writers \ {o}, Active(x)', Active(o)
          PROVE  writer'[x].tender # writer[o].tender
      <4>1. x # w /\ Active(x)
        BY <1>4, <3>3 DEF Active, Writing
      <4> QED BY <1>4, <3>3, <4>1 DEF MigrationInv, Fitting
    <3> QED BY <1>1, <1>4, <1>8, <2>2, <3>2, <3>3, WriterKept, SessionsAre DEF MigrationInv
  <2> QED BY <2>1, <2>2
<1> QED BY <1>8, <1>9, <1>10, <1>11, <1>13, <1>14 DEF MigrationInv

-------------------------------------------------------------------------------
(* The commit of a command *)

LEMMA CommitFields ==
    ASSUME SchemaTyped, NEW c \in Commands, CommitCommand(c)
    PROVE  /\ command' \in [Commands -> Command \union {None}]
           /\ command'[c] # None /\ command'[c].state = "committed"
           /\ command'[c].target = command[c].target
           /\ \A d \in Commands \ {c} : command'[d] = command[d]
<1>1. command[c] \in Command
  BY CommandFields DEF CommitCommand, Running
<1>2. command' = [command EXCEPT ![c] = [command[c] EXCEPT !.state = "committed"]]
  BY DEF CommitCommand
<1>3. [command[c] EXCEPT !.state = "committed"] \in Command
  BY <1>1 DEF Command
<1>4. command'[c] = [command[c] EXCEPT !.state = "committed"]
  BY <1>2 DEF SchemaTyped
<1>5. /\ command'[c].state = "committed" /\ command'[c].target = command[c].target
      /\ command'[c] # None
  BY <1>1, <1>3, <1>4, NoValueAssumption DEF Command
<1> QED BY <1>2, <1>3, <1>5 DEF SchemaTyped

\* A command that arrives at its target has changed nothing, or it moves the
\* version under a lock that nobody else has.
LEMMA CommitPosition ==
    ASSUME MigrationInv, NEW c \in Commands, CommitCommand(c)
    PROVE  /\ Placed(c) /\ Locked(c) /\ OnCourse(c) /\ Filled(c)
           /\ command[c] # None /\ command[c].at = command[c].target /\ command[c].done = 0
           /\ command[c].at \in 0 .. 3 /\ command[c].began \in 0 .. 3
           /\ command[c].at # command[c].began =>
                  schema.version = command[c].began /\ <<"version", "table">> \in locks[c]
<1>1. Running(c) /\ command[c].at = command[c].target
  BY DEF CommitCommand
<1>2. Placed(c) /\ Locked(c) /\ OnCourse(c) /\ Filled(c)
  BY <1>1 DEF MigrationInv, CommandInv
<1> QED BY <1>1, <1>2, CommandFields DEF MigrationInv, Running, Placed, Locked

LEMMA IdleCommitKeeps ==
    ASSUME MigrationInv, NEW c \in Commands, CommitCommand(c), command[c].at = command[c].began
    PROVE  MigrationInv' /\ UNCHANGED <<schema, editors, reasons>>
<1>1. /\ DOMAIN command[c].schema = {} /\ DOMAIN command[c].editors = {}
      /\ DOMAIN command[c].reasons = {}
  BY CommitPosition DEF OnCourse
<1>2. schema' = schema /\ editors' = editors /\ reasons' = reasons
  BY <1>1 DEF CommitCommand, Sees, SeesEditors, SeesReasons, Over, MigrationInv, SchemaTyped, Schema
<1>3. /\ Exclusion'
      /\ locks' \in [Sessions -> SUBSET ({"tenders", "log", "version"} \X {"row", "table"})]
      /\ \A o \in Sessions \ {c} : locks'[o] = locks[o]
  BY ReleaseExcludes, SessionsAre DEF MigrationInv, CommitCommand
<1>4. SchemaTyped'
  BY <1>2, <1>3, CommitFields DEF MigrationInv, SchemaTyped, CommitCommand
<1>5. CommandInv(c)'
  BY CommitFields DEF CommandInv, Running, MigrationInv
<1>6. writer' = writer
  BY DEF CommitCommand
<1> QED BY <1>2, <1>3, <1>4, <1>5, <1>6, CommitFields, DatabaseKept, SessionsAre DEF MigrationInv

\* A commit that moves the version leaves the schema of its target.
LEMMA CommitSchema ==
    ASSUME MigrationInv, NEW c \in Commands, CommitCommand(c),
           command[c].at # command[c].began
    PROVE  /\ schema' = IF command[c].at = 0 THEN [SchemaAt(0) EXCEPT !.type = "present"]
                                             ELSE SchemaAt(command[c].at)
           /\ schema' \in Schema
<1>1. /\ Placed(c) /\ OnCourse(c)
      /\ command[c].at = command[c].target /\ command[c].done = 0
      /\ schema.version = command[c].began
  BY CommitPosition
<1>p. PICK n \in 0 .. 3, b \in 0 .. 3 : command[c].at = n /\ command[c].began = b /\ n # b
  BY CommitPosition
<1>2. /\ DOMAIN schema' = {"type", "tables", "updated_by", "update_reason", "version"}
      /\ \A object \in {"type", "tables", "updated_by", "update_reason", "version"} :
             schema'[object] = IF Changes(c, object) THEN command[c].schema[object]
                                                     ELSE schema[object]
  BY SeesSchema DEF CommitCommand, MigrationInv, StatesOf
<1>3. \/ schema = SchemaAt(b)
      \/ b = 0 /\ schema = [SchemaAt(0) EXCEPT !.type = "present"]
  BY <1>1, <1>p DEF MigrationInv, SchemaMatchesRevision, SchemaAt, Base
<1>4. \A object \in {"tables", "updated_by", "update_reason", "version"} :
          schema[object] = SchemaAt(b)[object]
  BY <1>3 DEF SchemaAt
<1>5. \A object \in {"tables", "updated_by", "update_reason", "version"} :
          schema'[object] = Ahead(c, object)
  BY <1>2, <1>4, <1>p DEF Ahead
<1>6. schema'["type"] = "present"
  <2>1. Ahead(c, "type") = "present"
    BY <1>1, <1>p DEF OnCourse
  <2>2. CASE b = 0
    <3>1. Changes(c, "type")
      BY <1>1, <1>p, <2>2 DEF OnCourse
    <3> QED BY <1>2, <2>1, <3>1 DEF Ahead
  <2>3. CASE b # 0
    <3>1. schema["type"] = "present"
      BY <1>3, <2>3 DEF SchemaAt
    <3> QED BY <1>2, <2>1, <3>1 DEF Ahead
  <2> QED BY <2>2, <2>3
<1>7. /\ schema'["tables"] = IF n = 0 THEN "absent" ELSE "present"
      /\ schema'["updated_by"] = IF n >= 2 THEN "required" ELSE "absent"
      /\ schema'["update_reason"] =
             IF n = 0 THEN "absent" ELSE IF n = 3 THEN "required" ELSE "nullable"
      /\ schema'["version"] = n
  BY <1>1, <1>5, <1>p DEF OnCourse
<1>8. schema' = [type |-> schema'["type"], tables |-> schema'["tables"],
                 updated_by |-> schema'["updated_by"],
                 update_reason |-> schema'["update_reason"], version |-> schema'["version"]]
  BY <1>2 DEF CommitCommand, Sees, Over
<1>9. schema' = IF n = 0 THEN [SchemaAt(0) EXCEPT !.type = "present"] ELSE SchemaAt(n)
  BY <1>6, <1>7, <1>8 DEF SchemaAt
<1>10. schema' \in Schema
  BY <1>6, <1>7, <1>8 DEF Schema, StatesOf, Revisions, Base, Latest
<1> QED BY <1>9, <1>10, <1>p

LEMMA CommitRows ==
    ASSUME MigrationInv, NEW c \in Commands, CommitCommand(c)
    PROVE  /\ editors' = [t \in Tenders |-> IF t \in DOMAIN command[c].editors
                                            THEN command[c].editors[t] ELSE editors[t]]
           /\ reasons' = [t \in Tenders |-> IF t \in DOMAIN command[c].reasons
                                            THEN command[c].reasons[t] ELSE reasons[t]]
           /\ editors' \in [Tenders -> Editors \union {None}]
           /\ reasons' \in [Tenders -> Reasons \union {None}]
           /\ \A t \in DOMAIN command[c].reasons :
                  \/ reasons[t] = "missing" /\ command[c].reasons[t] = "placeholder"
                  \/ command[c].reasons[t] = None
<1>1. command[c] # None /\ Placed(c) /\ Filled(c)
  BY CommitPosition
<1>2. \A t \in DOMAIN command[c].reasons :
          \/ reasons[t] = "missing" /\ command[c].reasons[t] = "placeholder"
          \/ command[c].reasons[t] = None
  <2>1. command[c].began < command[c].target \/ command[c].began >= command[c].target
    BY <1>1, CommandFields DEF MigrationInv
  <2>2. CASE command[c].began < command[c].target
    BY <1>1, <2>2 DEF Filled, OnlyFills
  <2>3. CASE command[c].began >= command[c].target
    BY <1>1, <2>3 DEF Filled, Empties
  <2> QED BY <2>1, <2>2, <2>3
<1> QED BY <1>1, <1>2, SeesRows, CommandChanges DEF CommitCommand, MigrationInv, SchemaTyped

\* The rows a command leaves fit the schema it leaves.
LEMMA CommitFits ==
    ASSUME MigrationInv, NEW c \in Commands, CommitCommand(c),
           command[c].at # command[c].began
    PROVE  RowsFitSchema' /\ EntriesHaveRows'
<1>1. /\ Placed(c) /\ Locked(c) /\ OnCourse(c) /\ Filled(c) /\ command[c] # None
      /\ command[c].at \in 0 .. 3 /\ command[c].began \in 0 .. 3
      /\ schema.version = command[c].began
  BY CommitPosition
<1>2. \A t \in Tenders :
          /\ editors'[t] = IF t \in DOMAIN command[c].editors
                           THEN command[c].editors[t] ELSE editors[t]
          /\ reasons'[t] = IF t \in DOMAIN command[c].reasons
                           THEN command[c].reasons[t] ELSE reasons[t]
  BY CommitRows
<1>s. editors' = SeesEditors(c) /\ reasons' = SeesReasons(c)
  BY DEF CommitCommand
<1>3. \A object \in {"tables", "updated_by", "update_reason"} :
          schema'[object] = IF Changes(c, object) THEN command[c].schema[object]
                                                  ELSE schema[object]
  BY SeesSchema DEF CommitCommand, MigrationInv, StatesOf
<1>4. \A t \in DOMAIN command[c].reasons :
          \/ reasons[t] = "missing" /\ command[c].reasons[t] = "placeholder"
          \/ command[c].reasons[t] = None
  BY CommitRows
<1>5. (\E t \in DOMAIN command[c].editors : command[c].editors[t] = None) =>
          Changes(c, "tables") /\ command[c].schema.tables = "absent"
  BY <1>1 DEF Filled, Empties
<1>6. Changes(c, "tables") /\ command[c].schema.tables = "absent" =>
          \A t \in Tenders : editors'[t] = None /\ reasons'[t] = None
  BY <1>1, <1>2 DEF Filled, Empties
<1>7. ASSUME schema'.updated_by = "required", NEW t \in Tenders PROVE editors'[t] # "unset"
  <2>1. CASE Changes(c, "updated_by")
    BY <1>1, <1>s, <1>3, <1>7, <2>1 DEF Filled, FilledEditors
  <2>2. CASE ~Changes(c, "updated_by")
    <3>1. editors[t] # "unset"
      BY <1>3, <1>7, <2>2 DEF MigrationInv, RowsFitSchema
    <3>2. DOMAIN command[c].editors # {} =>
              Changes(c, "tables") /\ command[c].schema.tables = "absent"
      BY <1>1, <2>2 DEF Filled, Empties
    <3> QED BY <1>2, <1>6, <3>1, <3>2, NothingIsNone
  <2> QED BY <2>1, <2>2
<1>8. ASSUME schema'.update_reason = "required", NEW t \in Tenders PROVE reasons'[t] # "missing"
  <2>1. CASE Changes(c, "update_reason")
    BY <1>1, <1>s, <1>3, <1>8, <2>1 DEF Filled, FilledReasons
  <2>2. CASE ~Changes(c, "update_reason")
    <3>1. reasons[t] # "missing"
      BY <1>3, <1>8, <2>2 DEF MigrationInv, RowsFitSchema
    <3> QED BY <1>2, <1>4, <3>1, NothingIsNone
  <2> QED BY <2>1, <2>2
<1>9. ASSUME schema'.tables = "absent", NEW t \in Tenders
      PROVE  editors'[t] = None /\ reasons'[t] = None
  <2>1. Changes(c, "tables")
    <3>1. Ahead(c, "tables") = IF command[c].at = 0 THEN "absent" ELSE "present"
      BY <1>1, CommitPosition DEF OnCourse
    <3>2. command[c].at = 0
      BY <1>1, <1>9, CommitSchema DEF SchemaAt
    <3>3. command[c].began >= 1
      BY <1>1, <3>2
    <3>4. SchemaAt(command[c].began)["tables"] = "present"
      BY <3>3 DEF SchemaAt
    <3> QED BY <3>1, <3>2, <3>4 DEF Ahead
  <2> QED BY <1>3, <1>6, <1>9, <2>1
<1>10. ASSUME NEW t \in Tenders, editors'[t] = None PROVE reasons'[t] = None
  <2>1. CASE t \in DOMAIN command[c].editors
    BY <1>2, <1>5, <1>6, <1>10, <2>1
  <2>2. CASE t \notin DOMAIN command[c].editors
    <3>1. reasons[t] = None
      BY <1>2, <1>10, <2>2 DEF MigrationInv, EntriesHaveRows
    <3> QED BY <1>2, <1>4, <3>1, NothingIsNone
  <2> QED BY <2>1, <2>2
<1> QED BY <1>7, <1>8, <1>9, <1>10 DEF RowsFitSchema, EntriesHaveRows

\* Those whose locks do not conflict with the locks of a committing command rely on
\* nothing that it changes.
LEMMA CommitKeeps ==
    ASSUME MigrationInv, NEW c \in Commands, CommitCommand(c)
    PROVE  MigrationInv'
<1>1. CASE command[c].at = command[c].began
  BY <1>1, IdleCommitKeeps
<1>2. CASE command[c].at # command[c].began
  <2>1. /\ Placed(c) /\ Locked(c) /\ OnCourse(c) /\ Filled(c) /\ command[c] # None
        /\ command[c].done = 0 /\ <<"version", "table">> \in locks[c]
    BY <1>2, CommitPosition
  <2>2. /\ Exclusion'
        /\ locks' \in [Sessions -> SUBSET ({"tenders", "log", "version"} \X {"row", "table"})]
        /\ \A o \in Sessions \ {c} : locks'[o] = locks[o]
    BY ReleaseExcludes, SessionsAre DEF MigrationInv, CommitCommand
  <2>3. SchemaTyped'
    BY <1>2, <2>2, CommitFields, CommitRows, CommitSchema
       DEF MigrationInv, SchemaTyped, CommitCommand
  <2>4. SchemaMatchesRevision'
    <3>1. command[c].at \in 0 .. 3
      BY CommitPosition
    <3> QED BY <1>2, <3>1, CommitSchema DEF SchemaMatchesRevision, SchemaAt, Base
  <2>5. writer' = writer /\ \A t : LegacyEntry(t)' = LegacyEntry(t)
    BY DEF CommitCommand, LegacyEntry, Writing
  <2>6. <<"tenders", "table">> \notin locks[c] =>
            /\ DOMAIN command[c].editors = {} /\ editors' = editors
            /\ schema'.tables = schema.tables /\ schema'.updated_by = schema.updated_by
            /\ <<"log", "table">> \notin locks[c] => schema'.update_reason = schema.update_reason
    <3>1. <<"tenders", "table">> \notin locks[c] =>
              /\ DOMAIN command[c].editors = {}
              /\ ~Changes(c, "tables") /\ ~Changes(c, "updated_by")
              /\ <<"log", "table">> \notin locks[c] => ~Changes(c, "update_reason")
      BY <2>1 DEF Locked
    <3>2. DOMAIN command[c].editors = {} => editors' = editors
      BY CommitRows DEF MigrationInv, SchemaTyped
    <3>3. \A object \in {"tables", "updated_by", "update_reason"} :
              ~Changes(c, object) => schema'[object] = schema[object]
      BY SeesSchema DEF CommitCommand, MigrationInv, StatesOf
    <3> QED BY <3>1, <3>2, <3>3
  <2>7. <<"log", "table">> \notin locks[c] => reasons' = reasons
    BY <2>1, CommitRows DEF Locked, MigrationInv, SchemaTyped
  <2>8. ASSUME NEW d \in Commands PROVE CommandInv(d)'
    <3>1. CASE d = c
      BY <3>1, CommitFields DEF CommandInv, Running, MigrationInv
    <3>2. CASE d # c
      <4>1. /\ <<"version", "table">> \notin locks[d]
            /\ <<"tenders", "table">> \in locks[d] => <<"tenders", "table">> \notin locks[c]
            /\ <<"log", "table">> \in locks[d] => <<"log", "table">> \notin locks[c]
            /\ <<"log", "row">> \in locks[d] => <<"log", "table">> \notin locks[c]
        BY <2>1, <3>2, SessionsAre DEF MigrationInv, Exclusion, Conflict
      <4> QED BY <2>2, <2>3, <2>5, <2>6, <2>7, <3>2, <4>1, CommitFields, CommandKept, SessionsAre
              DEF MigrationInv
    <3> QED BY <3>1, <3>2
  <2>9. ASSUME NEW w \in Writers PROVE Fitting(w)'
    <3>1. /\ <<"tenders", "row">> \in locks[w] => <<"tenders", "table">> \notin locks[c]
          /\ <<"log", "row">> \in locks[w] => <<"log", "table">> \notin locks[c]
      BY SessionsAre DEF MigrationInv, Exclusion, Conflict
    <3>2. Active(w) => reasons'[writer[w].tender] = reasons[writer[w].tender]
      <4> SUFFICES ASSUME Active(w)
                   PROVE  reasons'[writer[w].tender] = reasons[writer[w].tender]
        OBVIOUS
      <4>1. writer[w].tender \in Tenders /\ reasons[writer[w].tender] = None
        BY WriterFields DEF MigrationInv, Fitting, Active, Writing
      <4> QED BY <4>1, CommitRows, NothingIsNone
    <3>3. \A o \in Writers \ {w} :
              Active(o)' /\ Active(w) => writer'[o].tender # writer[w].tender
      BY <2>5 DEF MigrationInv, Fitting, Active, Writing
    <3> QED BY <2>2, <2>5, <2>6, <3>1, <3>2, <3>3, WriterKept, SessionsAre DEF MigrationInv
  <2> QED BY <1>2, <2>2, <2>3, <2>4, <2>8, <2>9, CommitFits DEF MigrationInv
<1> QED BY <1>1, <1>2

-------------------------------------------------------------------------------
(* What the statements change *)

Statements ==
    {"create_tables", "stamp", "add_updated_by", "backfill_updated_by", "require_updated_by",
     "backfill_reason", "require_reason", "drop_log", "drop_tenders", "drop_updated_by",
     "relax_reason"}

LEMMA SchemaChanges ==
    ASSUME NEW c, NEW op \in Statements
    PROVE  /\ op = "create_tables" => SchemaChange(c, op) =
                  [type |-> "present", tables |-> "present", update_reason |-> "nullable"]
           /\ op = "add_updated_by" => SchemaChange(c, op) = [updated_by |-> "nullable"]
           /\ op = "require_updated_by" => SchemaChange(c, op) = [updated_by |-> "required"]
           /\ op = "drop_updated_by" => SchemaChange(c, op) = [updated_by |-> "absent"]
           /\ op = "require_reason" => SchemaChange(c, op) = [update_reason |-> "required"]
           /\ op = "relax_reason" => SchemaChange(c, op) = [update_reason |-> "nullable"]
           /\ op = "drop_tenders" => SchemaChange(c, op) =
                  [tables |-> "absent", update_reason |-> "absent"]
           /\ op = "stamp" => SchemaChange(c, op) = [version |-> Towards(c)]
           /\ op \in {"backfill_updated_by", "backfill_reason", "drop_log"}
                  => SchemaChange(c, op) = <<>>
BY DEF SchemaChange

LEMMA RowChanges ==
    ASSUME NEW c, NEW op \in Statements
    PROVE  /\ op = "backfill_updated_by" => EditorChange(c, op) =
                  [t \in {u \in Tenders : SeesEditors(c)[u] = "unset"} |-> "creator"]
           /\ op = "drop_updated_by" => EditorChange(c, op) =
                  [t \in {u \in Tenders : SeesEditors(c)[u] # None} |-> "unset"]
           /\ op = "drop_tenders" => EditorChange(c, op) = [t \in Tenders |-> None]
           /\ op \notin {"backfill_updated_by", "drop_updated_by", "drop_tenders"}
                  => EditorChange(c, op) = <<>>
           /\ op = "backfill_reason" => ReasonChange(c, op) =
                  [t \in {u \in Tenders : SeesReasons(c)[u] = "missing"} |-> "placeholder"]
           /\ op = "drop_log" => ReasonChange(c, op) = [t \in Tenders |-> None]
           /\ op \notin {"backfill_reason", "drop_log"} => ReasonChange(c, op) = <<>>
BY DEF EditorChange, ReasonChange

LEMMA LocksTaken ==
    ASSUME NEW op \in Statements
    PROVE  /\ LockOf(op) \in {"tenders", "log", "version"} \X {"row", "table"}
           /\ op = "stamp" => LockOf(op) = <<"version", "table">>
           /\ op = "backfill_reason" => LockOf(op) = <<"log", "row">>
           /\ op \in {"require_reason", "relax_reason", "drop_log"}
                  => LockOf(op) = <<"log", "table">>
           /\ op = "backfill_updated_by" => LockOf(op) = <<"tenders", "row">>
           /\ op \in {"create_tables", "add_updated_by", "require_updated_by",
                      "drop_updated_by", "drop_tenders"}
                  => LockOf(op) = <<"tenders", "table">>
BY DEF LockOf, TableOf, Updates

LEMMA AddedPart ==
    ASSUME NEW D, NEW S, NEW f \in Part(D, S), NEW g \in Part(D, S)
    PROVE  /\ Adding(f, g) \in Part(D, S)
           /\ DOMAIN Adding(f, g) = DOMAIN f \union DOMAIN g
           /\ \A x \in DOMAIN Adding(f, g) :
                  Adding(f, g)[x] = IF x \in DOMAIN g THEN g[x] ELSE f[x]
<1> DEFINE h == Adding(f, g)
<1>1. /\ DOMAIN h = DOMAIN f \union DOMAIN g
      /\ \A x \in DOMAIN h : h[x] = IF x \in DOMAIN g THEN g[x] ELSE f[x]
      /\ h = [x \in DOMAIN h |-> h[x]]
  BY DEF Adding
<1>2. /\ DOMAIN f \subseteq D /\ \A x \in DOMAIN f : f[x] \in S
      /\ DOMAIN g \subseteq D /\ \A x \in DOMAIN g : g[x] \in S
  BY PartDomain
<1>3. h \in [DOMAIN h -> S] /\ DOMAIN h \in SUBSET D
  BY <1>1, <1>2
<1>4. h \in Part(D, S)
  BY <1>3 DEF Part
<1> QED BY <1>1, <1>4

LEMMA NextOpIsStatement ==
    ASSUME SchemaTyped, NEW c \in Commands, Pending(c), Placed(c)
    PROVE  NextOp(c) \in Statements
BY ScriptPosition DEF UpgradePosition, DowngradePosition, Position, Statements

LEMMA TowardsTyped ==
    ASSUME SchemaTyped, NEW c \in Commands, Pending(c)
    PROVE  /\ Towards(c) \in Revisions
           /\ Towards(c) = IF command[c].target > command[c].at THEN command[c].at + 1
                                                               ELSE command[c].at - 1
BY CommandFields DEF Pending, Running, Towards, Revisions, Base, Latest

LEMMA ObjectStates ==
    /\ DOMAIN StatesOf = {"type", "tables", "updated_by", "update_reason", "version"}
    /\ {"absent", "present", "nullable", "required"} \union Revisions
           = UNION {StatesOf[o] : o \in DOMAIN StatesOf}
<1>1. DOMAIN StatesOf = {"type", "tables", "updated_by", "update_reason", "version"}
  BY DEF StatesOf
<1>2. /\ StatesOf["type"] = {"absent", "present"} /\ StatesOf["tables"] = {"absent", "present"}
      /\ StatesOf["updated_by"] = {"absent", "nullable", "required"}
      /\ StatesOf["update_reason"] = {"absent", "nullable", "required"}
      /\ StatesOf["version"] = Revisions
  BY DEF StatesOf
<1> QED BY <1>1, <1>2

LEMMA NoPart == \A D, S : <<>> \in Part(D, S)
<1>1. \A S : <<>> \in [{} -> S]
  OBVIOUS
<1> QED BY <1>1 DEF Part

LEMMA ConstantPart ==
    ASSUME NEW D, NEW S, NEW T \in SUBSET D, NEW v \in S
    PROVE  [t \in T |-> v] \in Part(D, S)
<1>1. [t \in T |-> v] \in [T -> S]
  OBVIOUS
<1> QED BY <1>1 DEF Part

LEMMA SchemaChangeTyped ==
    ASSUME SchemaTyped, NEW c \in Commands, Pending(c), NEW op \in Statements
    PROVE  SchemaChange(c, op) \in
               Part(DOMAIN StatesOf, UNION {StatesOf[o] : o \in DOMAIN StatesOf})
<1> DEFINE S == {"absent", "present", "nullable", "required"} \union Revisions
           D == {"type", "tables", "updated_by", "update_reason", "version"}
           f == SchemaChange(c, op)
<1>1. CASE op \in {"backfill_updated_by", "backfill_reason", "drop_log"}
  BY <1>1, SchemaChanges, NoPart
<1>2. CASE op \notin {"backfill_updated_by", "backfill_reason", "drop_log"}
  <2>1. DOMAIN f \subseteq D /\ f \in [DOMAIN f -> S]
    <3>1. Towards(c) \in S
      BY TowardsTyped
    <3>2. CASE op \in {"create_tables", "drop_tenders"}
      BY <3>2, SchemaChanges
    <3>3. CASE op \in {"add_updated_by", "require_updated_by", "drop_updated_by"}
      BY <3>3, SchemaChanges
    <3>4. CASE op \in {"require_reason", "relax_reason"}
      BY <3>4, SchemaChanges
    <3>5. CASE op = "stamp"
      BY <3>1, <3>5, SchemaChanges
    <3> QED BY <1>2, <3>2, <3>3, <3>4, <3>5 DEF Statements
  <2>2. f \in Part(D, S)
    BY <2>1 DEF Part
  <2> QED BY <2>2, ObjectStates
<1> QED BY <1>1, <1>2

LEMMA RowChangeTyped ==
    ASSUME NEW c \in Commands, NEW op \in Statements
    PROVE  /\ EditorChange(c, op) \in Part(Tenders, Editors \union {None})
           /\ ReasonChange(c, op) \in Part(Tenders, Reasons \union {None})
<1> DEFINE E == Editors \union {None}
           R == Reasons \union {None}
<1>1. /\ {"unset", "creator", None} \subseteq E /\ {"placeholder", None} \subseteq R
  BY DEF Editors, Reasons
<1> HIDE DEF E, R
<1>2. EditorChange(c, op) \in Part(Tenders, E)
  <2>1. CASE op = "backfill_updated_by"
    BY <1>1, <2>1, ConstantPart DEF EditorChange
  <2>2. CASE op = "drop_updated_by"
    BY <1>1, <2>2, ConstantPart DEF EditorChange
  <2>3. CASE op = "drop_tenders"
    BY <1>1, <2>3, ConstantPart DEF EditorChange
  <2>4. CASE op \notin {"backfill_updated_by", "drop_updated_by", "drop_tenders"}
    BY <2>4, NoPart DEF EditorChange
  <2> QED BY <2>1, <2>2, <2>3, <2>4
<1>3. ReasonChange(c, op) \in Part(Tenders, R)
  <2>1. CASE op = "backfill_reason"
    BY <1>1, <2>1, ConstantPart DEF ReasonChange
  <2>2. CASE op = "drop_log"
    BY <1>1, <2>2, ConstantPart DEF ReasonChange
  <2>3. CASE op \notin {"backfill_reason", "drop_log"}
    BY <2>3, NoPart DEF ReasonChange
  <2> QED BY <2>1, <2>2, <2>3
<1> QED BY <1>2, <1>3 DEF E, R

\* Execute, in terms of the fields of its command.
LEMMA ExecuteEffect ==
    ASSUME MigrationInv, NEW c \in Commands, Execute(c), NEW op, op = NextOp(c)
    PROVE  /\ SchemaTyped' /\ Exclusion' /\ op \in Statements
           /\ \A d \in Commands \ {c} : command'[d] = command[d]
           /\ \A o \in Sessions \ {c} : locks'[o] = locks[o]
           /\ locks'[c] = locks[c] \union {LockOf(op)}
           /\ command'[c] \in Command /\ command'[c].state = command[c].state
           /\ command'[c].began = command[c].began /\ command'[c].target = command[c].target
           /\ command'[c].at = IF op = "stamp" THEN Towards(c) ELSE command[c].at
           /\ command'[c].done = IF op = "stamp" THEN 0 ELSE command[c].done + 1
           /\ command'[c].schema = Adding(command[c].schema, SchemaChange(c, op))
           /\ command'[c].editors = Adding(command[c].editors, EditorChange(c, op))
           /\ command'[c].reasons = Adding(command[c].reasons, ReasonChange(c, op))
<1> DEFINE e == [state |-> command[c].state, began |-> command[c].began,
                 target |-> command[c].target,
                 at |-> IF op = "stamp" THEN Towards(c) ELSE command[c].at,
                 done |-> IF op = "stamp" THEN 0 ELSE command[c].done + 1,
                 schema |-> Adding(command[c].schema, SchemaChange(c, op)),
                 editors |-> Adding(command[c].editors, EditorChange(c, op)),
                 reasons |-> Adding(command[c].reasons, ReasonChange(c, op))]
<1>1. Pending(c) /\ Running(c) /\ command[c] # None /\ Placed(c) /\ op \in Statements
  BY NextOpIsStatement DEF Execute, Pending, Running, MigrationInv, CommandInv
<1>2. command[c] \in Command
  BY <1>1, CommandFields DEF MigrationInv
<1>3. command' = [command EXCEPT ![c] = e]
  <2>1. PICK S, E, R, a, d :
            /\ S = Adding(command[c].schema, SchemaChange(c, op))
            /\ E = Adding(command[c].editors, EditorChange(c, op))
            /\ R = Adding(command[c].reasons, ReasonChange(c, op))
            /\ a = (IF op = "stamp" THEN Towards(c) ELSE command[c].at)
            /\ d = (IF op = "stamp" THEN 0 ELSE command[c].done + 1)
    OBVIOUS
  <2>2. PICK y : y = [[[[[command[c] EXCEPT !.schema = S] EXCEPT !.editors = E]
                         EXCEPT !.reasons = R] EXCEPT !.at = a] EXCEPT !.done = d]
    OBVIOUS
  <2>3. command' = [command EXCEPT ![c] = y]
    BY <2>1, <2>2 DEF Execute, MigrationInv, SchemaTyped
  <2> DEFINE z == [state |-> command[c].state, began |-> command[c].began,
                   target |-> command[c].target, at |-> a, done |-> d,
                   schema |-> S, editors |-> E, reasons |-> R]
  <2>4. y = z
    <3>1. /\ DOMAIN command[c] = {"state", "began", "target", "at", "done", "schema",
                                  "editors", "reasons"}
          /\ command[c] = [k \in DOMAIN command[c] |-> command[c][k]]
      BY <1>2 DEF Command
    <3>2. DOMAIN y = DOMAIN command[c] /\ \A k \in DOMAIN command[c] : y[k] = z[k]
      BY <2>2, <3>1
    <3>3. /\ y = [k \in DOMAIN command[c] |-> y[k]]
          /\ z = [k \in DOMAIN command[c] |-> z[k]]
      BY <2>2, <3>1
    <3> QED BY <3>2, <3>3
  <2> QED BY <2>1, <2>3, <2>4
<1>4. e \in Command
  <2>1. /\ command[c].schema \in
              Part(DOMAIN StatesOf, UNION {StatesOf[o] : o \in DOMAIN StatesOf})
        /\ command[c].editors \in Part(Tenders, Editors \union {None})
        /\ command[c].reasons \in Part(Tenders, Reasons \union {None})
    BY <1>2 DEF Command
  <2>2. /\ e.schema \in Part(DOMAIN StatesOf, UNION {StatesOf[o] : o \in DOMAIN StatesOf})
        /\ e.editors \in Part(Tenders, Editors \union {None})
        /\ e.reasons \in Part(Tenders, Reasons \union {None})
    BY <1>1, <2>1, AddedPart, SchemaChangeTyped, RowChangeTyped DEF MigrationInv
  <2>3. e.at \in Revisions
    BY <1>1, <1>2, TowardsTyped DEF MigrationInv, Command
  <2>4. e.done \in 0 .. 3
    <3>1. op # "stamp" => command[c].done \in 0 .. 2
      BY <1>1, ScriptPosition
         DEF MigrationInv, UpgradePosition, DowngradePosition, Position
    <3> QED BY <3>1
  <2> QED BY <1>2, <2>2, <2>3, <2>4 DEF Command
<1>5. /\ Exclusion'
      /\ locks' \in [Sessions -> SUBSET ({"tenders", "log", "version"} \X {"row", "table"})]
      /\ locks'[c] = locks[c] \union {LockOf(op)}
      /\ \A o \in Sessions \ {c} : locks'[o] = locks[o]
  BY <1>1, TakeExcludes, LocksTaken, SessionsAre DEF MigrationInv, Execute
<1>6. command' \in [Commands -> Command \union {None}] /\ command'[c] = e
      /\ \A d \in Commands \ {c} : command'[d] = command[d]
  BY <1>3, <1>4 DEF MigrationInv, SchemaTyped
<1>7. SchemaTyped'
  BY <1>5, <1>6 DEF MigrationInv, SchemaTyped, Execute
<1> QED BY <1>1, <1>4, <1>5, <1>6, <1>7


\* What a command sees after a statement, in terms of the statement's changes.
LEMMA ExecuteView ==
    ASSUME MigrationInv, NEW c \in Commands, Execute(c), NEW op, op = NextOp(c)
    PROVE  /\ \A object :
                  /\ Changes(c, object)' <=>
                         Changes(c, object) \/ object \in DOMAIN SchemaChange(c, op)
                  /\ object \in DOMAIN SchemaChange(c, op) =>
                         /\ command'[c].schema[object] = SchemaChange(c, op)[object]
                         /\ Ahead(c, object)' = SchemaChange(c, op)[object]
                  /\ object \notin DOMAIN SchemaChange(c, op) =>
                         /\ Changes(c, object) =>
                                command'[c].schema[object] = command[c].schema[object]
                         /\ Ahead(c, object)' = Ahead(c, object)
           /\ DOMAIN command'[c].schema =
                  DOMAIN command[c].schema \union DOMAIN SchemaChange(c, op)
<1>1. /\ op \in Statements /\ SchemaTyped /\ command[c] # None /\ Pending(c)
      /\ command'[c].schema = Adding(command[c].schema, SchemaChange(c, op))
      /\ command'[c].began = command[c].began
  BY ExecuteEffect DEF Execute, Pending, Running, MigrationInv
<1>2. /\ DOMAIN command'[c].schema =
             DOMAIN command[c].schema \union DOMAIN SchemaChange(c, op)
      /\ \A object \in DOMAIN command'[c].schema : command'[c].schema[object] =
             IF object \in DOMAIN SchemaChange(c, op) THEN SchemaChange(c, op)[object]
                                                      ELSE command[c].schema[object]
  BY <1>1 DEF Adding
<1> QED BY <1>1, <1>2 DEF Changes, Ahead

LEMMA ExecuteRows ==
    ASSUME MigrationInv, NEW c \in Commands, Execute(c), NEW op, op = NextOp(c)
    PROVE  /\ DOMAIN command'[c].editors =
                  DOMAIN command[c].editors \union DOMAIN EditorChange(c, op)
           /\ DOMAIN command'[c].reasons =
                  DOMAIN command[c].reasons \union DOMAIN ReasonChange(c, op)
           /\ \A t \in Tenders :
                  /\ t \in DOMAIN EditorChange(c, op) =>
                         /\ command'[c].editors[t] = EditorChange(c, op)[t]
                         /\ SeesEditors(c)'[t] = EditorChange(c, op)[t]
                  /\ t \notin DOMAIN EditorChange(c, op) =>
                         /\ t \in DOMAIN command[c].editors =>
                                command'[c].editors[t] = command[c].editors[t]
                         /\ SeesEditors(c)'[t] = SeesEditors(c)[t]
                  /\ t \in DOMAIN ReasonChange(c, op) =>
                         /\ command'[c].reasons[t] = ReasonChange(c, op)[t]
                         /\ SeesReasons(c)'[t] = ReasonChange(c, op)[t]
                  /\ t \notin DOMAIN ReasonChange(c, op) =>
                         /\ t \in DOMAIN command[c].reasons =>
                                command'[c].reasons[t] = command[c].reasons[t]
                         /\ SeesReasons(c)'[t] = SeesReasons(c)[t]
<1>1. /\ op \in Statements /\ SchemaTyped /\ SchemaTyped' /\ command[c] # None
      /\ command'[c].editors = Adding(command[c].editors, EditorChange(c, op))
      /\ command'[c].reasons = Adding(command[c].reasons, ReasonChange(c, op))
      /\ UNCHANGED <<editors, reasons>>
  <2>1. /\ op \in Statements /\ SchemaTyped'
        /\ command'[c].editors = Adding(command[c].editors, EditorChange(c, op))
        /\ command'[c].reasons = Adding(command[c].reasons, ReasonChange(c, op))
    BY ExecuteEffect
  <2> QED BY <2>1 DEF Execute, Pending, Running, MigrationInv
<1>3. /\ DOMAIN command'[c].editors =
             DOMAIN command[c].editors \union DOMAIN EditorChange(c, op)
      /\ \A t \in DOMAIN command'[c].editors : command'[c].editors[t] =
             IF t \in DOMAIN EditorChange(c, op) THEN EditorChange(c, op)[t]
                                                 ELSE command[c].editors[t]
  BY <1>1 DEF Adding
<1>4. /\ DOMAIN command'[c].reasons =
             DOMAIN command[c].reasons \union DOMAIN ReasonChange(c, op)
      /\ \A t \in DOMAIN command'[c].reasons : command'[c].reasons[t] =
             IF t \in DOMAIN ReasonChange(c, op) THEN ReasonChange(c, op)[t]
                                                 ELSE command[c].reasons[t]
  BY <1>1 DEF Adding
<1>5. /\ SeesEditors(c) = [t \in Tenders |->
             IF t \in DOMAIN command[c].editors THEN command[c].editors[t] ELSE editors[t]]
      /\ SeesReasons(c) = [t \in Tenders |->
             IF t \in DOMAIN command[c].reasons THEN command[c].reasons[t] ELSE reasons[t]]
  BY <1>1, SeesRows
<1>6. /\ SeesEditors(c)' = [t \in Tenders |->
             IF t \in DOMAIN command'[c].editors THEN command'[c].editors[t] ELSE editors'[t]]
      /\ SeesReasons(c)' = [t \in Tenders |->
             IF t \in DOMAIN command'[c].reasons THEN command'[c].reasons[t] ELSE reasons'[t]]
  BY <1>1 DEF SchemaTyped, SeesEditors, SeesReasons, Over
<1> QED BY <1>1, <1>3, <1>4, <1>5, <1>6

\* Where each statement stands in the scripts.
Standing(op, n, k, m) ==
    /\ op \in Statements
    /\ op = "create_tables" => n = 0 /\ k = 0 /\ m > n
    /\ op = "add_updated_by" => n = 1 /\ k = 0 /\ m > n
    /\ op = "backfill_updated_by" => n = 1 /\ k = 1 /\ m > n
    /\ op = "require_updated_by" => n = 1 /\ k = 2 /\ m > n
    /\ op = "backfill_reason" => n = 2 /\ k = 0 /\ m > n
    /\ op = "require_reason" => n = 2 /\ k = 1 /\ m > n
    /\ op = "drop_log" => n = 1 /\ k = 0 /\ m < n
    /\ op = "drop_tenders" => n = 1 /\ k = 1 /\ m < n
    /\ op = "drop_updated_by" => n = 2 /\ k = 0 /\ m < n
    /\ op = "relax_reason" => n = 3 /\ k = 0 /\ m < n
    /\ op = "stamp" =>
           \/ m > n /\ k = (IF n = 1 THEN 3 ELSE n \div 2 + 1) /\ n \in 0 .. 2
           \/ m < n /\ k = (IF n = 1 THEN 2 ELSE 1) /\ n \in 1 .. 3

LEMMA StatementStands ==
    ASSUME SchemaTyped, NEW c \in Commands, Pending(c), Placed(c)
    PROVE  Standing(NextOp(c), command[c].at, command[c].done, command[c].target)
<1>1. command[c].target # command[c].at /\ command[c].target \in 0 .. 3 /\ command[c].at \in 0 .. 3
  BY CommandFields DEF Pending, Running
<1>2. PICK op, n, k, m : op = NextOp(c) /\ n = command[c].at /\ k = command[c].done
                         /\ m = command[c].target
  OBVIOUS
<1>3. CASE m > n
  <2>1. UpgradePosition(c)
    BY <1>2, <1>3, ScriptPosition
  <2>2. \/ n = 0 /\ k = 0 /\ op = "create_tables"
        \/ n = 0 /\ k = 1 /\ op = "stamp"
        \/ n = 1 /\ k = 0 /\ op = "add_updated_by"
        \/ n = 1 /\ k = 1 /\ op = "backfill_updated_by"
        \/ n = 1 /\ k = 2 /\ op = "require_updated_by"
        \/ n = 1 /\ k = 3 /\ op = "stamp"
        \/ n = 2 /\ k = 0 /\ op = "backfill_reason"
        \/ n = 2 /\ k = 1 /\ op = "require_reason"
        \/ n = 2 /\ k = 2 /\ op = "stamp"
    BY <1>2, <2>1 DEF UpgradePosition, Position
  <2> QED BY <1>2, <1>3, <2>2 DEF Standing, Statements
<1>4. CASE m < n
  <2>1. DowngradePosition(c)
    BY <1>1, <1>2, <1>4, ScriptPosition
  <2>2. \/ n = 1 /\ k = 0 /\ op = "drop_log"
        \/ n = 1 /\ k = 1 /\ op = "drop_tenders"
        \/ n = 1 /\ k = 2 /\ op = "stamp"
        \/ n = 2 /\ k = 0 /\ op = "drop_updated_by"
        \/ n = 2 /\ k = 1 /\ op = "stamp"
        \/ n = 3 /\ k = 0 /\ op = "relax_reason"
        \/ n = 3 /\ k = 1 /\ op = "stamp"
    BY <1>2, <2>1 DEF DowngradePosition, Position
  <2> QED BY <1>2, <1>4, <2>2 DEF Standing, Statements
<1> QED BY <1>1, <1>2, <1>3, <1>4

\* What Execute starts from, with the position of its statement.
LEMMA ExecuteStart ==
    ASSUME MigrationInv, NEW c \in Commands, Execute(c)
    PROVE  /\ Running(c) /\ Pending(c) /\ SchemaTyped /\ command[c] # None
           /\ Placed(c) /\ Locked(c) /\ OnCourse(c) /\ Filled(c)
           /\ command[c].began \in 0 .. 3 /\ command[c].target \in 0 .. 3
           /\ command[c].at \in 0 .. 3 /\ command[c].done \in 0 .. 3
           /\ Standing(NextOp(c), command[c].at, command[c].done, command[c].target)
           /\ ~Refused(c, NextOp(c))
           /\ UNCHANGED <<schema, editors, reasons, writer, release>>
<1>1. Running(c) /\ Pending(c) /\ SchemaTyped /\ command[c] # None
  BY DEF Execute, Pending, Running, MigrationInv
<1>2. Placed(c) /\ Locked(c) /\ OnCourse(c) /\ Filled(c)
  BY <1>1 DEF MigrationInv, CommandInv
<1>3. ~Refused(c, NextOp(c)) /\ UNCHANGED <<schema, editors, reasons, writer, release>>
  BY DEF Execute
<1> QED BY <1>1, <1>2, <1>3, CommandFields, StatementStands

LEMMA ExecutePlaced ==
    ASSUME MigrationInv, NEW c \in Commands, Execute(c)
    PROVE  Placed(c)'
<1>1. PICK op : op = NextOp(c)
  OBVIOUS
<1>2. PICK b \in 0 .. 3, n \in 0 .. 3, m \in 0 .. 3, k \in 0 .. 3 :
          /\ command[c].began = b /\ command[c].at = n
          /\ command[c].target = m /\ command[c].done = k
  BY ExecuteStart
<1>3. /\ command'[c].began = b /\ command'[c].target = m
      /\ command'[c].at = IF op = "stamp" THEN (IF m > n THEN n + 1 ELSE n - 1) ELSE n
      /\ command'[c].done = IF op = "stamp" THEN 0 ELSE k + 1
  BY <1>1, <1>2, ExecuteEffect, ExecuteStart, TowardsTyped
<1>4. (b <= n /\ n <= m) \/ (m <= n /\ n <= b)
  BY <1>2, ExecuteStart DEF Placed
<1>5. CASE op = "stamp"
  <2>1. n # m
    BY <1>2, ExecuteStart DEF Pending
  <2> QED BY <1>3, <1>4, <1>5, <2>1 DEF Placed
<1>6. CASE op # "stamp"
  <2>1. \/ m > n /\ n \in 0 .. 2 /\ k < (IF n = 1 THEN 3 ELSE n \div 2 + 1)
        \/ m < n /\ n \in 1 .. 3 /\ k < (IF n = 1 THEN 2 ELSE 1)
    BY <1>1, <1>2, <1>6, ExecuteStart DEF Standing, Statements
  <2>2. command'[c].began = b /\ command'[c].target = m /\ command'[c].at = n
        /\ command'[c].done = k + 1
    BY <1>3, <1>6
  <2> QED BY <1>4, <2>1, <2>2 DEF Placed
<1> QED BY <1>5, <1>6

LEMMA ExecuteLocked ==
    ASSUME MigrationInv, NEW c \in Commands, Execute(c)
    PROVE  Locked(c)'
<1>1. PICK op : op = NextOp(c)
  OBVIOUS
<1>2. op \in Statements /\ locks'[c] = locks[c] \union {LockOf(op)}
  BY <1>1, ExecuteEffect
<1>3. Locked(c) /\ Placed(c)
  BY ExecuteStart
<1>p. PICK n \in 0 .. 3, k \in 0 .. 3, m \in 0 .. 3 :
          /\ command[c].at = n /\ command[c].done = k /\ command[c].target = m
          /\ Standing(op, n, k, m)
  BY <1>1, ExecuteStart
<1>4. \A object : Changes(c, object)' <=>
          Changes(c, object) \/ object \in DOMAIN SchemaChange(c, op)
  BY <1>1, ExecuteView
<1>5. CASE op = "stamp"
  <2>1. DOMAIN SchemaChange(c, op) = {"version"} /\ LockOf(op) = <<"version", "table">>
    BY <1>5, <1>2, SchemaChanges, LocksTaken
  <2>2. command'[c].began = command[c].began /\ command'[c].at # command[c].began
    <3>1. command'[c].began = command[c].began /\ command'[c].at = Towards(c)
      BY <1>1, <1>5, ExecuteEffect
    <3>2. Towards(c) # command[c].began
      BY <1>3, ExecuteStart, TowardsTyped DEF Placed, Pending
    <3> QED BY <3>1, <3>2
  <2>3. schema'.version = command[c].began
    <3>1. CASE Changes(c, "version")
      BY <1>3, <3>1, ExecuteStart DEF Locked
    <3>2. CASE ~Changes(c, "version")
      <4>1. Sees(c).version = schema.version
        BY <3>2, SeesSchema, ExecuteStart DEF StatesOf
      <4>2. Sees(c).version = command[c].at
        BY <1>1, <1>5, ExecuteStart DEF Refused
      <4> QED BY <1>3, <3>2, <4>1, <4>2, ExecuteStart DEF Locked
    <3> QED BY <3>1, <3>2
  <2>4. DOMAIN command'[c].editors = DOMAIN command[c].editors
        /\ DOMAIN command'[c].reasons = DOMAIN command[c].reasons
    <3>1. DOMAIN EditorChange(c, op) = {} /\ DOMAIN ReasonChange(c, op) = {}
      BY <1>5 DEF EditorChange, ReasonChange
    <3> QED BY <1>1, <3>1, ExecuteRows
  <2>5. command[c].at = 2 => command[c].done # 1 \/ command[c].target # 3
    BY <1>5, <1>p DEF Standing
  <2> QED BY <1>2, <1>3, <1>4, <2>1, <2>2, <2>3, <2>4, <2>5 DEF Locked
<1>6. CASE op # "stamp"
  <2>1. /\ command'[c].began = command[c].began /\ command'[c].at = command[c].at
        /\ command'[c].done = command[c].done + 1 /\ command'[c].target = command[c].target
        /\ schema' = schema
    BY <1>1, <1>6, ExecuteEffect, ExecuteStart
  <2>2. "version" \notin DOMAIN SchemaChange(c, op)
    BY <1>2, <1>6, SchemaChanges DEF Statements
  <2>3. {"tables", "type", "updated_by"} \intersect DOMAIN SchemaChange(c, op) # {}
            => <<"tenders", "table">> \in locks'[c]
    BY <1>2, <1>6, SchemaChanges, LocksTaken DEF Statements
  <2>4. "update_reason" \in DOMAIN SchemaChange(c, op)
            => <<"tenders", "table">> \in locks'[c] \/ <<"log", "table">> \in locks'[c]
    BY <1>2, <1>6, SchemaChanges, LocksTaken DEF Statements
  <2>5. DOMAIN EditorChange(c, op) # {} => <<"tenders", "table">> \in locks'[c]
    <3>1. CASE op = "backfill_updated_by"
      <4>1. Changes(c, "updated_by")
        BY <1>p, <3>1, ExecuteStart, AddsColumn DEF Standing
      <4> QED BY <1>2, <1>3, <4>1 DEF Locked
    <3>2. CASE op \in {"drop_updated_by", "drop_tenders"}
      BY <1>2, <3>2, LocksTaken
    <3>3. CASE op \notin {"backfill_updated_by", "drop_updated_by", "drop_tenders"}
      BY <3>3 DEF EditorChange
    <3> QED BY <3>1, <3>2, <3>3
  <2>6. DOMAIN command'[c].reasons # {} =>
            \/ <<"log", "table">> \in locks'[c]
            \/ /\ <<"log", "row">> \in locks'[c]
               /\ command[c].at = 2 /\ command[c].done = 0 /\ command[c].target = 3
    <3>1. CASE op = "backfill_reason"
      <4>1. n = 2 /\ k = 0 /\ m = 3
        BY <1>p, <3>1 DEF Standing
      <4>2. <<"log", "row">> \in locks'[c]
        BY <1>2, <3>1, LocksTaken
      <4> QED BY <1>p, <4>1, <4>2
    <3>2. CASE op \in {"drop_log", "require_reason"}
      BY <1>2, <3>2, LocksTaken
    <3>3. CASE op \notin {"backfill_reason", "drop_log", "require_reason"}
      <4>1. DOMAIN command'[c].reasons = DOMAIN command[c].reasons
        <5>1. DOMAIN ReasonChange(c, op) = {}
          BY <3>3 DEF ReasonChange
        <5> QED BY <1>1, <5>1, ExecuteRows
      <4>2. ~(command[c].at = 2 /\ command[c].done = 1 /\ command[c].target = 3)
        BY <1>1, <1>6, <3>3, ExecuteStart DEF Standing, Statements
      <4> QED BY <1>2, <1>3, <4>1, <4>2 DEF Locked
    <3> QED BY <3>1, <3>2, <3>3
  <2>7. DOMAIN command'[c].editors = DOMAIN command[c].editors \union DOMAIN EditorChange(c, op)
    BY <1>1, ExecuteRows
  <2>8. command[c].done \in 0 .. 3
    BY ExecuteStart
  <2>9. (Changes(c, "version") <=> command[c].at # command[c].began)'
    BY <1>3, <1>4, <2>1, <2>2 DEF Locked
  <2>10. (Changes(c, "version") =>
             <<"version", "table">> \in locks[c] /\ schema.version = command[c].began)'
    BY <1>2, <1>3, <1>4, <2>1, <2>2 DEF Locked
  <2>11. (Changes(c, "tables") \/ Changes(c, "type") \/ Changes(c, "updated_by")
              => <<"tenders", "table">> \in locks[c])'
    BY <1>2, <1>3, <1>4, <2>3 DEF Locked
  <2>12. (Changes(c, "update_reason")
              => <<"log", "table">> \in locks[c] \/ <<"tenders", "table">> \in locks[c])'
    BY <1>2, <1>3, <1>4, <2>4 DEF Locked
  <2>13. (DOMAIN command[c].editors # {} => <<"tenders", "table">> \in locks[c])'
    BY <1>2, <1>3, <2>5, <2>7 DEF Locked
  <2> QED BY <2>1, <2>6, <2>8, <2>9, <2>10, <2>11, <2>12, <2>13 DEF Locked
<1> QED BY <1>5, <1>6


\* Each statement brings the schema to where the next one is to start.
LEMMA ExecuteOnCourse ==
    ASSUME MigrationInv, NEW c \in Commands, Execute(c)
    PROVE  OnCourse(c)'
<1>1. PICK op : op = NextOp(c)
  OBVIOUS
<1>2. PICK b \in 0 .. 3, n \in 0 .. 3, k \in 0 .. 3, m \in 0 .. 3 :
          /\ command[c].began = b /\ command[c].at = n
          /\ command[c].done = k /\ command[c].target = m
          /\ Standing(op, n, k, m)
  BY <1>1, ExecuteStart
<1>3. PICK n1, k1 : /\ n1 = IF op = "stamp" THEN (IF m > n THEN n + 1 ELSE n - 1) ELSE n
                    /\ k1 = IF op = "stamp" THEN 0 ELSE k + 1
  OBVIOUS
<1>4. /\ command'[c].began = b /\ command'[c].target = m
      /\ command'[c].at = n1 /\ command'[c].done = k1
  BY <1>1, <1>2, <1>3, ExecuteEffect, ExecuteStart, TowardsTyped
<1>5. (b <= n /\ n <= m) \/ (m <= n /\ n <= b)
  BY <1>2, ExecuteStart DEF Placed
<1>6. OnCourse(c) /\ op \in Statements
  BY <1>2, ExecuteStart DEF Standing
<1>7. \A object :
          /\ object \in DOMAIN SchemaChange(c, op)
                 => Ahead(c, object)' = SchemaChange(c, op)[object]
          /\ object \notin DOMAIN SchemaChange(c, op) => Ahead(c, object)' = Ahead(c, object)
  BY <1>1, ExecuteView
<1>8. Changes(c, "type") => Changes(c, "type")'
  BY <1>1, ExecuteView
<1>9. ~(n1 = b /\ k1 = 0)
  <2>1. CASE op = "stamp"
    BY <1>2, <1>3, <1>5, <2>1 DEF Standing
  <2>2. CASE op # "stamp"
    BY <1>3, <2>2
  <2> QED BY <2>1, <2>2
<1>10. n1 + k1 > 0 /\ b = 0 => Changes(c, "type")'
  <2>1. CASE op = "create_tables"
    <3>1. "type" \in DOMAIN SchemaChange(c, op)
      BY <1>6, <2>1, SchemaChanges
    <3> QED BY <1>1, <3>1, ExecuteView
  <2>2. CASE op # "create_tables"
    <3>1. b = 0 => n + k > 0
      BY <1>2, <1>5, <1>6, <2>2 DEF Standing, Statements
    <3> QED BY <1>2, <1>6, <1>8, <3>1 DEF OnCourse
  <2> QED BY <2>1, <2>2
<1>11. PICK y, a, u, r, v :
           /\ y = Ahead(c, "type") /\ a = Ahead(c, "tables") /\ u = Ahead(c, "updated_by")
           /\ r = Ahead(c, "update_reason") /\ v = Ahead(c, "version")
  OBVIOUS
<1>12. PICK y1, a1, u1, r1, v1 :
           /\ y1 = Ahead(c, "type")' /\ a1 = Ahead(c, "tables")' /\ u1 = Ahead(c, "updated_by")'
           /\ r1 = Ahead(c, "update_reason")' /\ v1 = Ahead(c, "version")'
  OBVIOUS
<1>13. /\ y = IF n + b + k = 0 THEN "absent" ELSE "present"
       /\ a = IF (n = 0 /\ k = 0) \/ (n = 1 /\ ~(m >= n) /\ k = 2) THEN "absent" ELSE "present"
       /\ u = IF n = 3 \/ (n = 2 /\ (m >= n \/ k = 0)) \/ (n = 1 /\ m >= n /\ k = 3)
              THEN "required"
              ELSE IF n = 1 /\ m >= n /\ k \in {1, 2} THEN "nullable" ELSE "absent"
       /\ r = IF (n = 0 /\ k = 0) \/ (n = 1 /\ ~(m >= n) /\ k = 2) THEN "absent"
              ELSE IF (n = 3 /\ k = 0) \/ (n = 2 /\ m >= n /\ k = 2) THEN "required"
              ELSE "nullable"
       /\ v = n
  BY <1>2, <1>6, <1>11 DEF OnCourse
<1>14. /\ y1 = IF n1 + b + k1 = 0 THEN "absent" ELSE "present"
       /\ a1 = IF (n1 = 0 /\ k1 = 0) \/ (n1 = 1 /\ ~(m >= n1) /\ k1 = 2)
               THEN "absent" ELSE "present"
       /\ u1 = IF n1 = 3 \/ (n1 = 2 /\ (m >= n1 \/ k1 = 0)) \/ (n1 = 1 /\ m >= n1 /\ k1 = 3)
               THEN "required"
               ELSE IF n1 = 1 /\ m >= n1 /\ k1 \in {1, 2} THEN "nullable" ELSE "absent"
       /\ r1 = IF (n1 = 0 /\ k1 = 0) \/ (n1 = 1 /\ ~(m >= n1) /\ k1 = 2) THEN "absent"
               ELSE IF (n1 = 3 /\ k1 = 0) \/ (n1 = 2 /\ m >= n1 /\ k1 = 2) THEN "required"
               ELSE "nullable"
       /\ v1 = n1
  <2>1. CASE op = "create_tables"
    <3>1. y1 = "present" /\ a1 = "present" /\ u1 = u /\ r1 = "nullable" /\ v1 = v
      BY <1>6, <1>7, <1>11, <1>12, <2>1, SchemaChanges
    <3>2. n = 0 /\ k = 0 /\ m > n /\ n1 = n /\ k1 = 1
      BY <1>2, <1>3, <2>1 DEF Standing
    <3> QED BY <1>13, <3>1, <3>2
  <2>2. CASE op = "add_updated_by"
    <3>1. y1 = y /\ a1 = a /\ u1 = "nullable" /\ r1 = r /\ v1 = v
      BY <1>6, <1>7, <1>11, <1>12, <2>2, SchemaChanges
    <3>2. n = 1 /\ k = 0 /\ m > n /\ n1 = n /\ k1 = 1
      BY <1>2, <1>3, <2>2 DEF Standing
    <3> QED BY <1>13, <3>1, <3>2
  <2>3. CASE op = "require_updated_by"
    <3>1. y1 = y /\ a1 = a /\ u1 = "required" /\ r1 = r /\ v1 = v
      BY <1>6, <1>7, <1>11, <1>12, <2>3, SchemaChanges
    <3>2. n = 1 /\ k = 2 /\ m > n /\ n1 = n /\ k1 = 3
      BY <1>2, <1>3, <2>3 DEF Standing
    <3> QED BY <1>13, <3>1, <3>2
  <2>4. CASE op = "drop_updated_by"
    <3>1. y1 = y /\ a1 = a /\ u1 = "absent" /\ r1 = r /\ v1 = v
      BY <1>6, <1>7, <1>11, <1>12, <2>4, SchemaChanges
    <3>2. n = 2 /\ k = 0 /\ m < n /\ n1 = n /\ k1 = 1
      BY <1>2, <1>3, <2>4 DEF Standing
    <3> QED BY <1>13, <3>1, <3>2
  <2>5. CASE op = "require_reason"
    <3>1. y1 = y /\ a1 = a /\ u1 = u /\ r1 = "required" /\ v1 = v
      BY <1>6, <1>7, <1>11, <1>12, <2>5, SchemaChanges
    <3>2. n = 2 /\ k = 1 /\ m > n /\ n1 = n /\ k1 = 2
      BY <1>2, <1>3, <2>5 DEF Standing
    <3> QED BY <1>13, <3>1, <3>2
  <2>6. CASE op = "relax_reason"
    <3>1. y1 = y /\ a1 = a /\ u1 = u /\ r1 = "nullable" /\ v1 = v
      BY <1>6, <1>7, <1>11, <1>12, <2>6, SchemaChanges
    <3>2. n = 3 /\ k = 0 /\ m < n /\ n1 = n /\ k1 = 1
      BY <1>2, <1>3, <2>6 DEF Standing
    <3> QED BY <1>13, <3>1, <3>2
  <2>7. CASE op = "drop_tenders"
    <3>1. y1 = y /\ a1 = "absent" /\ u1 = u /\ r1 = "absent" /\ v1 = v
      BY <1>6, <1>7, <1>11, <1>12, <2>7, SchemaChanges
    <3>2. n = 1 /\ k = 1 /\ m < n /\ n1 = n /\ k1 = 2
      BY <1>2, <1>3, <2>7 DEF Standing
    <3> QED BY <1>13, <3>1, <3>2
  <2>8. CASE op \in {"backfill_updated_by", "backfill_reason", "drop_log"}
    <3>1. y1 = y /\ a1 = a /\ u1 = u /\ r1 = r /\ v1 = v
      BY <1>6, <1>7, <1>11, <1>12, <2>8, SchemaChanges
    <3>2. n1 = n /\ k1 = k + 1 /\ (\/ n = 1 /\ k = 1 /\ m > n
                                   \/ n = 2 /\ k = 0 /\ m > n
                                   \/ n = 1 /\ k = 0 /\ m < n)
      BY <1>2, <1>3, <2>8 DEF Standing
    <3> QED BY <1>13, <3>1, <3>2
  <2>9. CASE op = "stamp"
    <3>1. y1 = y /\ a1 = a /\ u1 = u /\ r1 = r /\ v1 = n1
      BY <1>1, <1>2, <1>3, <1>6, <1>7, <1>11, <1>12, <2>9, SchemaChanges, ExecuteStart,
         TowardsTyped
    <3>2. CASE m > n
      <4>1. /\ n1 = n + 1 /\ k1 = 0 /\ m >= n1 /\ n + b + k # 0 /\ n1 + b + k1 # 0
            /\ (n = 0 /\ k = 1) \/ (n = 1 /\ k = 3) \/ (n = 2 /\ k = 2)
        BY <1>2, <1>3, <2>9, <3>2 DEF Standing
      <4> QED BY <1>13, <3>1, <3>2, <4>1
    <3>3. CASE m < n
      <4>1. /\ n1 = n - 1 /\ k1 = 0 /\ n + b + k # 0 /\ n1 + b + k1 # 0 /\ m <= n1
            /\ (n = 1 /\ k = 2) \/ (n = 2 /\ k = 1) \/ (n = 3 /\ k = 1)
        BY <1>2, <1>3, <1>5, <2>9, <3>3 DEF Standing
      <4>2. CASE n = 1
        BY <1>13, <3>1, <3>3, <4>1, <4>2
      <4>3. CASE n = 2
        BY <1>13, <3>1, <3>3, <4>1, <4>3
      <4>4. CASE n = 3
        BY <1>13, <3>1, <3>3, <4>1, <4>4
      <4> QED BY <4>1, <4>2, <4>3, <4>4
    <3> QED BY <1>2, <2>9, <3>2, <3>3 DEF Standing
  <2> QED BY <1>6, <2>1, <2>2, <2>3, <2>4, <2>5, <2>6, <2>7, <2>8, <2>9 DEF Statements
<1> QED BY <1>4, <1>9, <1>10, <1>12, <1>14 DEF OnCourse


\* What a statement that was not refused has found.
LEMMA ExecuteGuards ==
    ASSUME MigrationInv, NEW c \in Commands, Execute(c)
    PROVE  /\ NextOp(c) = "require_updated_by" =>
                  \A t \in Tenders : SeesEditors(c)[t] # "unset"
           /\ NextOp(c) = "require_reason" => \A t \in Tenders : SeesReasons(c)[t] # "missing"
<1>1. ~Refused(c, NextOp(c))
  BY DEF Execute
<1>2. ASSUME NextOp(c) = "require_updated_by"
      PROVE  \A t \in Tenders : SeesEditors(c)[t] # "unset"
  BY <1>1, <1>2 DEF Refused
<1>3. ASSUME NextOp(c) = "require_reason"
      PROVE  \A t \in Tenders : SeesReasons(c)[t] # "missing"
  BY <1>1, <1>3 DEF Refused
<1> QED BY <1>2, <1>3

LEMMA ExecuteFilledEditors ==
    ASSUME MigrationInv, NEW c \in Commands, Execute(c)
    PROVE  FilledEditors(c)'
<1>1. PICK op : op = NextOp(c)
  OBVIOUS
<1>2. PICK n \in 0 .. 3, k \in 0 .. 3, m \in 0 .. 3 :
          /\ command[c].at = n /\ command[c].done = k /\ command[c].target = m
          /\ Standing(op, n, k, m)
  BY <1>1, ExecuteStart
<1>3. /\ op \in Statements /\ FilledEditors(c)
      /\ command'[c].target = m
      /\ command'[c].at = n \/ command'[c].done = 0
      /\ command'[c].done = IF op = "stamp" THEN 0 ELSE k + 1
  BY <1>1, <1>2, ExecuteEffect, ExecuteStart DEF Filled
<1>4. SUFFICES ASSUME \/ Changes(c, "updated_by")' /\ command'[c].schema.updated_by = "required"
                      \/ /\ command'[c].at = 1 /\ command'[c].at < command'[c].target
                         /\ command'[c].done >= 2,
                      NEW t \in Tenders
               PROVE  SeesEditors(c)'[t] # "unset"
  BY DEF FilledEditors
<1>5. CASE op = "backfill_updated_by"
  <2>1. /\ DOMAIN EditorChange(c, op) = {u \in Tenders : SeesEditors(c)[u] = "unset"}
        /\ \A u \in DOMAIN EditorChange(c, op) : EditorChange(c, op)[u] = "creator"
    BY <1>5 DEF EditorChange
  <2> QED BY <1>1, <2>1, ExecuteRows
<1>6. CASE op = "require_updated_by"
  <2>1. DOMAIN EditorChange(c, op) = {}
    BY <1>6 DEF EditorChange
  <2>2. SeesEditors(c)[t] # "unset"
    BY <1>1, <1>6, ExecuteGuards
  <2> QED BY <1>1, <2>1, <2>2, ExecuteRows
<1>7. CASE op = "drop_tenders"
  <2>1. /\ DOMAIN EditorChange(c, op) = Tenders
        /\ \A u \in DOMAIN EditorChange(c, op) : EditorChange(c, op)[u] = None
    BY <1>7 DEF EditorChange
  <2> QED BY <1>1, <2>1, ExecuteRows, NothingIsNone
<1>8. CASE op = "drop_updated_by"
  <2>1. Changes(c, "updated_by")' => command'[c].schema.updated_by = "absent"
    <3>1. DOMAIN SchemaChange(c, op) = {"updated_by"} /\ SchemaChange(c, op).updated_by = "absent"
      BY <1>3, <1>8, SchemaChanges
    <3> QED BY <1>1, <3>1, ExecuteView
  <2>2. n = 2 /\ command'[c].done = 1
    BY <1>2, <1>3, <1>8 DEF Standing
  <2> QED BY <1>4, <2>1, <2>2
<1>9. CASE op \in {"create_tables", "add_updated_by", "backfill_reason", "require_reason",
                   "drop_log", "relax_reason", "stamp"}
  <2>1. SeesEditors(c)'[t] = SeesEditors(c)[t]
    <3>1. DOMAIN EditorChange(c, op) = {}
      BY <1>9 DEF EditorChange
    <3> QED BY <1>1, <3>1, ExecuteRows
  <2>2. ~(command'[c].at = 1 /\ command'[c].at < command'[c].target /\ command'[c].done >= 2)
    BY <1>2, <1>3, <1>9 DEF Standing
  <2>3. CASE op = "add_updated_by"
    <3>1. command'[c].schema.updated_by = "nullable"
      <4>1. DOMAIN SchemaChange(c, op) = {"updated_by"}
            /\ SchemaChange(c, op).updated_by = "nullable"
        BY <1>3, <2>3, SchemaChanges
      <4> QED BY <1>1, <4>1, ExecuteView
    <3> QED BY <1>4, <2>2, <3>1
  <2>4. CASE op # "add_updated_by"
    <3>1. Changes(c, "updated_by") /\ command[c].schema.updated_by = "required"
      <4>1. "updated_by" \notin DOMAIN SchemaChange(c, op)
        BY <1>3, <1>9, <2>4, SchemaChanges
      <4> QED BY <1>1, <1>4, <2>2, <4>1, ExecuteView
    <3> QED BY <1>3, <2>1, <3>1 DEF FilledEditors
  <2> QED BY <2>3, <2>4
<1> QED BY <1>3, <1>5, <1>6, <1>7, <1>8, <1>9 DEF Statements

LEMMA ExecuteFilledReasons ==
    ASSUME MigrationInv, NEW c \in Commands, Execute(c)
    PROVE  FilledReasons(c)'
<1>1. PICK op : op = NextOp(c)
  OBVIOUS
<1>2. op \in Statements /\ FilledReasons(c) /\ locks'[c] = locks[c] \union {LockOf(op)}
  BY <1>1, ExecuteEffect, ExecuteStart DEF Filled
<1>3. SUFFICES ASSUME Changes(c, "update_reason")',
                      command'[c].schema.update_reason = "required"
               PROVE  /\ <<"log", "table">> \in locks'[c]
                      /\ \A t \in Tenders : SeesReasons(c)'[t] # "missing"
  BY DEF FilledReasons
<1>4. CASE op = "require_reason"
  <2>1. <<"log", "table">> \in locks'[c]
    BY <1>2, <1>4, LocksTaken
  <2>2. DOMAIN ReasonChange(c, op) = {}
    BY <1>4 DEF ReasonChange
  <2>3. \A t \in Tenders : SeesReasons(c)[t] # "missing"
    BY <1>1, <1>4, ExecuteGuards
  <2> QED BY <1>1, <2>1, <2>2, <2>3, ExecuteRows
<1>5. CASE op # "require_reason"
  <2>1. "update_reason" \notin DOMAIN SchemaChange(c, op)
    <3>1. "update_reason" \in DOMAIN SchemaChange(c, op)
              => SchemaChange(c, op).update_reason # "required"
      BY <1>2, <1>5, SchemaChanges DEF Statements
    <3> QED BY <1>1, <1>3, <3>1, ExecuteView
  <2>2. /\ <<"log", "table">> \in locks[c]
        /\ \A t \in Tenders : SeesReasons(c)[t] # "missing"
    <3>1. Changes(c, "update_reason") /\ command[c].schema.update_reason = "required"
      BY <1>1, <1>3, <2>1, ExecuteView
    <3> QED BY <1>2, <3>1 DEF FilledReasons
  <2>3. \A t \in DOMAIN ReasonChange(c, op) : ReasonChange(c, op)[t] # "missing"
    <3>1. CASE op = "backfill_reason"
      BY <3>1 DEF ReasonChange
    <3>2. CASE op = "drop_log"
      BY <3>2, NothingIsNone DEF ReasonChange
    <3>3. CASE op \notin {"backfill_reason", "drop_log"}
      BY <3>3 DEF ReasonChange
    <3> QED BY <3>1, <3>2, <3>3
  <2> QED BY <1>1, <1>2, <2>2, <2>3, ExecuteRows
<1> QED BY <1>4, <1>5

LEMMA ExecuteAboutToRequire ==
    ASSUME MigrationInv, NEW c \in Commands, Execute(c)
    PROVE  AboutToRequire(c)'
<1>1. PICK op : op = NextOp(c)
  OBVIOUS
<1>2. PICK n \in 0 .. 3, k \in 0 .. 3, m \in 0 .. 3 :
          /\ command[c].at = n /\ command[c].done = k /\ command[c].target = m
          /\ Standing(op, n, k, m)
  BY <1>1, ExecuteStart
<1>3. /\ op \in Statements /\ locks'[c] = locks[c] \union {LockOf(op)}
      /\ command'[c].target = m
      /\ op # "stamp" => command'[c].at = n
      /\ command'[c].done = IF op = "stamp" THEN 0 ELSE k + 1
  BY <1>1, <1>2, ExecuteEffect
<1>4. SUFFICES ASSUME command'[c].at = 2, command'[c].at < command'[c].target,
                      command'[c].done = 1
               PROVE  /\ <<"log", "row">> \in locks'[c]
                      /\ \A t \in Tenders : SeesReasons(c)'[t] # "missing"
  BY DEF AboutToRequire
<1>5. op = "backfill_reason"
  BY <1>2, <1>3, <1>4 DEF Standing, Statements
<1>6. <<"log", "row">> \in locks'[c]
  BY <1>3, <1>5, LocksTaken
<1>7. /\ DOMAIN ReasonChange(c, op) = {u \in Tenders : SeesReasons(c)[u] = "missing"}
      /\ \A u \in DOMAIN ReasonChange(c, op) : ReasonChange(c, op)[u] = "placeholder"
  BY <1>5 DEF ReasonChange
<1> QED BY <1>1, <1>6, <1>7, ExecuteRows

LEMMA ExecuteOnlyFills ==
    ASSUME MigrationInv, NEW c \in Commands, Execute(c)
    PROVE  OnlyFills(c)'
<1>1. PICK op : op = NextOp(c)
  OBVIOUS
<1>2. PICK b \in 0 .. 3, n \in 0 .. 3, k \in 0 .. 3, m \in 0 .. 3 :
          /\ command[c].began = b /\ command[c].at = n
          /\ command[c].done = k /\ command[c].target = m
          /\ Standing(op, n, k, m)
  BY <1>1, ExecuteStart
<1>3. /\ op \in Statements /\ OnlyFills(c) /\ SchemaTyped /\ command[c] # None
      /\ command'[c].began = b /\ command'[c].target = m
      /\ editors' = editors /\ reasons' = reasons
  BY <1>1, <1>2, ExecuteEffect, ExecuteStart DEF Filled
<1>4. SUFFICES ASSUME b < m
               PROVE  /\ \A t \in DOMAIN command'[c].editors :
                             editors[t] = "unset" /\ command'[c].editors[t] = "creator"
                      /\ \A t \in DOMAIN command'[c].reasons :
                             reasons[t] = "missing" /\ command'[c].reasons[t] = "placeholder"
  BY <1>3 DEF OnlyFills
<1>5. m > n
  BY <1>2, <1>4, ExecuteStart DEF Placed, Pending
<1>6. /\ \A t \in DOMAIN command[c].editors :
             editors[t] = "unset" /\ command[c].editors[t] = "creator"
      /\ \A t \in DOMAIN command[c].reasons :
             reasons[t] = "missing" /\ command[c].reasons[t] = "placeholder"
  BY <1>2, <1>3, <1>4 DEF OnlyFills
<1>7. /\ SeesEditors(c) = [t \in Tenders |->
             IF t \in DOMAIN command[c].editors THEN command[c].editors[t] ELSE editors[t]]
      /\ SeesReasons(c) = [t \in Tenders |->
             IF t \in DOMAIN command[c].reasons THEN command[c].reasons[t] ELSE reasons[t]]
  BY <1>3, SeesRows
<1>8. /\ DOMAIN EditorChange(c, op) \subseteq Tenders
      /\ \A t \in DOMAIN EditorChange(c, op) :
             editors[t] = "unset" /\ EditorChange(c, op)[t] = "creator"
  <2>1. CASE op = "backfill_updated_by"
    <3>1. /\ DOMAIN EditorChange(c, op) = {u \in Tenders : SeesEditors(c)[u] = "unset"}
          /\ \A u \in DOMAIN EditorChange(c, op) : EditorChange(c, op)[u] = "creator"
      BY <2>1 DEF EditorChange
    <3> QED BY <1>6, <1>7, <3>1
  <2>2. CASE op # "backfill_updated_by"
    <3>1. op \notin {"drop_updated_by", "drop_tenders"}
      BY <1>2, <1>5 DEF Standing
    <3>2. EditorChange(c, op) = <<>>
      BY <2>2, <3>1 DEF EditorChange
    <3> QED BY <3>2
  <2> QED BY <2>1, <2>2
<1>9. /\ DOMAIN ReasonChange(c, op) \subseteq Tenders
      /\ \A t \in DOMAIN ReasonChange(c, op) :
             reasons[t] = "missing" /\ ReasonChange(c, op)[t] = "placeholder"
  <2>1. CASE op = "backfill_reason"
    <3>1. /\ DOMAIN ReasonChange(c, op) = {u \in Tenders : SeesReasons(c)[u] = "missing"}
          /\ \A u \in DOMAIN ReasonChange(c, op) : ReasonChange(c, op)[u] = "placeholder"
      BY <2>1 DEF ReasonChange
    <3> QED BY <1>6, <1>7, <3>1
  <2>2. CASE op # "backfill_reason"
    <3>1. op # "drop_log"
      BY <1>2, <1>5 DEF Standing
    <3> QED BY <2>2, <3>1 DEF ReasonChange
  <2> QED BY <2>1, <2>2
<1>10. /\ DOMAIN command[c].editors \subseteq Tenders /\ DOMAIN command[c].reasons \subseteq Tenders
  BY <1>3, CommandChanges
<1> QED BY <1>1, <1>6, <1>8, <1>9, <1>10, ExecuteRows

\* The part of Empties about a downgrade that has emptied the log.
LEMMA ExecuteEmptiesLog ==
    ASSUME MigrationInv, NEW c \in Commands, Execute(c)
    PROVE  command'[c].began >= command'[c].target =>
               /\ \A t \in DOMAIN command'[c].reasons : command'[c].reasons[t] = None
               /\ \/ /\ command'[c].at = 1 /\ command'[c].at > command'[c].target
                     /\ command'[c].done >= 1
                  \/ command'[c].at = 0 /\ command'[c].at < command'[c].began
                  => DOMAIN command'[c].reasons = Tenders
<1>1. PICK op : op = NextOp(c)
  OBVIOUS
<1>2. PICK b \in 0 .. 3, n \in 0 .. 3, k \in 0 .. 3, m \in 0 .. 3 :
          /\ command[c].began = b /\ command[c].at = n
          /\ command[c].done = k /\ command[c].target = m
          /\ Standing(op, n, k, m)
  BY <1>1, ExecuteStart
<1>3. /\ op \in Statements /\ Empties(c) /\ SchemaTyped /\ command[c] # None
      /\ command'[c].began = b /\ command'[c].target = m
      /\ command'[c].at = IF op = "stamp" THEN (IF m > n THEN n + 1 ELSE n - 1) ELSE n
      /\ command'[c].done = IF op = "stamp" THEN 0 ELSE k + 1
  BY <1>1, <1>2, ExecuteEffect, ExecuteStart, TowardsTyped DEF Filled
<1>4. SUFFICES ASSUME b >= m
               PROVE  /\ \A t \in DOMAIN command'[c].reasons : command'[c].reasons[t] = None
                      /\ \/ command'[c].at = 1 /\ command'[c].at > m /\ command'[c].done >= 1
                         \/ command'[c].at = 0 /\ command'[c].at < b
                         => DOMAIN command'[c].reasons = Tenders
  BY <1>3
<1>5. m < n
  BY <1>2, <1>4, ExecuteStart DEF Placed, Pending
<1>6. /\ \A t \in DOMAIN command[c].reasons : command[c].reasons[t] = None
      /\ n = 1 /\ n > m /\ k >= 1 => DOMAIN command[c].reasons = Tenders
  BY <1>2, <1>3, <1>4 DEF Empties
<1>7. DOMAIN command[c].reasons \subseteq Tenders
  BY <1>3, CommandChanges
<1>8. CASE op = "drop_log"
  <2>1. /\ DOMAIN ReasonChange(c, op) = Tenders
        /\ \A t \in Tenders : ReasonChange(c, op)[t] = None
    BY <1>8 DEF ReasonChange
  <2>2. DOMAIN command'[c].reasons = Tenders
    BY <1>1, <1>7, <2>1, ExecuteRows
  <2>3. \A t \in Tenders : command'[c].reasons[t] = None
    BY <1>1, <2>1, ExecuteRows
  <2> QED BY <2>2, <2>3
<1>9. CASE op # "drop_log"
  <2>1. DOMAIN ReasonChange(c, op) = {}
    <3>1. op # "backfill_reason"
      BY <1>2, <1>5 DEF Standing
    <3>2. ReasonChange(c, op) = <<>>
      BY <1>9, <3>1 DEF ReasonChange
    <3> QED BY <3>2
  <2>2. /\ DOMAIN command'[c].reasons = DOMAIN command[c].reasons
        /\ \A t \in DOMAIN command[c].reasons : command'[c].reasons[t] = command[c].reasons[t]
    BY <1>1, <1>7, <2>1, ExecuteRows
  <2>3. \/ command'[c].at = 1 /\ command'[c].at > m /\ command'[c].done >= 1
        \/ command'[c].at = 0 /\ command'[c].at < b
        => n = 1 /\ k >= 1
    <3>1. CASE op = "stamp"
      BY <1>2, <1>3, <1>5, <3>1 DEF Standing
    <3>2. CASE op # "stamp"
      BY <1>2, <1>3, <1>5, <1>9, <3>2 DEF Standing, Statements
    <3> QED BY <3>1, <3>2
  <2> QED BY <1>5, <1>6, <2>2, <2>3
<1> QED BY <1>8, <1>9

\* Once the tenders are dropped, no statement follows that touches them.
LEMMA DroppedTenders ==
    ASSUME MigrationInv, NEW c \in Commands, Execute(c),
           Changes(c, "tables"), command[c].schema.tables = "absent"
    PROVE  NextOp(c) = "stamp" /\ command[c].at = 1
<1>1. Ahead(c, "tables") = "absent"
  BY DEF Ahead
<1>2. PICK b \in 0 .. 3, n \in 0 .. 3, k \in 0 .. 3, m \in 0 .. 3 :
          /\ command[c].began = b /\ command[c].at = n
          /\ command[c].done = k /\ command[c].target = m
          /\ Standing(NextOp(c), n, k, m)
  BY ExecuteStart
<1>3. (n = 0 /\ k = 0) \/ (n = 1 /\ ~(m >= n) /\ k = 2)
  BY <1>1, <1>2, ExecuteStart DEF OnCourse
<1>4. ~(n = 0 /\ k = 0)
  <2> SUFFICES ASSUME n = 0 /\ k = 0 PROVE FALSE
    OBVIOUS
  <2>1. m # n /\ ((b <= n /\ n <= m) \/ (m <= n /\ n <= b))
    BY <1>2, ExecuteStart DEF Placed, Pending
  <2>2. b = 0
    BY <2>1
  <2>3. DOMAIN command[c].schema = {}
    BY <1>2, <2>2, ExecuteStart DEF OnCourse
  <2> QED BY <2>3 DEF Changes
<1> QED BY <1>2, <1>3, <1>4 DEF Standing, Statements

LEMMA ExecuteEmpties ==
    ASSUME MigrationInv, NEW c \in Commands, Execute(c)
    PROVE  Empties(c)'
<1>1. PICK op : op = NextOp(c)
  OBVIOUS
<1>2. PICK n \in 0 .. 3, k \in 0 .. 3, m \in 0 .. 3 :
          /\ command[c].at = n /\ command[c].done = k /\ command[c].target = m
          /\ Standing(op, n, k, m)
  BY <1>1, ExecuteStart
<1>3. op \in Statements /\ Empties(c) /\ SchemaTyped /\ command[c] # None
  BY <1>1, <1>2, ExecuteStart DEF Filled, Standing
<1>4. /\ DOMAIN command[c].editors \subseteq Tenders
      /\ DOMAIN command[c].reasons \subseteq Tenders
  BY <1>3, CommandChanges
<1>5. CASE op = "drop_tenders"
  <2>1. /\ DOMAIN EditorChange(c, op) = Tenders /\ DOMAIN ReasonChange(c, op) = {}
        /\ \A t \in Tenders : EditorChange(c, op)[t] = None
    BY <1>5 DEF EditorChange, ReasonChange
  <2>2. /\ "tables" \in DOMAIN SchemaChange(c, op) /\ SchemaChange(c, op)["tables"] = "absent"
    BY <1>3, <1>5, SchemaChanges
  <2>3. Changes(c, "tables")' /\ command'[c].schema["tables"] = "absent"
    BY <1>1, <2>2, ExecuteView
  <2>4. /\ DOMAIN command[c].reasons = Tenders
        /\ \A t \in Tenders : command[c].reasons[t] = None
    <3>1. n = 1 /\ k = 1 /\ m < n
      BY <1>2, <1>5 DEF Standing
    <3>2. command[c].began >= m
      BY <1>2, <3>1, ExecuteStart DEF Placed
    <3> QED BY <1>2, <1>3, <3>1, <3>2 DEF Empties
  <2>5. /\ DOMAIN command'[c].editors = Tenders /\ DOMAIN command'[c].reasons = Tenders
        /\ \A t \in Tenders : command'[c].editors[t] = None /\ command'[c].reasons[t] = None
    <3>1. DOMAIN command'[c].editors = Tenders
      BY <1>1, <1>4, <2>1, ExecuteRows
    <3>2. DOMAIN command'[c].reasons = Tenders
      BY <1>1, <2>1, <2>4, ExecuteRows
    <3>3. \A t \in Tenders : command'[c].editors[t] = None /\ command'[c].reasons[t] = None
      BY <1>1, <2>1, <2>4, ExecuteRows
    <3> QED BY <3>1, <3>2, <3>3
  <2> QED BY <2>3, <2>5, ExecuteEmptiesLog DEF Empties
<1>6. CASE op # "drop_tenders"
  <2>1. \A t \in DOMAIN EditorChange(c, op) : t \in Tenders /\ EditorChange(c, op)[t] # None
    <3>1. CASE op = "backfill_updated_by"
      BY <3>1, NothingIsNone DEF EditorChange
    <3>2. CASE op = "drop_updated_by"
      BY <3>2, NothingIsNone DEF EditorChange
    <3>3. CASE op \notin {"backfill_updated_by", "drop_updated_by"}
      <4>1. EditorChange(c, op) = <<>>
        BY <1>6, <3>3 DEF EditorChange
      <4> QED BY <4>1
    <3> QED BY <3>1, <3>2, <3>3
  <2>2. "tables" \in DOMAIN SchemaChange(c, op) => SchemaChange(c, op)["tables"] = "present"
    BY <1>3, <1>6, SchemaChanges DEF Statements
  <2>3. CASE Changes(c, "tables") /\ command[c].schema.tables = "absent"
    <3>1. op = "stamp"
      BY <1>1, <2>3, DroppedTenders
    <3>2. /\ DOMAIN EditorChange(c, op) = {} /\ DOMAIN ReasonChange(c, op) = {}
      BY <3>1 DEF EditorChange, ReasonChange
    <3>3. "tables" \notin DOMAIN SchemaChange(c, op)
      BY <1>3, <3>1, SchemaChanges
    <3>4. Changes(c, "tables")' /\ command'[c].schema["tables"] = "absent"
      BY <1>1, <2>3, <3>3, ExecuteView
    <3>5. /\ DOMAIN command[c].editors = Tenders /\ DOMAIN command[c].reasons = Tenders
          /\ \A t \in Tenders : command[c].editors[t] = None /\ command[c].reasons[t] = None
      BY <1>3, <2>3 DEF Empties
    <3>6. /\ DOMAIN command'[c].editors = Tenders /\ DOMAIN command'[c].reasons = Tenders
          /\ \A t \in Tenders : command'[c].editors[t] = None /\ command'[c].reasons[t] = None
      <4>1. /\ DOMAIN command'[c].editors = Tenders
            /\ DOMAIN command'[c].reasons = Tenders
        BY <1>1, <3>2, <3>5, ExecuteRows
      <4>2. \A t \in Tenders : command'[c].editors[t] = None
        BY <1>1, <3>2, <3>5, ExecuteRows
      <4>3. \A t \in Tenders : command'[c].reasons[t] = None
        BY <1>1, <3>2, <3>5, ExecuteRows
      <4> QED BY <4>1, <4>2, <4>3
    <3> QED BY <3>4, <3>6, ExecuteEmptiesLog DEF Empties
  <2>4. CASE ~(Changes(c, "tables") /\ command[c].schema.tables = "absent")
    <3>1. ~(Changes(c, "tables")' /\ command'[c].schema["tables"] = "absent")
      BY <1>1, <2>2, <2>4, ExecuteView
    <3>2. \A t \in DOMAIN command[c].editors : command[c].editors[t] # None
      BY <1>3, <2>4 DEF Empties
    <3>3. \A t \in DOMAIN command'[c].editors : command'[c].editors[t] # None
      BY <1>1, <1>4, <2>1, <3>2, ExecuteRows
    <3>4. DOMAIN command'[c].editors # {} => Changes(c, "updated_by")'
      <4>1. DOMAIN command[c].editors # {} => Changes(c, "updated_by")
        BY <1>3, <2>4 DEF Empties
      <4>2. op = "backfill_updated_by" => Changes(c, "updated_by")
        BY <1>2, ExecuteStart, AddsColumn DEF Standing
      <4>3. op = "drop_updated_by" => "updated_by" \in DOMAIN SchemaChange(c, op)
        BY <1>3, SchemaChanges
      <4>4. op \notin {"backfill_updated_by", "drop_updated_by"}
                => DOMAIN EditorChange(c, op) = {}
        BY <1>6 DEF EditorChange
      <4> QED BY <1>1, <4>1, <4>2, <4>3, <4>4, ExecuteRows, ExecuteView
    <3> QED BY <3>1, <3>3, <3>4, ExecuteEmptiesLog DEF Empties
  <2> QED BY <2>3, <2>4
<1> QED BY <1>5, <1>6

LEMMA ExecuteKeeps ==
    ASSUME MigrationInv, NEW c \in Commands, Execute(c)
    PROVE  MigrationInv'
<1>1. /\ SchemaTyped' /\ Exclusion'
      /\ \A d \in Commands \ {c} : command'[d] = command[d]
      /\ \A o \in Sessions \ {c} : locks'[o] = locks[o]
  BY ExecuteEffect
<1>2. UNCHANGED <<schema, editors, reasons, writer>>
  BY ExecuteStart
<1>3. CommandInv(c)'
  BY ExecutePlaced, ExecuteLocked, ExecuteOnCourse, ExecuteFilledEditors, ExecuteFilledReasons,
     ExecuteAboutToRequire, ExecuteOnlyFills, ExecuteEmpties DEF CommandInv, Filled
<1> QED BY <1>1, <1>2, <1>3, DatabaseKept, SessionsAre


-------------------------------------------------------------------------------
(* The theorems about the migrations *)

\* Whatever a container, an operator or a writer does is a step of the migrations.
LEMMA MigrationSteps ==
    ASSUME MigrationInv, [Next]_vars
    PROVE  \/ \E c \in Commands : \E n \in Revisions : BeginCommand(c, n)
           \/ \E c \in Commands : Execute(c) \/ CommitCommand(c) \/ (Running(c) /\ Abandon(c))
           \/ \E w \in Writers : WriterAdvances(w) \/ WriterFails(w)
           \/ UNCHANGED migrationVars
<1>1. ASSUME NEW i \in Instances, Container(i)
      PROVE  \/ \E c \in Commands : \E n \in Revisions : BeginCommand(c, n)
             \/ \E c \in Commands : Running(c) /\ Abandon(c)
             \/ UNCHANGED migrationVars
  <2>1. i \in Commands /\ Latest \in Revisions
    BY InstancesAssumption DEF Latest, Revisions, Base
  <2>2. CASE \E e \in Environments : Start(i, e)
    BY <2>1, <2>2 DEF Start
  <2>3. CASE StartStep(i)
    BY <2>3 DEF StartStep, Serve, StartFails, OpenDatabase, Open, CreateFails, Unwind, OpenRedis
  <2>4. CASE Stop(i) \/ CloseStep(i)
    BY <2>4 DEF Stop, CloseStep, Close
  <2>5. CASE Kill(i)
    BY <2>1, <2>5 DEF Kill
  <2> QED BY <1>1, <2>2, <2>3, <2>4, <2>5 DEF Container
<1>2. ASSUME NEW c \in Commands, CommandAdvances(c) \/ LoseConnection(c)
      PROVE  Execute(c) \/ CommitCommand(c) \/ (Running(c) /\ Abandon(c))
  BY <1>2 DEF CommandAdvances, LoseConnection, RefuseStatement, IsRefused, Pending,
      DeadlockVictim
<1>3. ASSUME NEW c \in Commands, NEW n \in Revisions, BeginByHand(c, n)
      PROVE  BeginCommand(c, n)
  BY <1>3 DEF BeginByHand
<1>4. CASE UNCHANGED vars
  BY <1>4 DEF vars
<1>5. CASE Next
  BY <1>1, <1>2, <1>3, <1>5 DEF Next
<1> QED BY <1>4, <1>5

LEMMA MigrationInvStep == MigrationInv /\ [Next]_vars => MigrationInv'
<1> SUFFICES ASSUME MigrationInv, [Next]_vars PROVE MigrationInv'
  OBVIOUS
<1>1. ASSUME NEW w \in Writers, WriterAdvances(w) \/ WriterFails(w) PROVE MigrationInv'
  BY <1>1, WriterRowKeeps, WriterLogKeeps, WriterCommitKeeps, WriterFailsKeeps
     DEF WriterAdvances
<1>2. CASE UNCHANGED migrationVars
  BY <1>2 DEF migrationVars, MigrationInv, SchemaTyped, Exclusion, SchemaMatchesRevision,
      RowsFitSchema, EntriesHaveRows, CommandInv, Running, Placed, Locked, OnCourse, Filled,
      FilledEditors, FilledReasons, AboutToRequire, OnlyFills, Empties, Changes, Ahead,
      SeesEditors, SeesReasons, LegacyEntry, Writing, Fitting, Active
<1> QED BY <1>1, <1>2, MigrationSteps, BeginKeeps, ExecuteKeeps, CommitKeeps, AbandonKeeps

\* The inductive invariant holds in every reachable state.
THEOREM MigrationInvariant == Spec => []MigrationInv
<1>1. DeploymentInit => MigrationInv
  BY InitMigrationInv DEF DeploymentInit
<1> QED BY <1>1, MigrationInvStep, PTL DEF Spec

\* What the commands have left is the schema of the revision in alembic_version,
\* whatever failed on the way (env.py runs a command as one transaction).
THEOREM CommittedSchemaIsARevision == Spec => []SchemaMatchesRevision
<1>1. MigrationInv => SchemaMatchesRevision
  BY DEF MigrationInv
<1> QED BY <1>1, MigrationInvariant, PTL

\* What a command sees, as long as nobody has changed the revision it began with.
LEMMA SeesAhead ==
    ASSUME MigrationInv, NEW c \in Commands, Running(c), schema.version = command[c].began,
           NEW object \in DOMAIN StatesOf
    PROVE  \/ Sees(c)[object] = Ahead(c, object)
           \/ schema = [SchemaAt(Base) EXCEPT !.type = "present"] /\ object = "type"
<1>1. SchemaTyped /\ command[c] # None
  BY DEF MigrationInv, Running
<1>2. Sees(c)[object] = IF Changes(c, object) THEN command[c].schema[object] ELSE schema[object]
  BY <1>1, SeesSchema
<1>3. CASE schema = SchemaAt(schema.version)
  BY <1>2, <1>3 DEF Ahead
<1>4. CASE schema = [SchemaAt(Base) EXCEPT !.type = "present"]
  <2>1. object # "type" => schema[object] = SchemaAt(command[c].began)[object]
    <3>1. schema.version = 0
      BY <1>4 DEF SchemaAt, Base
    <3> QED BY <1>4, <3>1 DEF SchemaAt, Base, StatesOf
  <2> QED BY <1>2, <1>4, <2>1 DEF Ahead
<1> QED BY <1>3, <1>4 DEF MigrationInv, SchemaMatchesRevision

\* Of what is refused to an upgrade nothing is left that it could be blamed for.
LEMMA RefusalsExplained == MigrationInv => UpgradeRefusalsExplained
<1> SUFFICES ASSUME MigrationInv, NEW c \in Commands, Upgrades(c), IsRefused(c),
                    schema.version = command[c].began
             PROVE  \/ Overtaken(c)
                    \/ /\ NextOp(c) = "create_tables"
                       /\ schema = [SchemaAt(Base) EXCEPT !.type = "present"]
  BY DEF UpgradeRefusalsExplained, Overtaken
<1>1. /\ SchemaTyped /\ Running(c) /\ Pending(c) /\ command[c] # None
      /\ Placed(c) /\ OnCourse(c) /\ Filled(c)
  BY DEF MigrationInv, CommandInv, IsRefused, Pending, Running
<1>2. PICK op : op = NextOp(c)
  OBVIOUS
<1>3. PICK b \in 0 .. 3, n \in 0 .. 3, k \in 0 .. 3, m \in 0 .. 3 :
          /\ command[c].began = b /\ command[c].at = n
          /\ command[c].done = k /\ command[c].target = m
          /\ Standing(op, n, k, m)
  BY <1>1, <1>2, CommandFields, StatementStands
<1>4. b < m /\ n < m /\ b <= n
  BY <1>1, <1>3 DEF Upgrades, Placed, Pending
<1>5. Refused(c, op)
  BY <1>2 DEF IsRefused
<1>6. /\ Sees(c).tables = Ahead(c, "tables") /\ Sees(c).updated_by = Ahead(c, "updated_by")
      /\ Sees(c).version = Ahead(c, "version")
      /\ \/ Sees(c).type = Ahead(c, "type")
         \/ schema = [SchemaAt(Base) EXCEPT !.type = "present"]
  BY <1>1, SeesAhead DEF StatesOf
<1>7. /\ Ahead(c, "type") = IF n + b + k = 0 THEN "absent" ELSE "present"
      /\ Ahead(c, "tables") = IF n = 0 /\ k = 0 THEN "absent" ELSE "present"
      /\ Ahead(c, "updated_by") =
             IF n = 3 \/ n = 2 \/ (n = 1 /\ k = 3) THEN "required"
             ELSE IF n = 1 /\ k \in {1, 2} THEN "nullable" ELSE "absent"
      /\ Ahead(c, "version") = n
  BY <1>1, <1>3, <1>4 DEF OnCourse
<1>8. CASE op = "create_tables"
  BY <1>2, <1>3, <1>4, <1>5, <1>6, <1>7, <1>8 DEF Standing, Refused
<1>9. CASE op = "stamp"
  BY <1>3, <1>5, <1>6, <1>7, <1>9 DEF Refused
<1>10. CASE op = "add_updated_by"
  <2>1. n = 1 /\ k = 0
    BY <1>3, <1>10 DEF Standing
  <2> QED BY <1>5, <1>6, <1>7, <1>10, <2>1 DEF Refused
<1>11. CASE op = "backfill_updated_by"
  <2>1. n = 1 /\ k = 1
    BY <1>3, <1>11 DEF Standing
  <2> QED BY <1>5, <1>6, <1>7, <1>11, <2>1 DEF Refused
<1>12. CASE op = "require_updated_by"
  <2>1. n = 1 /\ k = 2
    BY <1>3, <1>12 DEF Standing
  <2>2. \A t \in Tenders : SeesEditors(c)[t] # "unset"
    <3>1. command[c].at = 1 /\ command[c].at < command[c].target /\ command[c].done >= 2
      BY <1>3, <1>4, <2>1
    <3> QED BY <1>1, <3>1 DEF Filled, FilledEditors
  <2> QED BY <1>5, <1>6, <1>7, <1>12, <2>1, <2>2 DEF Refused
<1>13. CASE op = "require_reason"
  <2>1. n = 2 /\ k = 1
    BY <1>3, <1>13 DEF Standing
  <2>2. \A t \in Tenders : SeesReasons(c)[t] = "missing" => LegacyEntry(t)
    BY <1>1, <1>3, <1>4, <2>1 DEF Filled, AboutToRequire
  <2>3. \E t \in Tenders : SeesReasons(c)[t] = "missing"
    BY <1>5, <1>6, <1>7, <1>13, <2>1 DEF Refused
  <2> QED BY <1>2, <1>13, <2>2, <2>3 DEF Overtaken
<1>14. CASE op \in {"backfill_reason", "drop_log", "drop_tenders", "relax_reason",
                    "drop_updated_by"}
  <2>1. op = "backfill_reason" /\ n = 2
    BY <1>3, <1>4, <1>14 DEF Standing
  <2> QED BY <1>5, <1>6, <1>7, <2>1 DEF Refused
<1> QED BY <1>3, <1>8, <1>9, <1>10, <1>11, <1>12, <1>13, <1>14 DEF Standing, Statements

\* PostgreSQL refuses an upgrade, and with it the start of a container, only when
\* it was overtaken or comes after a downgrade to base.
THEOREM RefusalsOfUpgrades == Spec => []UpgradeRefusalsExplained
BY MigrationInvariant, RefusalsExplained, PTL

\* The commit of an upgrade loses no row and overwrites no value: it fills gaps.
THEOREM UpgradesFillGaps == Spec => UpgradeKeepsData
<1> DEFINE A == \A c \in Commands : Upgrades(c) /\ CommitCommand(c) =>
                    /\ FilledOnly(editors, editors', "unset", "creator")
                    /\ FilledOnly(reasons, reasons', "missing", "placeholder")
<1>1. ASSUME MigrationInv PROVE A
  <2> SUFFICES ASSUME NEW c \in Commands, Upgrades(c), CommitCommand(c), NEW t \in Tenders
               PROVE  /\ editors'[t] # editors[t] =>
                             editors[t] = "unset" /\ editors'[t] = "creator"
                      /\ reasons'[t] # reasons[t] =>
                             reasons[t] = "missing" /\ reasons'[t] = "placeholder"
    BY DEF FilledOnly
  <2>1. OnlyFills(c)
    BY <1>1, CommitPosition DEF Filled
  <2>2. /\ \A u \in DOMAIN command[c].editors :
               editors[u] = "unset" /\ command[c].editors[u] = "creator"
        /\ \A u \in DOMAIN command[c].reasons :
               reasons[u] = "missing" /\ command[c].reasons[u] = "placeholder"
    BY <1>1, <2>1, CommitPosition DEF OnlyFills, Upgrades
  <2> QED BY <1>1, <2>2, CommitRows
<1>2. MigrationInv => [A]_migrationVars
  BY <1>1
<1> QED BY <1>2, MigrationInvariant, PTL DEF UpgradeKeepsData
===============================================================================
