---------------------------- MODULE LockOrderProofs ----------------------------
(***************************************************************************)
(* Which circles of sessions that wait for each other there can be, for    *)
(* any number of commands and writers.                                     *)
(*                                                                         *)
(* The argument: an upgrade from before 023e8e649151 takes the table of    *)
(* tenders first and keeps it, so that nobody beside it holds a lock; one  *)
(* from 023e8e649151 on takes none but those of the log and, at its end,   *)
(* the version; a writer that waits holds a row lock of tenders only.  The *)
(* log and the version are where they wait, and who holds those waits for  *)
(* nothing that another of them has, except for the log itself.            *)
(***************************************************************************)
EXTENDS MigrationProofs

-------------------------------------------------------------------------------
(* The inductive invariant *)

\* Until its first statement a command holds nothing, and then, if it adds the
\* constraint on reasons only, nothing but the log before its stamp.
HoldsInOrder(c) ==
    /\ command[c].at = command[c].began /\ command[c].done = 0 => locks[c] = {}
    /\ command[c].began = 2 /\ command[c].at = 2 /\ command[c].target = 3 =>
           \A l \in locks[c] : l[1] = "log"

LockOrder ==
    /\ \A c \in Commands : command[c] = None => locks[c] = {}
    /\ \A c \in Commands : Running(c) => HoldsInOrder(c)
    /\ \A w \in Writers : writer[w] = None => locks[w] = {}
    /\ \A w \in Writers : Writing(w, "row") => \A l \in locks[w] : l[1] = "tenders"

LEMMA InitLockOrder == MigrationInit => LockOrder
BY SessionsAre DEF MigrationInit, LockOrder, Running, Writing

\* A step of one session disturbs what is said of that session only.
LEMMA OthersInOrder ==
    ASSUME LockOrder, NEW s \in Sessions,
           \A o \in Sessions \ {s} : locks'[o] = locks[o],
           \A c \in Commands \ {s} : command'[c] = command[c],
           \A w \in Writers \ {s} : writer'[w] = writer[w]
    PROVE  /\ \A c \in Commands \ {s} :
                  /\ command'[c] = None => locks'[c] = {}
                  /\ Running(c)' => HoldsInOrder(c)'
           /\ \A w \in Writers \ {s} :
                  /\ writer'[w] = None => locks'[w] = {}
                  /\ Writing(w, "row")' => \A l \in locks'[w] : l[1] = "tenders"
<1>1. \A c \in Commands \ {s} : /\ command'[c] = None => locks'[c] = {}
                                /\ Running(c)' => HoldsInOrder(c)'
  BY SessionsAre DEF LockOrder, Running, HoldsInOrder
<1>2. \A w \in Writers \ {s} :
          /\ writer'[w] = None => locks'[w] = {}
          /\ Writing(w, "row")' => \A l \in locks'[w] : l[1] = "tenders"
  BY SessionsAre DEF LockOrder, Writing
<1> QED BY <1>1, <1>2

LEMMA BeginInOrder ==
    ASSUME MigrationInv, LockOrder, NEW c \in Commands, NEW n \in Revisions, BeginCommand(c, n)
    PROVE  LockOrder'
<1>1. locks' = locks /\ writer' = writer /\ locks[c] = {}
  BY DEF BeginCommand, LockOrder
<1>2. \A d \in Commands \ {c} : command'[d] = command[d]
  BY DEF BeginCommand, MigrationInv, SchemaTyped
<1>3. HoldsInOrder(c)'
  BY <1>1 DEF HoldsInOrder
<1> QED BY <1>1, <1>2, <1>3, OthersInOrder, SessionsAre DEF LockOrder

LEMMA EndInOrder ==
    ASSUME MigrationInv, LockOrder, NEW c \in Commands,
           CommitCommand(c) \/ (Running(c) /\ Abandon(c))
    PROVE  LockOrder'
<1>1. command[c] \in Command
  BY CommandFields DEF MigrationInv, CommitCommand, Running
<1>2. /\ command'[c].state \in {"committed", "failed"}
      /\ \A d \in Commands \ {c} : command'[d] = command[d]
  BY <1>1 DEF CommitCommand, Abandon, MigrationInv, SchemaTyped, Command
<1>3. /\ locks'[c] = {} /\ \A o \in Sessions \ {c} : locks'[o] = locks[o]
      /\ writer' = writer
  BY SessionsAre DEF CommitCommand, Abandon, Release, MigrationInv, SchemaTyped
<1>4. ~Running(c)'
  BY <1>2 DEF Running
<1> QED BY <1>2, <1>3, <1>4, OthersInOrder, SessionsAre DEF LockOrder

\* A statement takes its lock when the command has come past its beginning.
LEMMA ExecuteInOrder ==
    ASSUME MigrationInv, LockOrder, NEW c \in Commands, Execute(c)
    PROVE  LockOrder'
<1>0. PICK op : op = NextOp(c)
  OBVIOUS
<1>1. /\ op \in Statements
      /\ \A d \in Commands \ {c} : command'[d] = command[d]
      /\ \A o \in Sessions \ {c} : locks'[o] = locks[o]
      /\ locks'[c] = locks[c] \union {LockOf(op)}
      /\ command'[c] \in Command
      /\ command'[c].began = command[c].began /\ command'[c].target = command[c].target
      /\ command'[c].at = IF op = "stamp" THEN Towards(c) ELSE command[c].at
      /\ command'[c].done = IF op = "stamp" THEN 0 ELSE command[c].done + 1
  BY <1>0, ExecuteEffect
<1>2. /\ SchemaTyped /\ Pending(c) /\ Running(c) /\ command[c] # None
      /\ Placed(c) /\ HoldsInOrder(c)
  BY DEF Execute, Pending, Running, MigrationInv, CommandInv, LockOrder
<1>3. PICK b \in 0 .. 3, n \in 0 .. 3, k \in 0 .. 3, m \in 0 .. 3 :
          command[c].began = b /\ command[c].at = n /\ command[c].done = k
          /\ command[c].target = m /\ m # n
  BY <1>2, CommandFields DEF Pending
<1>4. /\ (b <= n /\ n <= m) \/ (m <= n /\ n <= b)
      /\ Towards(c) = IF m > n THEN n + 1 ELSE n - 1
  BY <1>2, <1>3, TowardsTyped DEF Placed
<1>5. ~(command'[c].at = command'[c].began /\ command'[c].done = 0)
  BY <1>1, <1>3, <1>4
<1>6. ASSUME command'[c].began = 2, command'[c].at = 2, command'[c].target = 3
      PROVE  \A l \in locks'[c] : l[1] = "log"
  <2>1. b = 2 /\ n = 2 /\ m = 3 /\ op # "stamp"
    BY <1>1, <1>3, <1>4, <1>6
  <2>2. op \in {"backfill_reason", "require_reason"}
    BY <1>0, <1>2, <1>3, <2>1, ScriptPosition DEF UpgradePosition, Position
  <2>3. LockOf(op)[1] = "log"
    BY <1>1, <2>2, LocksTaken
  <2> QED BY <1>1, <1>2, <1>3, <2>1, <2>3 DEF HoldsInOrder
<1>7. HoldsInOrder(c)' /\ command'[c] # None
  BY <1>1, <1>5, <1>6, NoValueAssumption DEF HoldsInOrder
<1>8. writer' = writer
  BY DEF Execute
<1> QED BY <1>1, <1>7, <1>8, OthersInOrder, SessionsAre DEF LockOrder

LEMMA WriterInOrder ==
    ASSUME MigrationInv, LockOrder, NEW w \in Writers, WriterAdvances(w) \/ WriterFails(w)
    PROVE  LockOrder'
<1>1. command' = command /\ \A o \in Writers \ {w} : writer'[o] = writer[o]
  BY DEF WriterAdvances, WriterRow, WriterLog, WriterCommit, WriterFails, MigrationInv,
      SchemaTyped
<1>2. /\ \A o \in Sessions \ {w} : locks'[o] = locks[o]
      /\ writer'[w] = None => locks'[w] = {}
      /\ Writing(w, "row")' => \A l \in locks'[w] : l[1] = "tenders"
  <2>1. CASE \E t \in Tenders : WriterRow(w, t)
    <3>1. PICK t \in Tenders : WriterRow(w, t)
      BY <2>1
    <3>2. /\ locks[w] = {} /\ locks'[w] = locks[w] \union {<<"tenders", "row">>}
          /\ \A o \in Sessions \ {w} : locks'[o] = locks[o]
      BY <3>1, SessionsAre DEF WriterRow, Take, LockOrder, MigrationInv, SchemaTyped
    <3>3. writer'[w] # None
      <4>1. PICK e : e = CASE editors[t] = None -> IF release = 1 THEN "unset" ELSE "creator"
                           [] OTHER -> IF release = 1 THEN editors[t] ELSE "other"
        OBVIOUS
      <4>2. editors[t] \in Editors \union {None}
        BY DEF MigrationInv, SchemaTyped
      <4>3. [tender |-> t, editor |-> e, reason |-> None, state |-> "row"] \in Writer
        BY <4>1, <4>2 DEF Writer, Editors
      <4>4. writer'[w] = [tender |-> t, editor |-> e, reason |-> None, state |-> "row"]
        BY <3>1, <4>1 DEF WriterRow, MigrationInv, SchemaTyped
      <4> QED BY <4>3, <4>4, NoValueAssumption
    <3> QED BY <3>2, <3>3
  <2>2. CASE \E reason \in {"missing", "given"} : WriterLog(w, reason)
    <3>1. PICK reason \in {"missing", "given"} : WriterLog(w, reason)
      BY <2>2
    <3>2. writer[w] \in Writer
      BY <3>1, WriterFields DEF WriterLog, Writing, MigrationInv
    <3>3. writer' = [writer EXCEPT ![w] =
                        [[writer[w] EXCEPT !.reason = reason] EXCEPT !.state = "log"]]
      BY <3>1 DEF WriterLog, MigrationInv, SchemaTyped
    <3>4. [[writer[w] EXCEPT !.reason = reason] EXCEPT !.state = "log"] \in Writer
      BY <3>2 DEF Writer, Reasons
    <3>5. writer'[w] \in Writer /\ writer'[w].state = "log"
      BY <3>2, <3>3, <3>4 DEF MigrationInv, SchemaTyped, Writer
    <3>6. writer'[w] # None
      BY <3>5, NoValueAssumption
    <3>7. \A o \in Sessions \ {w} : locks'[o] = locks[o]
      BY <3>1, SessionsAre DEF WriterLog, Take, MigrationInv, SchemaTyped
    <3> QED BY <3>5, <3>6, <3>7 DEF Writing
  <2>3. CASE WriterCommit(w) \/ WriterFails(w)
    <3>1. locks'[w] = {} /\ \A o \in Sessions \ {w} : locks'[o] = locks[o]
      BY <2>3, SessionsAre DEF WriterCommit, WriterFails, Release, MigrationInv, SchemaTyped
    <3> QED BY <3>1
  <2> QED BY <2>1, <2>2, <2>3 DEF WriterAdvances
<1> QED BY <1>1, <1>2, OthersInOrder, SessionsAre DEF LockOrder

LEMMA LockOrderStep == MigrationInv /\ LockOrder /\ [Next]_vars => LockOrder'
<1> SUFFICES ASSUME MigrationInv, LockOrder, [Next]_vars PROVE LockOrder'
  OBVIOUS
<1>1. CASE UNCHANGED migrationVars
  BY <1>1 DEF migrationVars, LockOrder, Running, HoldsInOrder, Writing
<1> QED BY <1>1, MigrationSteps, BeginInOrder, ExecuteInOrder, EndInOrder, WriterInOrder

-------------------------------------------------------------------------------
(* Circles *)

\* An upgrade that starts before 023e8e649151 has tenders from its first statement on.
LEMMA HoldsTenders ==
    ASSUME MigrationInv, NEW c \in Commands, Running(c), command[c].began < 2,
           command[c].began < command[c].target,
           ~(command[c].at = command[c].began /\ command[c].done = 0)
    PROVE  <<"tenders", "table">> \in locks[c]
<1>1. SchemaTyped /\ command[c] # None /\ Placed(c) /\ Locked(c) /\ OnCourse(c)
  BY DEF MigrationInv, CommandInv, Running
<1>2. PICK b \in 0 .. 3, n \in 0 .. 3, k \in 0 .. 3, m \in 0 .. 3 :
          command[c].began = b /\ command[c].at = n /\ command[c].done = k
          /\ command[c].target = m
  BY <1>1, CommandFields
<1>3. b \in {0, 1} /\ b < m /\ b <= n /\ n <= m /\ ~(n = b /\ k = 0) /\ (n = m => k = 0)
      /\ (n < m => k <= (IF n = 1 THEN 3 ELSE n \div 2 + 1))
  BY <1>1, <1>2 DEF Placed
<1>4. CASE b = 0
  <2>1. n + k > 0
    BY <1>3, <1>4
  <2> QED BY <1>1, <1>2, <1>4, <2>1 DEF OnCourse, Locked
<1>5. CASE b = 1
  <2>1. Ahead(c, "updated_by") # "absent"
    BY <1>1, <1>2, <1>3, <1>5 DEF OnCourse
  <2>2. SchemaAt(command[c].began)["updated_by"] = "absent"
    BY <1>2, <1>5 DEF SchemaAt
  <2>3. Changes(c, "updated_by")
    BY <2>1, <2>2 DEF Ahead
  <2> QED BY <1>1, <2>3 DEF Locked
<1> QED BY <1>3, <1>4, <1>5

LEMMA NoOtherCircles == MigrationInv /\ LockOrder => CirclesExplained
<1> SUFFICES ASSUME MigrationInv, LockOrder, NEW D \in SUBSET Sessions, Stuck(D),
                    \A c \in D \cap Commands :
                        ~Downgrades(c) /\ schema.version = command[c].began,
                    \A c, d \in D \cap Commands : ~SharedBackfill(c, d)
             PROVE  FALSE
  BY DEF CirclesExplained
<1>1. ASSUME NEW c \in D, c \in Commands
      PROVE  /\ Pending(c) /\ Running(c) /\ HoldsInOrder(c) /\ UpgradePosition(c)
             /\ command[c].began = schema.version
             /\ command[c].began < command[c].target
             /\ command[c].began <= command[c].at /\ command[c].at < command[c].target
             /\ command[c].began \in 0 .. 2 /\ command[c].target \in 0 .. 3
             /\ command[c].at \in 0 .. 3 /\ command[c].done \in 0 .. 3
             /\ \E o \in D \ {c} : \E l \in locks[o] : Conflict(LockOf(NextOp(c)), l)
  <2>1. WaitsFor(c) \cap D # {}
    BY DEF Stuck
  <2>2. Pending(c) /\ WaitsFor(c) = Blockers(c, LockOf(NextOp(c)))
    BY <1>1, <2>1 DEF WaitsFor
  <2>3. SchemaTyped /\ Running(c) /\ command[c] # None /\ Placed(c) /\ HoldsInOrder(c)
    BY <1>1, <2>2 DEF Pending, Running, MigrationInv, CommandInv, LockOrder
  <2>4. PICK b \in 0 .. 3, n \in 0 .. 3, k \in 0 .. 3, m \in 0 .. 3 :
            command[c].began = b /\ command[c].at = n /\ command[c].done = k
            /\ command[c].target = m /\ m # n
    BY <1>1, <2>2, <2>3, CommandFields DEF Pending
  <2>5. b <= n /\ n < m /\ b < m /\ b \in 0 .. 2
    BY <1>1, <2>3, <2>4 DEF Placed, Downgrades
  <2>6. UpgradePosition(c)
    BY <1>1, <2>2, <2>3, <2>4, <2>5, ScriptPosition
  <2>7. \E o \in D \ {c} : \E l \in locks[o] : Conflict(LockOf(NextOp(c)), l)
    BY <2>1, <2>2 DEF Blockers
  <2>8. command[c].began = schema.version
    BY <1>1
  <2> QED BY <2>2, <2>3, <2>4, <2>5, <2>6, <2>7, <2>8
<1>2. ASSUME NEW w \in D, w \in Writers
      PROVE  /\ \A l \in locks[w] : l[1] = "tenders"
             /\ <<"tenders", "row">> \in locks[w]
             /\ \E o \in D \ {w} : \E l \in locks[o] : l[1] = "log"
  <2>1. WaitsFor(w) \cap D # {} /\ w \notin Commands
    BY <1>2, SessionsAre DEF Stuck
  <2>2. Writing(w, "row") /\ WaitsFor(w) = Blockers(w, <<"log", "row">>)
    BY <2>1 DEF WaitsFor
  <2>3. \E o \in D \ {w} : \E l \in locks[o] : l[1] = "log"
    BY <2>1, <2>2 DEF Blockers, Conflict
  <2>4. Fitting(w) /\ Active(w)
    BY <1>2, <2>2 DEF MigrationInv, Active
  <2> QED BY <1>2, <2>2, <2>3, <2>4 DEF LockOrder, Fitting
<1>3. \A s \in D : s \in Sessions /\ (s \in Commands \/ s \in Writers)
  BY DEF Sessions
<1>4. PICK s \in D : TRUE
  BY DEF Stuck
<1>5. (\A o \in D : \A l \in locks[o] : l[1] # "log") => \A o \in D : o \in Commands
  BY <1>2, <1>3
<1>6. ASSUME NEW c \in D, c \in Commands, command[c].began < 2
      PROVE  locks[c] = {}
  <2>1. SUFFICES ASSUME locks[c] # {} PROVE FALSE
    OBVIOUS
  <2>2. <<"tenders", "table">> \in locks[c]
    BY <1>1, <1>6, <2>1, HoldsTenders DEF HoldsInOrder
  <2>3. ASSUME NEW o \in D \ {c} PROVE locks[o] = {}
    <3>1. \A l \in locks[o] : ~Conflict(<<"tenders", "table">>, l)
      BY <1>3, <1>6, <2>2 DEF MigrationInv, Exclusion
    <3>2. <<"tenders", "row">> \notin locks[o] /\ <<"tenders", "table">> \notin locks[o]
      BY <3>1 DEF Conflict
    <3>3. o \in Commands
      BY <1>2, <1>3, <3>2
    <3> QED BY <1>1, <1>6, <3>2, <3>3, HoldsTenders DEF HoldsInOrder
  <2> QED BY <1>1, <1>6, <2>3
<1>7. CASE schema.version < 2
  <2>1. \A c \in D : c \in Commands => locks[c] = {}
    BY <1>1, <1>6, <1>7
  <2>2. \A o \in D : \A l \in locks[o] : l[1] # "log"
    BY <1>2, <1>3, <2>1
  <2>3. \A o \in D : locks[o] = {}
    BY <1>5, <2>1, <2>2
  <2> QED BY <1>1, <1>4, <1>5, <2>2, <2>3
<1>8. CASE ~(schema.version < 2)
  <2>1. ASSUME NEW c \in D, c \in Commands
        PROVE  /\ \A l \in locks[c] : l[1] = "log"
               /\ \/ NextOp(c) = "backfill_reason" /\ locks[c] = {}
                  \/ NextOp(c) = "require_reason"
                  \/ NextOp(c) = "stamp"
    <3>1. command[c].began = 2 /\ command[c].at = 2 /\ command[c].target = 3
      BY <1>1, <1>8, <2>1
    <3> QED BY <1>1, <2>1, <3>1 DEF HoldsInOrder, UpgradePosition, Position
  <2>2. \A o \in D : \A l \in locks[o] : l[1] \in {"log", "tenders"}
    BY <1>2, <1>3, <2>1
  <2>3. ASSUME NEW c \in D, c \in Commands PROVE NextOp(c) # "stamp"
    <3>1. LockOf("stamp") = <<"version", "table">>
      BY LocksTaken DEF Statements
    <3> QED BY <1>1, <2>2, <2>3, <3>1 DEF Conflict
  <2>4. ASSUME NEW c \in D, c \in Commands PROVE NextOp(c) # "require_reason"
    <3>1. SUFFICES ASSUME NextOp(c) = "require_reason" PROVE FALSE
      OBVIOUS
    <3>2. LockOf("require_reason") = <<"log", "table">>
      BY LocksTaken DEF Statements
    <3>3. PICK o \in D \ {c} : \E l \in locks[o] : l[1] = "log"
      BY <1>1, <2>4, <3>1, <3>2 DEF Conflict
    <3>4. o \in Commands
      BY <1>2, <1>3, <3>3
    <3>5. NextOp(o) = "require_reason"
      BY <2>1, <2>3, <3>3, <3>4
    <3> QED BY <2>4, <3>1, <3>4, <3>5 DEF SharedBackfill
  <2>5. \A c \in D : c \in Commands => locks[c] = {}
    BY <2>1, <2>3, <2>4
  <2>6. \A o \in D : \A l \in locks[o] : l[1] # "log"
    BY <1>2, <1>3, <2>5
  <2> QED BY <1>1, <1>4, <1>5, <2>5, <2>6
<1> QED BY <1>7, <1>8

\* Upgrades and requests of the release before take tenders before the log: they
\* wait in a circle only with a downgrade, a command that was overtaken, or two
\* upgrades that have both filled the reasons.
THEOREM OnlyKnownCircles == Spec => []CirclesExplained
<1>1. DeploymentInit => LockOrder
  BY InitLockOrder DEF DeploymentInit
<1>2. Spec => [](MigrationInv /\ LockOrder)
  <2>1. Spec => []MigrationInv
    BY MigrationInvariant
  <2>2. []MigrationInv /\ LockOrder /\ [][Next]_vars => []LockOrder
    BY LockOrderStep, PTL
  <2> QED BY <1>1, <2>1, <2>2, PTL DEF Spec
<1> QED BY <1>2, NoOtherCircles, PTL
===============================================================================
