---------------------------- MODULE DeploymentProofs ----------------------------
(***************************************************************************)
(* What a container promises, for any number of containers, of alembic     *)
(* commands beside them and of environments, wherever one is killed.       *)
(*                                                                         *)
(* The argument: the phase of a container says what it has opened and      *)
(* closed (Shape), and a container that has passed its migrations has a    *)
(* committed command and a configuration that loads (Ready).  Once a       *)
(* container's command has committed, the head revision is lost only to an *)
(* operator's command, which is then the one that left the revision there  *)
(* (Moved).                                                                *)
(***************************************************************************)
EXTENDS MigrationProofs, SequenceTheorems

-------------------------------------------------------------------------------
(* The inductive invariant *)

\* What a command has noted of each object is a state of that object.
ObjectsTyped ==
    \A c \in Commands : command[c] # None =>
        \A object \in DOMAIN command[c].schema :
            object \in DOMAIN StatesOf /\ command[c].schema[object] \in StatesOf[object]

ContainersTyped ==
    /\ phase \in [Instances -> Phases]
    /\ env \in [Instances -> Environments \union {None}]
    /\ open \in [Instances -> {<<>>, <<"database">>, <<"database", "redis_client">>}]
    /\ called \in [Instances -> SUBSET Resources]

\* What a container has opened and closed in each phase.
Shape(i) ==
    /\ phase[i] \in {"off", "migrating"} => open[i] = <<>>
    /\ phase[i] = "starting" => open[i] \in {<<>>, <<"database">>}
    /\ phase[i] \in {"serving", "closing", "stopped"}
           => open[i] = <<"database", "redis_client">>
    /\ phase[i] \in {"off", "migrating", "starting", "serving"} => called[i] = {}
    /\ phase[i] = "closing" => called[i] \in {{}, {"database"}}
    /\ phase[i] \in {"stopped", "failed"} => called[i] = Opened(i)
    /\ called[i] \subseteq Opened(i)

\* What a container needed to come where it is.
Ready(i) == phase[i] \in {"starting", "serving"} => Migrated(i) /\ Loads(env[i])

\* The head revision, or what a command by hand has left of it.
Moved == schema.version = Latest \/ Downgraded

\* A container's command that is over, or had nothing to do, has seen the head.
Heads(i) ==
    command[i] # None =>
        /\ command[i].target = Latest
        /\ command[i].state = "committed" \/ command[i].began = Latest => Moved

DeploymentInv ==
    /\ ObjectsTyped
    /\ ContainersTyped
    /\ \A i \in Instances : Shape(i) /\ Ready(i) /\ Heads(i)


-------------------------------------------------------------------------------
(* The types *)

LEMMA InitDeploymentInv == ASSUME DeploymentInit PROVE DeploymentInv
<1>1. \A c \in Commands : command[c] = None
  BY DEF DeploymentInit, MigrationInit
<1>2. ObjectsTyped
  BY <1>1 DEF ObjectsTyped
<1>3. ContainersTyped
  BY DEF DeploymentInit, ContainersTyped, Phases
<1>4. ASSUME NEW i \in Instances PROVE Shape(i) /\ Ready(i) /\ Heads(i)
  <2>1. phase[i] = "off" /\ open[i] = <<>> /\ called[i] = {} /\ command[i] = None
    BY <1>1, InstancesAssumption DEF DeploymentInit
  <2> QED BY <2>1 DEF Shape, Ready, Heads
<1> QED BY <1>2, <1>3, <1>4 DEF DeploymentInv

LEMMA SchemaChangesFit ==
    ASSUME SchemaTyped, NEW c \in Commands, Pending(c), NEW op \in Statements,
           NEW object \in DOMAIN SchemaChange(c, op)
    PROVE  object \in DOMAIN StatesOf /\ SchemaChange(c, op)[object] \in StatesOf[object]
<1>1. /\ StatesOf["type"] = {"absent", "present"} /\ StatesOf["tables"] = {"absent", "present"}
      /\ StatesOf["updated_by"] = {"absent", "nullable", "required"}
      /\ StatesOf["update_reason"] = {"absent", "nullable", "required"}
      /\ StatesOf["version"] = Revisions
      /\ DOMAIN StatesOf = {"type", "tables", "updated_by", "update_reason", "version"}
  BY DEF StatesOf
<1>2. CASE op \in {"create_tables", "drop_tenders"}
  BY <1>1, <1>2, SchemaChanges
<1>3. CASE op \in {"add_updated_by", "require_updated_by", "drop_updated_by"}
  BY <1>1, <1>3, SchemaChanges
<1>4. CASE op \in {"require_reason", "relax_reason"}
  BY <1>1, <1>4, SchemaChanges
<1>5. CASE op = "stamp"
  BY <1>1, <1>5, SchemaChanges, TowardsTyped
<1>6. CASE op \in {"backfill_updated_by", "backfill_reason", "drop_log"}
  <2>1. SchemaChange(c, op) = <<>>
    BY <1>6, SchemaChanges
  <2> QED BY <2>1
<1> QED BY <1>2, <1>3, <1>4, <1>5, <1>6 DEF Statements

LEMMA ObjectsStep ==
    ASSUME MigrationInv, ObjectsTyped, [Next]_vars
    PROVE  ObjectsTyped'
<1> SUFFICES ASSUME NEW d \in Commands, command'[d] # None,
                    NEW object \in DOMAIN command'[d].schema
             PROVE  /\ object \in DOMAIN StatesOf
                    /\ command'[d].schema[object] \in StatesOf[object]
  BY DEF ObjectsTyped
<1>1. SchemaTyped
  BY DEF MigrationInv
<1>2. ASSUME NEW c \in Commands, NEW n \in Revisions, BeginCommand(c, n)
      PROVE  d # c => command'[d] = command[d]
  BY <1>1, <1>2 DEF BeginCommand, SchemaTyped
<1>3. ASSUME NEW c \in Commands, NEW n \in Revisions, BeginCommand(c, n)
      PROVE  d = c => DOMAIN command'[d].schema = {}
  <2>1. command'[c] = [state |-> "running", began |-> schema.version, target |-> n,
                       at |-> schema.version, done |-> 0,
                       schema |-> <<>>, editors |-> <<>>, reasons |-> <<>>]
    BY <1>1, <1>3, BeginTyped
  <2> QED BY <2>1
<1>4. ASSUME NEW c \in Commands, CommitCommand(c) \/ (Running(c) /\ Abandon(c))
      PROVE  command[d] # None /\ command'[d].schema = command[d].schema
  <2>1. command[c] \in Command
    BY <1>1, <1>4, CommandFields DEF CommitCommand, Running
  <2>2. PICK s : command' = [command EXCEPT ![c] = [command[c] EXCEPT !.state = s]]
    BY <1>4 DEF CommitCommand, Abandon
  <2>3. DOMAIN command = Commands
    BY <1>1 DEF SchemaTyped
  <2>4. [command[c] EXCEPT !.state = s].schema = command[c].schema
    BY <2>1 DEF Command
  <2>5. command[c] # None
    BY <1>4 DEF CommitCommand, Running
  <2> QED BY <2>2, <2>3, <2>4, <2>5
<1>5. ASSUME NEW c \in Commands, Execute(c), d # c
      PROVE  command'[d] = command[d]
  BY <1>5, ExecuteEffect
<1>6. ASSUME NEW c \in Commands, Execute(c), d = c
      PROVE  /\ object \in DOMAIN StatesOf
             /\ command'[d].schema[object] \in StatesOf[object]
  <2>1. NextOp(c) \in Statements /\ Pending(c) /\ command[c] # None
    BY <1>6, ExecuteStart DEF Standing
  <2>2. CASE object \in DOMAIN SchemaChange(c, NextOp(c))
    <3>1. command'[c].schema[object] = SchemaChange(c, NextOp(c))[object]
      BY <1>6, <2>2, ExecuteView
    <3> QED BY <1>1, <1>6, <2>1, <2>2, <3>1, SchemaChangesFit
  <2>3. CASE object \notin DOMAIN SchemaChange(c, NextOp(c))
    <3>1. object \in DOMAIN command[c].schema
          /\ command'[c].schema[object] = command[c].schema[object]
      BY <1>6, <2>3, ExecuteView DEF Changes
    <3> QED BY <1>6, <2>1, <3>1 DEF ObjectsTyped
  <2> QED BY <2>2, <2>3
<1>7. CASE \E w \in Writers : WriterAdvances(w) \/ WriterFails(w)
  <2>1. command' = command
    BY <1>7 DEF WriterAdvances, WriterRow, WriterLog, WriterCommit, WriterFails
  <2> QED BY <2>1 DEF ObjectsTyped
<1>8. CASE UNCHANGED migrationVars
  BY <1>8 DEF migrationVars, ObjectsTyped
<1> QED BY <1>2, <1>3, <1>4, <1>5, <1>6, <1>7, <1>8, MigrationSteps DEF ObjectsTyped

-------------------------------------------------------------------------------
(* The commands, as the containers see them *)

\* The shape of a command's step, for those who ask only how it ends.
LEMMA CommandSteps ==
    ASSUME MigrationInv, [Next]_vars, NEW d \in Commands
    PROVE  /\ command[d] # None => /\ command'[d] # None
                                   /\ command'[d].began = command[d].began
                                   /\ command'[d].target = command[d].target
                                   /\ command[d].state = "committed"
                                          => command'[d].state = "committed"
           /\ command[d] # None /\ command[d].state # "committed"
                  /\ command'[d].state = "committed" => CommitCommand(d)
           /\ command[d] = None /\ command'[d] # None
                  => /\ command'[d].state = "running"
                     /\ command'[d].began = schema.version /\ schema' = schema
<1>1. SchemaTyped /\ SchemaTyped'
  BY MigrationInvStep DEF MigrationInv
<1>2. ASSUME NEW c \in Commands, NEW n \in Revisions, BeginCommand(c, n)
      PROVE  /\ command[c] = None /\ command'[c] # None /\ command'[c].state = "running"
             /\ command'[c].began = schema.version
             /\ schema' = schema /\ \A e \in Commands \ {c} : command'[e] = command[e]
  <2>1. /\ command[c] = None /\ schema' = schema
        /\ \A e \in Commands \ {c} : command'[e] = command[e]
    BY <1>1, <1>2 DEF BeginCommand, SchemaTyped
  <2>2. command'[c] = [state |-> "running", began |-> schema.version, target |-> n,
                       at |-> schema.version, done |-> 0,
                       schema |-> <<>>, editors |-> <<>>, reasons |-> <<>>]
        /\ command' = [command EXCEPT ![c] = command'[c]]
    BY <1>1, <1>2, BeginTyped DEF BeginCommand, SchemaTyped
  <2>3. command'[c] \in Command
    <3>1. [state |-> "running", began |-> schema.version, target |-> n,
           at |-> schema.version, done |-> 0,
           schema |-> <<>>, editors |-> <<>>, reasons |-> <<>>] \in Command
      BY <1>1, NoPart DEF Command, SchemaTyped, Schema, StatesOf
    <3> QED BY <2>2, <3>1
  <2>4. command'[c] # None
    BY <2>3, NoValueAssumption
  <2> QED BY <2>1, <2>2, <2>4
<1>3. ASSUME NEW c \in Commands, Execute(c)
      PROVE  /\ \A e \in Commands \ {c} : command'[e] = command[e]
             /\ command[c] # None /\ command[c].state = "running"
             /\ command'[c] # None /\ command'[c].state = "running"
             /\ command'[c].began = command[c].began /\ command'[c].target = command[c].target
  <2>1. /\ command[c] # None /\ command[c].state = "running"
        /\ \A e \in Commands \ {c} : command'[e] = command[e]
        /\ command'[c].began = command[c].began /\ command'[c].target = command[c].target
    BY <1>3, ExecuteStart, ExecuteEffect DEF Running
  <2>2. command'[c].state = command[c].state /\ command'[c] \in Command
    BY <1>3, ExecuteEffect
  <2> QED BY <2>1, <2>2, NoValueAssumption
<1>4. ASSUME NEW c \in Commands, CommitCommand(c) \/ (Running(c) /\ Abandon(c))
      PROVE  /\ \A e \in Commands \ {c} : command'[e] = command[e]
             /\ command[c] # None /\ command[c].state = "running"
             /\ command'[c] # None
             /\ command'[c].began = command[c].began /\ command'[c].target = command[c].target
             /\ command'[c].state = "committed" => CommitCommand(c)
  <2>1. command[c] # None /\ command[c].state = "running" /\ command[c] \in Command
    BY <1>1, <1>4, CommandFields DEF CommitCommand, Running
  <2>2. PICK s \in {"committed", "failed"} :
            /\ command' = [command EXCEPT ![c] = [command[c] EXCEPT !.state = s]]
            /\ s = "committed" => CommitCommand(c)
    BY <1>4 DEF CommitCommand, Abandon
  <2>3. /\ [command[c] EXCEPT !.state = s] \in Command
        /\ [command[c] EXCEPT !.state = s].state = s
        /\ [command[c] EXCEPT !.state = s].began = command[c].began
        /\ [command[c] EXCEPT !.state = s].target = command[c].target
    BY <2>1 DEF Command
  <2>4. /\ command'[c] = [command[c] EXCEPT !.state = s]
        /\ \A e \in Commands \ {c} : command'[e] = command[e]
    BY <1>1, <2>2 DEF SchemaTyped
  <2> QED BY <2>1, <2>2, <2>3, <2>4, NoValueAssumption
<1>5. CASE \E w \in Writers : WriterAdvances(w) \/ WriterFails(w)
  <2>1. command' = command
    BY <1>5 DEF WriterAdvances, WriterRow, WriterLog, WriterCommit, WriterFails
  <2> QED BY <2>1
<1>6. CASE UNCHANGED migrationVars
  BY <1>6 DEF migrationVars
<1> QED BY <1>2, <1>3, <1>4, <1>5, <1>6, MigrationSteps


\* What the commit of a command that has changed the revision leaves.
CommitMoves(c) ==
    /\ command[c] # None /\ schema'.version = command[c].target
    /\ command'[c] # None /\ command'[c].state = "committed"
    /\ command'[c].target = command[c].target

LEMMA CommitVersion ==
    ASSUME MigrationInv, NEW c \in Commands, CommitCommand(c),
           schema'.version # schema.version
    PROVE  CommitMoves(c)
<1>1. /\ command[c] # None /\ command[c].at = command[c].target /\ command[c].at \in 0 .. 3
  BY CommitPosition
<1>2. command[c].at # command[c].began
  BY IdleCommitKeeps
<1>3. schema'.version = command[c].at
  <2>1. CASE command[c].at = 0
    <3>1. schema' = [SchemaAt(0) EXCEPT !.type = "present"]
      BY <1>2, <2>1, CommitSchema
    <3> QED BY <2>1, <3>1 DEF SchemaAt
  <2>2. CASE command[c].at # 0
    <3>1. schema' = SchemaAt(command[c].at)
      BY <1>2, <2>2, CommitSchema
    <3> QED BY <3>1 DEF SchemaAt
  <2> QED BY <2>1, <2>2
<1> QED BY <1>1, <1>3, CommitFields DEF CommitMoves, MigrationInv

\* The command of a container is begun by its start, for the head revision.
LEMMA StartTargets ==
    ASSUME MigrationInv, [Next]_vars, NEW i \in Instances, command[i] = None,
           command'[i] # None
    PROVE  command'[i].target = Latest
<1>1. SchemaTyped /\ i \in Commands
  BY InstancesAssumption DEF MigrationInv
<1>2. \A c \in Commands \ {i} : \A n \in Revisions :
          BeginCommand(c, n) => command'[i] = command[i]
  BY <1>1 DEF BeginCommand, SchemaTyped
<1>3. \A c \in Commands : CommandAdvances(c) \/ LoseConnection(c) \/ (Running(c) /\ Abandon(c))
          => command'[i] = command[i]
  <2> SUFFICES ASSUME NEW c \in Commands,
                      CommandAdvances(c) \/ LoseConnection(c) \/ (Running(c) /\ Abandon(c))
               PROVE  command'[i] = command[i]
    OBVIOUS
  <2>1. Execute(c) \/ CommitCommand(c) \/ (Running(c) /\ Abandon(c))
    BY DEF CommandAdvances, LoseConnection, RefuseStatement, IsRefused, Pending,
        DeadlockVictim
  <2>2. c # i
    BY <2>1 DEF Execute, CommitCommand, Pending, Running
  <2> QED BY <1>1, <2>1, <2>2 DEF Execute, CommitCommand, Abandon, SchemaTyped
<1>4. ASSUME NEW w \in Writers, WriterAdvances(w) \/ WriterFails(w)
      PROVE  command' = command
  BY <1>4 DEF WriterAdvances, WriterRow, WriterLog, WriterCommit, WriterFails
<1>5. ASSUME NEW c \in Commands, NEW n \in Revisions, BeginByHand(c, n)
      PROVE  command'[i] = command[i]
  BY <1>2, <1>5 DEF BeginByHand
<1>6. ASSUME NEW j \in Instances, Container(j)
      PROVE  \/ command'[i] = command[i]
             \/ BeginCommand(i, Latest)
  <2>1. j \in Commands /\ Latest \in Revisions
    BY InstancesAssumption DEF Latest, Revisions, Base
  <2>2. CASE \E e \in Environments : Start(j, e)
    BY <1>2, <2>1, <2>2 DEF Start, migrationVars
  <2>3. CASE StartStep(j)
    BY <2>3 DEF StartStep, Serve, StartFails, OpenDatabase, Open, CreateFails, Unwind,
        OpenRedis, migrationVars
  <2>4. CASE Stop(j) \/ CloseStep(j)
    BY <2>4 DEF Stop, CloseStep, Close, migrationVars
  <2>5. CASE Kill(j)
    BY <1>3, <2>1, <2>5 DEF Kill, migrationVars
  <2> QED BY <1>6, <2>2, <2>3, <2>4, <2>5 DEF Container
<1>7. BeginCommand(i, Latest)
  BY <1>3, <1>4, <1>5, <1>6 DEF Next, vars, migrationVars
<1>8. Latest \in Revisions
  BY DEF Latest, Revisions, Base
<1>9. command'[i] = [state |-> "running", began |-> schema.version, target |-> Latest,
                     at |-> schema.version, done |-> 0,
                     schema |-> <<>>, editors |-> <<>>, reasons |-> <<>>]
  BY <1>1, <1>7, <1>8, BeginTyped
<1> QED BY <1>9

\* Once the head revision was reached, only an operator's command leaves it.
LEMMA MovedStep ==
    ASSUME MigrationInv, \A i \in Instances : Heads(i), [Next]_vars, Moved
    PROVE  Moved'
<1>1. CASE schema'.version = schema.version
  <2>1. CASE schema.version = Latest
    BY <1>1, <2>1 DEF Moved
  <2>2. CASE Downgraded
    <3>1. PICK c \in Commands \ Instances :
              /\ command[c] # None /\ command[c].state = "committed"
              /\ command[c].target = schema.version
      BY <2>2 DEF Downgraded
    <3>2. /\ command'[c] # None /\ command'[c].state = "committed"
          /\ command'[c].target = command[c].target
      BY <3>1, CommandSteps
    <3> QED BY <1>1, <3>1, <3>2 DEF Moved, Downgraded
  <2> QED BY <2>1, <2>2 DEF Moved
<1>2. CASE schema'.version # schema.version
  <2>1. PICK c \in Commands : CommitCommand(c)
    <3>1. \A c \in Commands, n \in Revisions : BeginCommand(c, n) => schema' = schema
      BY DEF BeginCommand
    <3>2. \A c \in Commands : Execute(c) \/ Abandon(c) => schema' = schema
      BY DEF Execute, Abandon
    <3>3. \A w \in Writers : WriterAdvances(w) \/ WriterFails(w) => schema' = schema
      BY DEF WriterAdvances, WriterRow, WriterLog, WriterCommit, WriterFails
    <3> QED BY <1>2, <3>1, <3>2, <3>3, MigrationSteps DEF migrationVars
  <2>2. CommitMoves(c)
    BY <1>2, <2>1, CommitVersion
  <2>3. CASE c \in Instances
    <3>1. command[c].target = Latest
      BY <2>2, <2>3 DEF Heads, CommitMoves
    <3> QED BY <2>2, <3>1 DEF Moved, CommitMoves
  <2>4. CASE c \notin Instances
    BY <2>2, <2>4 DEF Moved, Downgraded, CommitMoves
  <2> QED BY <2>3, <2>4
<1> QED BY <1>1, <1>2

LEMMA HeadsStep ==
    ASSUME MigrationInv, \A i \in Instances : Heads(i), [Next]_vars
    PROVE  \A i \in Instances : Heads(i)'
<1> SUFFICES ASSUME NEW i \in Instances, command'[i] # None
             PROVE  /\ command'[i].target = Latest
                    /\ command'[i].state = "committed" \/ command'[i].began = Latest => Moved'
  BY DEF Heads
<1>1. i \in Commands
  BY InstancesAssumption
<1>2. CASE command[i] # None
  <2>1. /\ command'[i].began = command[i].began /\ command'[i].target = command[i].target
        /\ command[i].target = Latest
        /\ command[i].state = "committed" \/ command[i].began = Latest => Moved
    BY <1>1, <1>2, CommandSteps DEF Heads
  <2>2. CASE command[i].state = "committed" \/ command[i].began = Latest
    BY <2>1, <2>2, MovedStep
  <2>3. CASE command[i].state # "committed" /\ command[i].began # Latest
    <3>1. command'[i].state = "committed" => CommitCommand(i)
      BY <1>1, <1>2, <2>3, CommandSteps
    <3>2. CommitCommand(i) => schema'.version = Latest
      <4> SUFFICES ASSUME CommitCommand(i) PROVE schema'.version = Latest
        OBVIOUS
      <4>1. command[i].at = Latest
        BY <1>1, <2>1, CommitPosition
      <4>2. schema' = SchemaAt(Latest)
        BY <1>1, <2>3, <4>1, CommitSchema DEF Latest
      <4> QED BY <4>2 DEF SchemaAt
    <3> QED BY <2>1, <2>3, <3>1, <3>2 DEF Moved
  <2> QED BY <2>2, <2>3
<1>3. CASE command[i] = None
  <2>1. /\ command'[i].state = "running" /\ command'[i].began = schema.version
        /\ schema' = schema
    BY <1>1, <1>3, CommandSteps
  <2>2. command'[i].target = Latest
    BY <1>1, <1>3, StartTargets
  <2> QED BY <2>1, <2>2 DEF Moved
<1> QED BY <1>2, <1>3


-------------------------------------------------------------------------------
(* The containers *)

\* A step that moves one container, to what is right for its new phase.
LEMMA OneContainer ==
    ASSUME ContainersTyped, NEW i \in Instances,
           NEW p \in Phases, NEW e \in Environments \union {None},
           NEW o \in {<<>>, <<"database">>, <<"database", "redis_client">>},
           NEW k \in SUBSET Resources,
           phase' = [phase EXCEPT ![i] = p], env' = [env EXCEPT ![i] = e],
           open' = [open EXCEPT ![i] = o], called' = [called EXCEPT ![i] = k],
           \A j \in Instances : Shape(j), Shape(i)'
    PROVE  ContainersTyped' /\ \A j \in Instances : Shape(j)'
<1>1. ContainersTyped'
  BY DEF ContainersTyped
<1>2. ASSUME NEW j \in Instances, j # i PROVE Shape(j)'
  BY <1>2 DEF Shape, Opened, ContainersTyped
<1> QED BY <1>1, <1>2

\* How each step of a container leaves its phase, resources and environment.
ContainerMoves(i) ==
    \E p \in Phases, e \in Environments \union {None},
       o \in {<<>>, <<"database">>, <<"database", "redis_client">>}, k \in SUBSET Resources :
        /\ phase' = [phase EXCEPT ![i] = p] /\ env' = [env EXCEPT ![i] = e]
        /\ open' = [open EXCEPT ![i] = o] /\ called' = [called EXCEPT ![i] = k]
        /\ Shape(i)'

LEMMA StartMoves ==
    ASSUME ContainersTyped, NEW i \in Instances, Shape(i), NEW e \in Environments, Start(i, e)
    PROVE  ContainerMoves(i)
<1>1. /\ phase' = [phase EXCEPT ![i] = "migrating"] /\ env' = [env EXCEPT ![i] = e]
      /\ open' = [open EXCEPT ![i] = open[i]] /\ called' = [called EXCEPT ![i] = called[i]]
      /\ phase[i] = "off"
  BY DEF Start, Enter, ContainersTyped
<1>2. Shape(i)'
  BY <1>1 DEF Shape, Opened, ContainersTyped
<1> QED BY <1>1, <1>2 DEF ContainerMoves, ContainersTyped, Phases

LEMMA AppendedPair == ASSUME NEW a, NEW b PROVE Append(<<a>>, b) = <<a, b>>
<1>1. <<a>> \in Seq({a, b}) /\ <<a, b>> \in Seq({a, b}) /\ Append(<<a>>, b) \in Seq({a, b})
  OBVIOUS
<1>2. /\ Len(Append(<<a>>, b)) = 2
      /\ Append(<<a>>, b)[1] = a /\ Append(<<a>>, b)[2] = b
  BY <1>1
<1>3. Len(<<a, b>>) = 2 /\ \A n \in 1 .. 2 : Append(<<a>>, b)[n] = <<a, b>>[n]
  BY <1>2
<1> QED BY <1>1, <1>2, <1>3, SeqEqual

LEMMA StartStepMoves ==
    ASSUME ContainersTyped, NEW i \in Instances, Shape(i), StartStep(i)
    PROVE  ContainerMoves(i)
<1>1. phase[i] \in Phases /\ env[i] \in Environments \union {None}
      /\ open[i] \in {<<>>, <<"database">>, <<"database", "redis_client">>}
      /\ called[i] \in SUBSET Resources
  BY DEF ContainersTyped
<1>2. CASE Serve(i) \/ StartFails(i)
  <2>1. PICK p \in {"starting", "failed"} :
            /\ phase' = [phase EXCEPT ![i] = p] /\ env' = [env EXCEPT ![i] = env[i]]
            /\ open' = [open EXCEPT ![i] = open[i]] /\ called' = [called EXCEPT ![i] = called[i]]
            /\ phase[i] = "migrating"
    BY <1>2 DEF Serve, StartFails, Enter, ContainersTyped
  <2>2. /\ phase'[i] = p /\ open'[i] = <<>> /\ called'[i] = {}
    BY <2>1 DEF Shape, ContainersTyped
  <2>3. Opened(i)' = {}
    BY <2>2 DEF Opened
  <2>4. Shape(i)'
    BY <2>2, <2>3 DEF Shape
  <2> QED BY <1>1, <2>1, <2>4 DEF ContainerMoves, Phases
<1>3. CASE OpenDatabase(i)
  <2>1. /\ open' = [open EXCEPT ![i] = <<"database">>]
        /\ phase' = [phase EXCEPT ![i] = phase[i]] /\ env' = [env EXCEPT ![i] = env[i]]
        /\ called' = [called EXCEPT ![i] = called[i]] /\ phase[i] = "starting"
    <3>1. Append(<<>>, "database") = <<"database">>
      OBVIOUS
    <3> QED BY <1>3, <3>1 DEF OpenDatabase, Open, ContainersTyped
  <2>2. /\ phase'[i] = "starting" /\ open'[i] = <<"database">> /\ called'[i] = {}
    BY <2>1 DEF Shape, ContainersTyped
  <2>3. Shape(i)'
    BY <2>2 DEF Shape
  <2> QED BY <1>1, <2>1, <2>3 DEF ContainerMoves
<1>4. CASE CreateFails(i)
  <2>1. /\ phase' = [phase EXCEPT ![i] = "failed"] /\ called' = [called EXCEPT ![i] = Opened(i)]
        /\ open' = [open EXCEPT ![i] = open[i]] /\ env' = [env EXCEPT ![i] = env[i]]
        /\ open[i] = <<"database">>
    BY <1>4 DEF CreateFails, Unwind, Enter, ContainersTyped
  <2>2. Opened(i) = {"database"}
    BY <2>1 DEF Opened
  <2>3. /\ phase'[i] = "failed" /\ open'[i] = <<"database">> /\ called'[i] = {"database"}
        /\ Opened(i)' = {"database"}
    BY <2>1, <2>2 DEF Opened, ContainersTyped
  <2>4. Shape(i)'
    BY <2>3 DEF Shape
  <2> QED BY <1>1, <2>1, <2>2, <2>4 DEF ContainerMoves, Phases, Resources
<1>5. CASE OpenRedis(i)
  <2>1. /\ open' = [open EXCEPT ![i] = <<"database", "redis_client">>]
        /\ phase' = [phase EXCEPT ![i] = "serving"] /\ env' = [env EXCEPT ![i] = env[i]]
        /\ called' = [called EXCEPT ![i] = called[i]] /\ phase[i] = "starting"
    <3>1. Append(<<"database">>, "redis_client") = <<"database", "redis_client">>
      BY AppendedPair
    <3>2. open[i] = <<"database">>
      BY <1>5 DEF OpenRedis
    <3> QED BY <1>5, <3>1, <3>2 DEF OpenRedis, Open, Enter, ContainersTyped
  <2>2. /\ phase'[i] = "serving" /\ open'[i] = <<"database", "redis_client">>
        /\ called'[i] = {}
    BY <2>1 DEF Shape, ContainersTyped
  <2>3. Shape(i)'
    BY <2>2 DEF Shape
  <2> QED BY <1>1, <2>1, <2>3 DEF ContainerMoves, Phases
<1> QED BY <1>2, <1>3, <1>4, <1>5 DEF StartStep

\* The closers are called in turn, and the last call ends the process.
LEMMA CloseMoves ==
    ASSUME ContainersTyped, NEW i \in Instances, Shape(i), NEW raises, Close(i, raises)
    PROVE  ContainerMoves(i)
<1>1. /\ phase[i] = "closing" /\ open[i] = <<"database", "redis_client">>
      /\ called[i] \in {{}, {"database"}}
      /\ UNCHANGED <<env, open>>
  BY DEF Close, Shape
<1>2. DOMAIN open[i] = {1, 2} /\ Len(open[i]) = 2
      /\ open[i][1] = "database" /\ open[i][2] = "redis_client"
  BY <1>1
<1>3. PICK n \in {1, 2} :
          /\ IsNextToClose(i, n)
          /\ called' = [called EXCEPT ![i] = called[i] \union {open[i][n]}]
          /\ IF n = 2 THEN phase' = [phase EXCEPT ![i] = "stopped"] ELSE UNCHANGED phase
  BY <1>2 DEF Close, Enter
<1>4. CASE n = 1
  <2>1. called[i] = {}
    BY <1>1, <1>2, <1>3, <1>4 DEF IsNextToClose
  <2>2. /\ phase' = [phase EXCEPT ![i] = "closing"] /\ called' = [called EXCEPT ![i] = {"database"}]
        /\ open' = [open EXCEPT ![i] = <<"database", "redis_client">>]
        /\ env' = [env EXCEPT ![i] = env[i]]
    BY <1>1, <1>2, <1>3, <1>4, <2>1 DEF ContainersTyped
  <2>3. /\ phase'[i] = "closing" /\ called'[i] = {"database"}
        /\ open'[i] = <<"database", "redis_client">>
    BY <2>2 DEF ContainersTyped
  <2>4. Opened(i)' = {"database", "redis_client"}
    BY <2>3 DEF Opened
  <2>5. Shape(i)'
    BY <2>3, <2>4 DEF Shape
  <2> QED BY <2>2, <2>5 DEF ContainerMoves, ContainersTyped, Phases, Resources
<1>5. CASE n = 2
  <2>1. called[i] = {"database"}
    <3>1. 1 \in 1 .. n - 1
      BY <1>5
    <3> QED BY <1>1, <1>2, <1>3, <3>1 DEF IsNextToClose
  <2>2. /\ phase' = [phase EXCEPT ![i] = "stopped"]
        /\ called' = [called EXCEPT ![i] = {"database", "redis_client"}]
        /\ open' = [open EXCEPT ![i] = <<"database", "redis_client">>]
        /\ env' = [env EXCEPT ![i] = env[i]]
    BY <1>1, <1>2, <1>3, <1>5, <2>1 DEF ContainersTyped
  <2>3. /\ phase'[i] = "stopped" /\ called'[i] = {"database", "redis_client"}
        /\ open'[i] = <<"database", "redis_client">>
    BY <2>2 DEF ContainersTyped
  <2>4. Opened(i)' = {"database", "redis_client"}
    BY <2>3 DEF Opened
  <2>5. Shape(i)'
    BY <2>3, <2>4 DEF Shape
  <2> QED BY <2>2, <2>5 DEF ContainerMoves, ContainersTyped, Phases, Resources
<1> QED BY <1>3, <1>4, <1>5

LEMMA StopMoves ==
    ASSUME ContainersTyped, NEW i \in Instances, Shape(i), Stop(i) \/ Kill(i)
    PROVE  ContainerMoves(i)
<1>1. PICK p \in {"closing", "killed"} :
          /\ phase' = [phase EXCEPT ![i] = p] /\ env' = [env EXCEPT ![i] = env[i]]
          /\ open' = [open EXCEPT ![i] = open[i]] /\ called' = [called EXCEPT ![i] = called[i]]
          /\ p = "closing" => phase[i] = "serving"
  BY DEF Stop, Kill, Enter, ContainersTyped
<1>0. /\ env[i] \in Environments \union {None} /\ called[i] \in SUBSET Resources
      /\ open[i] \in {<<>>, <<"database">>, <<"database", "redis_client">>}
  BY DEF ContainersTyped
<1>2. /\ phase'[i] = p /\ open'[i] = open[i] /\ called'[i] = called[i]
  BY <1>1 DEF ContainersTyped
<1>3. Opened(i)' = Opened(i)
  BY <1>2 DEF Opened
<1>4. CASE p = "closing"
  <2>1. phase'[i] = "closing" /\ open'[i] = <<"database", "redis_client">> /\ called'[i] = {}
    BY <1>1, <1>2, <1>4 DEF Shape
  <2>2. Shape(i)'
    BY <2>1 DEF Shape
  <2> QED BY <1>0, <1>1, <2>2 DEF ContainerMoves, Phases
<1>5. CASE p = "killed"
  <2>1. phase'[i] = "killed" /\ called'[i] \subseteq Opened(i)'
    BY <1>2, <1>3, <1>5 DEF Shape
  <2>2. Shape(i)'
    BY <2>1 DEF Shape
  <2> QED BY <1>0, <1>1, <2>2 DEF ContainerMoves, Phases
<1> QED BY <1>1, <1>4, <1>5

LEMMA ContainersStep ==
    ASSUME ContainersTyped, \A i \in Instances : Shape(i), [Next]_vars
    PROVE  ContainersTyped' /\ \A i \in Instances : Shape(i)'
<1>1. ASSUME NEW i \in Instances, Container(i)
      PROVE  ContainersTyped' /\ \A j \in Instances : Shape(j)'
  <2>1. ContainerMoves(i)
    BY <1>1, StartMoves, StartStepMoves, StopMoves, CloseMoves DEF Container, CloseStep
  <2> QED BY <2>1, OneContainer DEF ContainerMoves
<1>2. CASE UNCHANGED containerVars
  BY <1>2 DEF containerVars, ContainersTyped, Shape, Opened
<1> QED BY <1>1, <1>2 DEF Next, vars

\* A container keeps the environment it was started with, and its migrations.
LEMMA ReadyStep ==
    ASSUME MigrationInv, ContainersTyped, \A i \in Instances : Ready(i), [Next]_vars
    PROVE  \A i \in Instances : Ready(i)'
<1> SUFFICES ASSUME NEW i \in Instances PROVE Ready(i)'
  OBVIOUS
<1>0. i \in Commands
  BY InstancesAssumption
<1>1. Migrated(i) => Migrated(i)'
  BY <1>0, CommandSteps DEF Migrated
<1>2. phase'[i] \in {"starting", "serving"} => Migrated(i) /\ Loads(env'[i])
  <2>1. CASE UNCHANGED containerVars
    BY <2>1 DEF containerVars, Ready
  <2>2. ASSUME NEW j \in Instances, Container(j), j # i
        PROVE  phase'[i] = phase[i] /\ env'[i] = env[i]
    BY <2>2 DEF Container, Start, StartStep, Serve, StartFails, OpenDatabase, Open, CreateFails,
        Unwind, OpenRedis, Stop, CloseStep, Close, Kill, Enter, ContainersTyped
  <2>3. ASSUME NEW e \in Environments, Start(i, e)
        PROVE  phase'[i] = "migrating" /\ env'[i] = e
    BY <2>3 DEF Start, Enter, ContainersTyped
  <2>4. CASE Serve(i)
    <3>1. /\ phase'[i] = "starting" /\ env'[i] = env[i] /\ Migrated(i) /\ Loads(env[i])
      BY <2>4 DEF Serve, Enter, ContainersTyped
    <3> QED BY <3>1
  <2>5. CASE StartFails(i) \/ CreateFails(i) \/ Stop(i) \/ Kill(i)
    BY <2>5 DEF StartFails, CreateFails, Unwind, Stop, Kill, Enter, ContainersTyped
  <2>6. CASE OpenDatabase(i) \/ OpenRedis(i)
    <3>1. /\ phase[i] = "starting" /\ phase'[i] \in {"starting", "serving"} /\ env'[i] = env[i]
      BY <2>6 DEF OpenDatabase, OpenRedis, Open, Enter, ContainersTyped
    <3> QED BY <3>1 DEF Ready
  <2>7. CASE CloseStep(i)
    <3>1. phase'[i] \in {"closing", "stopped"}
      BY <2>7 DEF CloseStep, Close, Enter, ContainersTyped
    <3> QED BY <3>1
  <2>8. CASE \E j \in Instances : Container(j)
    BY <2>2, <2>3, <2>4, <2>5, <2>6, <2>7, <2>8 DEF Container, StartStep, Ready
  <2> QED BY <2>1, <2>8 DEF Next, vars
<1> QED BY <1>1, <1>2 DEF Ready


-------------------------------------------------------------------------------
(* The theorems about the containers *)

LEMMA DeploymentInvStep == MigrationInv /\ DeploymentInv /\ [Next]_vars => DeploymentInv'
BY ObjectsStep, ContainersStep, HeadsStep, ReadyStep DEF DeploymentInv

\* The invariant of the containers holds beside that of the migrations.
THEOREM DeploymentInvariant == Spec => [](MigrationInv /\ DeploymentInv)
<1>1. DeploymentInit => DeploymentInv
  BY InitDeploymentInv
<1> QED BY <1>1, DeploymentInvStep, MigrationInvariant, PTL DEF Spec

LEMMA OpenedBy ==
    ASSUME ContainersTyped, NEW i \in Instances
    PROVE  /\ open[i] \in Seq(Resources)
           /\ open[i] = <<"database", "redis_client">> => Opened(i) = Resources
<1>1. open[i] \in {<<>>, <<"database">>, <<"database", "redis_client">>}
  BY DEF ContainersTyped
<1>2. /\ <<>> \in Seq({"database", "redis_client"})
      /\ <<"database">> \in Seq({"database", "redis_client"})
      /\ <<"database", "redis_client">> \in Seq({"database", "redis_client"})
  OBVIOUS
<1>3. ASSUME open[i] = <<"database", "redis_client">> PROVE Opened(i) = Resources
  BY <1>3 DEF Opened, Resources
<1> QED BY <1>1, <1>2, <1>3 DEF Resources

\* Every variable of the migrations and of the containers keeps its type.
THEOREM DeploymentTypeCorrect == Spec => []DeploymentTypeOK
<1>1. ASSUME MigrationInv, DeploymentInv PROVE DeploymentTypeOK
  <2>1. SchemaTyped /\ ObjectsTyped /\ ContainersTyped
    BY <1>1 DEF MigrationInv, DeploymentInv
  <2>2. ASSUME NEW c \in Commands, command[c] # None
        PROVE  /\ command[c].state \in {"running", "committed", "failed"}
               /\ {command[c].began, command[c].target, command[c].at} \subseteq Revisions
               /\ command[c].done \in 0 .. 3
               /\ \A o \in DOMAIN command[c].schema : command[c].schema[o] \in StatesOf[o]
               /\ command[c].editors \in Part(Tenders, Editors \union {None})
               /\ command[c].reasons \in Part(Tenders, Reasons \union {None})
    <3>1. command[c] \in Command
      BY <2>1, <2>2, CommandFields
    <3>2. \A o \in DOMAIN command[c].schema : command[c].schema[o] \in StatesOf[o]
      BY <2>1, <2>2 DEF ObjectsTyped
    <3> QED BY <3>1, <3>2 DEF Command
  <2>3. MigrationTypeOK
    BY <2>1, <2>2 DEF SchemaTyped, MigrationTypeOK
  <2>4. \A i \in Instances : open[i] \in Seq(Resources) /\ called[i] \subseteq Opened(i)
    BY <1>1, <2>1, OpenedBy DEF DeploymentInv, Shape
  <2> QED BY <2>1, <2>3, <2>4 DEF DeploymentTypeOK, ContainersTyped
<1> QED BY <1>1, DeploymentInvariant, PTL

\* A container that serves has the head revision under it, unless an operator took
\* it back to where it is, and all its resources are open (docker-entrypoint.sh,
\* AppResources.create).
THEOREM ServingContainersAreReady == Spec => []ServesOnlyWhenReady
<1>1. ASSUME MigrationInv, DeploymentInv PROVE ServesOnlyWhenReady
  <2> SUFFICES ASSUME NEW i \in Instances, phase[i] = "serving"
               PROVE  /\ schema.version = Latest \/ Downgraded
                      /\ Opened(i) = Resources /\ called[i] = {}
                      /\ env[i].secret = "set" /\ env[i].connection = "set"
    BY DEF ServesOnlyWhenReady
  <2>1. Shape(i) /\ Ready(i) /\ Heads(i) /\ ContainersTyped
    BY <1>1 DEF DeploymentInv
  <2>2. Migrated(i) /\ Loads(env[i])
    BY <2>1 DEF Ready
  <2>3. schema.version = Latest \/ Downgraded
    BY <2>1, <2>2 DEF Heads, Migrated, Moved
  <2>4. Opened(i) = Resources /\ called[i] = {}
    BY <2>1, OpenedBy DEF Shape
  <2> QED BY <2>2, <2>3, <2>4 DEF Loads
<1> QED BY <1>1, DeploymentInvariant, PTL

\* A process that ends by itself has called the closer of all that it opened
\* (AppResources.close and the exit stack of AppResources.create).
THEOREM EverythingIsClosed == Spec => []NothingLeftOpen
<1>1. DeploymentInv => NothingLeftOpen
  BY DEF DeploymentInv, Shape, NothingLeftOpen
<1> QED BY <1>1, DeploymentInvariant, PTL
===============================================================================
