------------------------------- MODULE Deployment -------------------------------
(***************************************************************************)
(* Containers of the service, each from docker-entrypoint.sh to its end:   *)
(* the migrations, the configuration, the resources of AppResources, the   *)
(* lifespan around the serving, and the shutdown.  A container is started  *)
(* once; several may be started at a time, beside the release before and   *)
(* an operator who runs alembic by hand.                                   *)
(*                                                                         *)
(*   off -> migrating -> starting -> serving -> closing -> stopped         *)
(*              |            |                                             *)
(*              +------------+--> failed                    any -> killed  *)
(***************************************************************************)
EXTENDS Migrations

CONSTANTS
    Instances,     \* the commands that an entrypoint runs; the rest are an operator's
    Environments   \* the environments that containers are started with

\* What Configuration finds of DB_CONNECTION_STRING, JWT_SECRET, REDIS_URL and
\* REQUEST_BODY_MAX_SIZE; `sizes' are the other numbers.
Environment ==
    [connection : {"set", "missing"}, secret : {"set", "missing"},
     redis : {"valid", "invalid"}, limit : {"positive", "zero", "negative", "malformed"},
     sizes : {"numbers", "malformed"}]

ASSUME InstancesAssumption == Instances \subseteq Commands
ASSUME EnvironmentsAssumption == Environments \subseteq Environment

VARIABLES
    phase,   \* of each container
    env,     \* its environment, None before it is started
    open,    \* the resources it holds, in the order they were opened
    called   \* the resources whose closer has been called

containerVars == <<phase, env, open, called>>
vars == <<migrationVars, containerVars>>

Phases == {"off", "migrating", "starting", "serving", "closing", "stopped", "failed", "killed"}
Resources == {"database", "redis_client"}

DeploymentInit ==
    /\ MigrationInit
    /\ phase = [i \in Instances |-> "off"]
    /\ env = [i \in Instances |-> None]
    /\ open = [i \in Instances |-> <<>>]
    /\ called = [i \in Instances |-> {}]

Enter(i, p) == phase' = [phase EXCEPT ![i] = p]

-------------------------------------------------------------------------------
(* docker-entrypoint.sh *)

\* Fault for mutation: the numbers are checked, what is missing is not.
NumbersOnly(e) == e.limit \notin {"zero", "malformed"} /\ e.sizes = "numbers"

\* Configuration() returns; a negative limit passes for a value that is set.
Loads(e) ==
    /\ e.connection = "set" /\ e.secret = "set"
    /\ e.limit \notin {"zero", "malformed"} /\ e.sizes = "numbers"

\* `alembic upgrade head': env.py builds the Configuration first.
Start(i, e) ==
    /\ phase[i] = "off"
    /\ Enter(i, "migrating")
    /\ env' = [env EXCEPT ![i] = e]
    /\ IF Loads(e) THEN BeginCommand(i, Latest) ELSE UNCHANGED migrationVars
    /\ UNCHANGED <<open, called>>

\* Fault for mutation: the script has no `set -e'.
MigratedOrNot(i) == command[i] # None /\ command[i].state # "running"

Migrated(i) == command[i] # None /\ command[i].state = "committed"

\* exec uvicorn: create_app builds the Configuration again, from the same environment.
Serve(i) ==
    /\ phase[i] = "migrating"
    /\ Migrated(i)
    /\ Loads(env[i])
    /\ Enter(i, "starting")
    /\ UNCHANGED <<env, open, called, migrationVars>>

StartFails(i) ==
    /\ phase[i] = "migrating"
    /\ command[i] # None => command[i].state = "failed"
    /\ Enter(i, "failed")
    /\ UNCHANGED <<env, open, called, migrationVars>>

-------------------------------------------------------------------------------
(* AppResources *)

Opened(i) == {open[i][n] : n \in DOMAIN open[i]}

Open(i, resource) ==
    /\ open' = [open EXCEPT ![i] = Append(@, resource)]
    /\ UNCHANGED <<env, called, migrationVars>>

OpenDatabase(i) ==
    /\ phase[i] = "starting" /\ open[i] = <<>>
    /\ Open(i, "database")
    /\ UNCHANGED phase

\* Fault for mutation: close() of AppResources is called before there is a client.
UnwindAll(i) ==
    /\ Enter(i, "failed")
    /\ called' = [called EXCEPT ![i] = Resources]
    /\ UNCHANGED <<env, open, migrationVars>>

\* The exit stack calls every closer, also when one of them raises.
Unwind(i) ==
    /\ Enter(i, "failed")
    /\ called' = [called EXCEPT ![i] = Opened(i)]
    /\ UNCHANGED <<env, open, migrationVars>>

\* check_db_connection, or else Redis.from_url, raises.
CreateFails(i) ==
    /\ phase[i] = "starting" /\ open[i] = <<"database">>
    /\ DbMayFail \/ env[i].redis = "invalid"
    /\ Unwind(i)

\* The check succeeds, nothing raises any more, and the stack is emptied.
OpenRedis(i) ==
    /\ phase[i] = "starting" /\ open[i] = <<"database">>
    /\ env[i].redis = "valid"
    /\ Open(i, "redis_client")
    /\ Enter(i, "serving")

\* SIGTERM, when the requests that were served have ended.
Stop(i) ==
    /\ phase[i] = "serving"
    /\ Enter(i, "closing")
    /\ UNCHANGED <<env, open, called, migrationVars>>

IsNextToClose(i, n) ==
    open[i][n] \notin called[i] /\ \A m \in 1 .. n - 1 : open[i][m] \in called[i]

\* Fault for mutation: close does not catch what a closer raises.
CloseUntilError(i, raises) ==
    /\ phase[i] = "closing"
    /\ \E n \in DOMAIN open[i] :
           /\ IsNextToClose(i, n)
           /\ called' = [called EXCEPT ![i] = @ \union {open[i][n]}]
           /\ IF raises \/ n = Len(open[i]) THEN Enter(i, "stopped") ELSE UNCHANGED phase
    /\ UNCHANGED <<env, open, migrationVars>>

\* The closers are called in the order of opening; what one raises is only logged.
Close(i, raises) ==
    /\ phase[i] = "closing"
    /\ \E n \in DOMAIN open[i] :
           /\ IsNextToClose(i, n)
           /\ called' = [called EXCEPT ![i] = @ \union {open[i][n]}]
           /\ IF n = Len(open[i]) THEN Enter(i, "stopped") ELSE UNCHANGED phase
    /\ UNCHANGED <<env, open, migrationVars>>

\* A second signal, or the end of the process: nothing is closed.  The server
\* ends the session of a command that was running.
Kill(i) ==
    /\ phase[i] \in {"migrating", "starting", "serving", "closing"}
    /\ Enter(i, "killed")
    /\ IF Running(i) THEN Abandon(i) ELSE UNCHANGED migrationVars
    /\ UNCHANGED <<env, open, called>>

-------------------------------------------------------------------------------

\* An operator's `alembic upgrade' or `alembic downgrade', to any other revision.
BeginByHand(c, target) ==
    /\ c \notin Instances
    /\ target # schema.version
    /\ BeginCommand(c, target)

StartStep(i) ==
    Serve(i) \/ StartFails(i) \/ OpenDatabase(i) \/ CreateFails(i) \/ OpenRedis(i)

CloseStep(i) == \E raises \in BOOLEAN : Close(i, raises)

Container(i) ==
    \/ \E e \in Environments : Start(i, e)
    \/ StartStep(i) \/ Stop(i) \/ CloseStep(i) \/ Kill(i)

Next ==
    \/ \E i \in Instances : Container(i)
    \/ /\ \/ \E c \in Commands : \/ CommandAdvances(c) \/ LoseConnection(c)
                                 \/ \E n \in Revisions : BeginByHand(c, n)
          \/ \E w \in Writers : WriterAdvances(w) \/ WriterFails(w)
       /\ UNCHANGED containerVars

Spec == DeploymentInit /\ [][Next]_vars

\* Statements that wait for no lock are executed, PostgreSQL finds deadlocks, and
\* a writer goes on to its commit.  No command, start or stop is due to begin, and
\* nothing counts on a failure.
Fairness ==
    /\ \A c \in Commands : WF_vars(CommandAdvances(c) /\ UNCHANGED containerVars)
    /\ \A w \in Writers :
           WF_vars(writer[w] # None /\ WriterAdvances(w) /\ UNCHANGED containerVars)
    /\ \A i \in Instances : WF_vars(StartStep(i)) /\ WF_vars(CloseStep(i))

FairSpec == Spec /\ Fairness

-------------------------------------------------------------------------------
(* Requirements *)

\* Every variable keeps its type.
DeploymentTypeOK ==
    /\ MigrationTypeOK
    /\ phase \in [Instances -> Phases]
    /\ env \in [Instances -> Environments \union {None}]
    /\ \A i \in Instances : open[i] \in Seq(Resources) /\ called[i] \subseteq Opened(i)

Downgraded ==
    \E c \in Commands \ Instances :
        command[c] # None /\ command[c].state = "committed" /\ command[c].target = schema.version

\* A container that serves has a schema of the head revision under it, unless an
\* operator took it back to where it is: no failure of the migrations is passed over
\* (docker-entrypoint.sh), and requests have the database, the cache and a
\* secret to check tokens with (AppResources.create, Configuration).
ServesOnlyWhenReady ==
    \A i \in Instances : phase[i] = "serving" =>
        /\ schema.version = Latest \/ Downgraded
        /\ Opened(i) = Resources /\ called[i] = {}
        /\ env[i].secret = "set" /\ env[i].connection = "set"

\* A process that ends by itself has called the closer of all it opened, however
\* far the start came and whatever the closers raise (AppResources).
NothingLeftOpen ==
    \A i \in Instances : phase[i] \in {"stopped", "failed"} => called[i] = Opened(i)

\* A command comes to its end, whoever it shares the tables with.
CommandsEnd == \A c \in Commands : Running(c) ~> ~Running(c)

\* A start ends in serving or in failure, and a stop ends.
StartsAndStopsEnd ==
    \A i \in Instances :
        /\ phase[i] \in {"migrating", "starting"} ~>
               phase[i] \in {"serving", "closing", "stopped", "failed", "killed"}
        /\ phase[i] = "closing" ~> phase[i] \in {"stopped", "killed"}
===============================================================================
