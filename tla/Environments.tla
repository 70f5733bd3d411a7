----------------------------- MODULE Environments -----------------------------
(***************************************************************************)
(* The life of one static environment: a row of the table environments, a  *)
(* container and a volume of Docker.                                       *)
(*                                                                         *)
(* services/api writes a transitional status into the row and appends a    *)
(* command to a stream; a replica of EnvironmentCommandConsumer executes   *)
(* it, asking agent-runner to create, start or recreate the container over *)
(* another stream and waiting for the reply, and writes how it went.       *)
(* agent-runner works on the same row and container on its own account: a  *)
(* conversation attaches to the environment (and starts or heals it), the  *)
(* idle reaper stops it, and a booting runner reconciles it.  A Postgres   *)
(* advisory lock orders attaches, starts and reconciliations among         *)
(* themselves; nothing orders them with the rest.                          *)
(*                                                                         *)
(* An actor is a goroutine in a process of its own; a process that dies    *)
(* with several is several of them that die.  Of the container the model   *)
(* keeps its ID (backend_ref), whether it runs and the variables it was    *)
(* created with (prof).                                                    *)
(***************************************************************************)
EXTENDS Naturals, FiniteSets

CONSTANTS
  Calls,         \* requests to services/api
  Replicas,      \* instances of EnvironmentCommandConsumer
  Jobs,          \* slots of the runner's EnvironmentCommandConsumer
  Turns,         \* conversations that attach to the environment
  Profiles,      \* variables an attach wants the container to have been created with
  Profile,       \* [Turns -> Profiles]
  Reapers,       \* idle reapers, one to a runner
  Reconcilers,   \* runner boots
  Settings,      \* who comes along, what may be asked for and what may go wrong
  Lifespan,      \* bound: how many containers are created
  Bare,          \* the variables of a container no attach has created
  None

Workers == Jobs \cup Turns \cup Reconcilers
Threads == Calls \cup Replicas \cup Reapers \cup Workers

ASSUME SettingsAssumption ==
  \A s \in Settings :
    /\ s.kinds \subseteq {"create", "start", "stop", "restart", "delete", "ports"}
    /\ {s.crashes, s.errors, s.vanishes} \subseteq Nat
ASSUME ProfileAssumption == Profile \in [Turns -> Profiles] /\ Bare \notin Profiles
ASSUME BoundsAssumption == Lifespan \in Nat
\* An actor has one role.
ASSUME RolesAssumption ==
  /\ Calls \cap (Replicas \cup Workers \cup Reapers) = {}
  /\ Replicas \cap (Workers \cup Reapers) = {} /\ Workers \cap Reapers = {}
  /\ Jobs \cap (Turns \cup Reconcilers) = {} /\ Turns \cap Reconcilers = {}
ASSUME DistinctAssumption == None \notin Threads

VARIABLES
  setting,    \* chosen at the start
  \* the row
  status,     \* "stopped" stands for "suspended" too; "none" before there is a row
  ref,        \* backend_ref, 0 when NULL
  deleted,
  pending,    \* ports_pending_restart
  active,     \* last_active_at is younger than the idle timeout
  \* Docker
  box,        \* the container with the environment's name, if there is one
  volume,
  refs,       \* the ID last given to a container
  \* Valkey and the advisory lock
  commands,   \* how many commands of each kind no replica has read
  lock,
  \* each actor
  pc,
  cmd,        \* the command in its hands
  arg,        \* the backend_ref in its hands: as read, then as the runner replied
  for,        \* the caller a job replies to
  uses,       \* the container a turn works in
  errors, crashes, vanishes,
  unheeded    \* history: somebody who had to write how a command ended did not

rowVars    == <<status, ref, deleted, pending, active>>
dockerVars == <<box, volume, refs>>
localVars  == <<cmd, arg, for, uses>>
faultVars  == <<setting, errors, crashes, vanishes, unheeded>>
vars == <<rowVars, dockerVars, commands, lock, pc, localVars, faultVars>>

NoBox == [ref |-> 0, up |-> FALSE, prof |-> None]
Transitional == {"creating", "starting", "stopping"}
Expected == [create |-> "creating", start |-> "starting", stop |-> "stopping"]

Init ==
  /\ setting \in Settings
  /\ status = "none" /\ ref = 0 /\ deleted = FALSE /\ pending = FALSE /\ active = TRUE
  /\ box = NoBox /\ volume = FALSE /\ refs = 0
  /\ commands = [k \in DOMAIN Expected |-> 0] /\ lock = None
  /\ pc = [t \in Threads |-> "idle"]
  /\ cmd = [t \in Threads |-> "none"]
  /\ arg = [t \in Threads |-> 0]
  /\ for = [j \in Jobs |-> None]
  /\ uses = [t \in Turns |-> 0]
  /\ errors = 0 /\ crashes = 0 /\ vanishes = 0 /\ unheeded = FALSE

Goto(t, from, to) == pc[t] = from /\ pc' = [pc EXCEPT ![t] = to]
Hold(t, r) == arg' = [arg EXCEPT ![t] = r]

\* Where an actor goes when its work is over: a consumer or a reaper starts anew.
Over(t) == IF t \in Replicas \cup Reapers \cup Jobs THEN "idle" ELSE "done"

Err(step) ==
  /\ step \in setting.failing /\ errors < setting.errors
  /\ errors' = errors + 1
  /\ UNCHANGED <<setting, crashes, vanishes>>

Erring(step) == Err(step) /\ UNCHANGED unheeded

\* The call at a step fails, its error is returned or logged, and nobody writes down
\* what the step was for.
Unwritten(t, from, to) ==
  /\ Err(from) /\ Goto(t, from, to)
  /\ unheeded' = (unheeded \/ (t \notin Workers /\ to # "failing"
                              /\ from \in {"checking", "failing", "stopped", "sparing"}))
  /\ lock' = IF lock = t /\ to \notin {"starting", "touching"} THEN None ELSE lock
  /\ arg' = IF to = "failing" THEN [arg EXCEPT ![t] = 0] ELSE arg
  /\ UNCHANGED <<rowVars, dockerVars, commands, cmd, for, uses>>

-----------------------------------------------------------------------------
(* Requests.                                                               *)

\* CreateEnvironment: the row, then the command.
Create(t) ==
  /\ "create" \in setting.kinds
  /\ t \in Calls \cap setting.up /\ Goto(t, "idle", "appending")
  /\ status = "none"
  /\ status' = "creating"
  /\ cmd' = [cmd EXCEPT ![t] = "create"]
  /\ UNCHANGED <<ref, deleted, pending, active, dockerVars, commands, lock, arg, for, uses,
                 faultVars>>

\* StartEnvironment and StopEnvironment read the row: any other status is busy,
\* or there is nothing to do.
Ask(t, k) ==
  /\ k \in setting.kinds \cap {"start", "stop"}
  /\ t \in Calls \cap setting.up /\ Goto(t, "idle", "marking")
  /\ ~deleted /\ ref # 0
  /\ status \in IF k = "start" THEN {"stopped", "error"} ELSE {"running"}
  /\ cmd' = [cmd EXCEPT ![t] = k]
  /\ UNCHANGED <<rowVars, dockerVars, commands, lock, arg, for, uses, faultVars>>

\* MUTANT of Mark: the status written is the name of the command.
MarkMisnamed(t) ==
  /\ Goto(t, "marking", "appending")
  /\ status' = cmd[t]
  /\ UNCHANGED <<ref, deleted, pending, active, dockerVars, commands, lock, localVars, faultVars>>

\* MUTANT of Mark: the command is queued before the status is written.
MarkAfterAppend(t) ==
  \/ /\ Goto(t, "marking", "appending")
     /\ commands' = [commands EXCEPT ![cmd[t]] = @ + 1]
     /\ UNCHANGED <<rowVars, dockerVars, lock, localVars, faultVars>>
  \/ /\ Goto(t, "appending", "done")
     /\ status' = Expected[cmd[t]]
     /\ UNCHANGED <<ref, deleted, pending, active, dockerVars, commands, lock, localVars,
                    faultVars>>

\* The status is written whatever it has become since it was read ...
Mark(t) ==
  /\ Goto(t, "marking", "appending")
  /\ status' = Expected[cmd[t]]
  /\ UNCHANGED <<ref, deleted, pending, active, dockerVars, commands, lock, localVars, faultVars>>

\* An error of the request, which has changed nothing.
MarkFails(t) == Unwritten(t, "marking", "done")

\* ... and only then the command is queued.
Append(t) ==
  /\ Goto(t, "appending", "done")
  /\ commands' = [commands EXCEPT ![cmd[t]] = @ + 1]
  /\ UNCHANGED <<rowVars, dockerVars, lock, localVars, faultVars>>

AppendFails(t) ==
  /\ Erring("appending")
  /\ Goto(t, "appending", "failing")
  /\ UNCHANGED <<rowVars, dockerVars, commands, lock, localVars>>

\* RestartEnvironment calls the runner from the request.
Restart(t) ==
  /\ "restart" \in setting.kinds
  /\ t \in Calls \cap setting.up /\ Goto(t, "idle", "calling")
  /\ ~deleted /\ ref # 0 /\ status = "running"
  /\ cmd' = [cmd EXCEPT ![t] = "restart"]
  /\ Hold(t, ref)
  /\ UNCHANGED <<rowVars, dockerVars, commands, lock, for, uses, faultVars>>

\* DeleteEnvironment looks at no status; without backend_ref there is nothing
\* to remove.
Delete(t) ==
  /\ "delete" \in setting.kinds
  /\ t \in Calls \cap setting.up /\ Goto(t, "idle", IF ref = 0 THEN "dropping" ELSE "deleting")
  /\ ~deleted /\ status # "none"
  /\ Hold(t, ref)
  /\ UNCHANGED <<rowVars, dockerVars, commands, lock, cmd, for, uses, faultVars>>

\* Docker removes the container it is given, and refuses to remove a volume
\* another container has mounted.
RemoveContainer(t) ==
  /\ Goto(t, "deleting", "unmounting")
  /\ box' = IF box.ref = arg[t] THEN NoBox ELSE box
  /\ UNCHANGED <<rowVars, volume, refs, commands, lock, localVars, faultVars>>

RemoveContainerFails(t) == Unwritten(t, "deleting", "failing")

RemoveVolume(t) ==
  /\ Goto(t, "unmounting", IF box = NoBox THEN "dropping" ELSE "failing")
  /\ volume' = (volume /\ box # NoBox)
  /\ Hold(t, 0)
  /\ UNCHANGED <<rowVars, box, refs, commands, lock, cmd, for, uses, faultVars>>

SoftDelete(t) ==
  /\ Goto(t, "dropping", "done")
  /\ deleted' = TRUE
  /\ UNCHANGED <<status, ref, pending, active, dockerVars, commands, lock, localVars, faultVars>>

SoftDeleteFails(t) == Unwritten(t, "dropping", "done")

\* AddPortForward and DeletePortForward.
ChangePorts(t) ==
  /\ "ports" \in setting.kinds
  /\ t \in Calls \cap setting.up /\ Goto(t, "idle", "done")
  /\ ~deleted /\ status # "none"
  /\ pending' = TRUE
  /\ UNCHANGED <<status, ref, deleted, active, dockerVars, commands, lock, localVars, faultVars>>

-----------------------------------------------------------------------------
(* EnvironmentCommandConsumer of services/api.                             *)

Receive(r, k) ==
  /\ r \in Replicas /\ Goto(r, "idle", "checking")
  /\ commands[k] > 0
  /\ commands' = [commands EXCEPT ![k] = @ - 1]
  /\ cmd' = [cmd EXCEPT ![r] = k]
  /\ UNCHANGED <<rowVars, dockerVars, lock, arg, for, uses, faultVars>>

\* ExecuteCreate, ExecuteStart and ExecuteStop re-read the row.  A command whose
\* status the row no longer has is dropped.
Check(r) ==
  /\ pc[r] = "checking"
  /\ IF deleted \/ status # Expected[cmd[r]]
     THEN pc' = [pc EXCEPT ![r] = "idle"] /\ UNCHANGED cmd
     ELSE /\ pc' = [pc EXCEPT ![r] = IF cmd[r] = "stop" THEN "stopping" ELSE "calling"]
          /\ cmd' = IF cmd[r] = "start" /\ pending THEN [cmd EXCEPT ![r] = "restart"] ELSE cmd
  /\ Hold(r, ref)
  /\ UNCHANGED <<rowVars, dockerVars, commands, lock, for, uses, faultVars>>

\* An error of FindEnvironmentByID is returned, and the command acknowledged.
CheckFails(r) == Unwritten(r, "checking", "idle")

\* restartEnvironmentPorts returns an error of decryptSecret without writing it
\* down; ExecuteCreate and ExecuteStart do write it down.
DecryptFails(t) ==
  /\ Err("calling")
  /\ Goto(t, "calling", IF cmd[t] = "restart" THEN Over(t) ELSE "failing")
  /\ unheeded' = (unheeded \/ (t \in Replicas /\ cmd[t] = "restart"))
  /\ Hold(t, 0)
  /\ UNCHANGED <<rowVars, dockerVars, commands, lock, cmd, for, uses>>

FirstStep == [create |-> "building", start |-> "locking", restart |-> "removing"]

\* callEnvironmentCommand: the command, which a job takes on, and BRPOP.  A
\* creation makes the volume first.
Call(t, j) ==
  /\ pc[t] = "calling" /\ pc[j] = "idle" /\ j \in Jobs
  /\ pc' = [pc EXCEPT ![t] = "waiting", ![j] = FirstStep[cmd[t]]]
  /\ cmd' = [cmd EXCEPT ![j] = cmd[t]]
  /\ arg' = [arg EXCEPT ![j] = arg[t]]
  /\ for' = [for EXCEPT ![j] = t]
  /\ volume' = (volume \/ cmd[t] = "create")
  /\ UNCHANGED <<rowVars, box, refs, commands, lock, uses, faultVars>>

\* The wait times out when the job is slower than ten minutes, or is dead.
GiveUp(t) ==
  /\ Goto(t, "waiting", "failing")
  /\ \/ t \notin {for[j] : j \in Jobs} /\ UNCHANGED faultVars
     \/ t \in {for[j] : j \in Jobs} /\ Erring("waiting")
  /\ for' = [j \in Jobs |-> IF for[j] = t THEN None ELSE for[j]]
  /\ Hold(t, 0)
  /\ UNCHANGED <<rowVars, dockerVars, commands, lock, cmd, uses>>

\* The runner has done what it was asked: running, with the backend_ref of the
\* reply if there is a new one.
Persist(t) ==
  /\ Goto(t, "persisting", IF cmd[t] = "create" THEN Over(t) ELSE "touching")
  /\ status' = "running"
  /\ ref' = IF arg[t] # 0 THEN arg[t] ELSE ref
  /\ UNCHANGED <<deleted, pending, active, dockerVars, commands, lock, localVars, faultVars>>

\* A created container is forgotten, a recreated one is not.
PersistFails(t) ==
  /\ Erring("persisting")
  /\ Goto(t, "persisting", "failing")
  /\ arg' = IF cmd[t] = "create" THEN [arg EXCEPT ![t] = 0] ELSE arg
  /\ UNCHANGED <<rowVars, dockerVars, commands, lock, cmd, for, uses>>

\* TouchEnvironment, after which a restart clears ports_pending_restart, an
\* attached turn works and the others are done.
Touch(t) ==
  /\ Goto(t, "touching", IF t \in Turns THEN "working"
                         ELSE IF cmd[t] = "restart" THEN "clearing" ELSE Over(t))
  /\ active' = TRUE
  /\ lock' = IF lock = t THEN None ELSE lock
  /\ UNCHANGED <<status, ref, deleted, pending, dockerVars, commands, localVars, faultVars>>

\* An error of TouchEnvironment stops nobody.
TouchFails(t) ==
  Unwritten(t, "touching", IF t \in Turns THEN "working"
                           ELSE IF cmd[t] = "restart" THEN "clearing" ELSE Over(t))

ClearPending(t) ==
  /\ Goto(t, "clearing", Over(t))
  /\ pending' = FALSE
  /\ UNCHANGED <<status, ref, deleted, active, dockerVars, commands, lock, localVars, faultVars>>

ClearPendingFails(t) == Unwritten(t, "clearing", Over(t))

\* MUTANT of Fail: the error is returned and not written down.
FailSilently(t) ==
  /\ Goto(t, "failing", Over(t))
  /\ lock' = IF lock = t THEN None ELSE lock
  /\ UNCHANGED <<rowVars, dockerVars, commands, localVars, faultVars>>

\* setStatus(error), by whoever could not do what it was to do.
Fail(t) ==
  /\ Goto(t, "failing", Over(t))
  /\ status' = "error"
  /\ ref' = IF t \in Calls \cup Replicas /\ arg[t] # 0 THEN arg[t] ELSE ref
  /\ lock' = IF lock = t THEN None ELSE lock
  /\ UNCHANGED <<deleted, pending, active, dockerVars, commands, localVars, faultVars>>

\* Every caller discards or only logs an error of that write.
FailFails(t) == Unwritten(t, "failing", Over(t))

\* docker stop, for ExecuteStop and the idle reaper.
StopContainer(t) ==
  /\ Goto(t, "stopping", "stopped")
  /\ box' = IF box.ref = arg[t] /\ box # NoBox THEN [box EXCEPT !.up = FALSE] ELSE box
  /\ UNCHANGED <<rowVars, volume, refs, commands, lock, localVars, faultVars>>

StopContainerFails(t) ==
  /\ Erring("stopping")
  /\ Goto(t, "stopping", "failing")
  /\ Hold(t, 0)
  /\ UNCHANGED <<rowVars, dockerVars, commands, lock, cmd, for, uses>>

WriteStopped(t) ==
  /\ Goto(t, "stopped", Over(t))
  /\ status' = "stopped"
  /\ UNCHANGED <<ref, deleted, pending, active, dockerVars, commands, lock, localVars, faultVars>>

\* ExecuteStop writes an error instead, the reaper logs this one too.
WriteStoppedFails(t) == Unwritten(t, "stopped", IF t \in Replicas THEN "failing" ELSE "idle")

-----------------------------------------------------------------------------
(* Docker, as the jobs, the attaches and the reconciliations drive it.     *)

\* What becomes of the actor when the container is started (new = 0) or created,
\* and when that has failed.  A job replies and gives up the lock; the attach
\* and the reconciliation go on to claim the row with the lock held.
Finish(t, new) ==
  LET caller == IF t \in Jobs THEN for[t] ELSE None
  IN /\ pc' = [u \in Threads |-> IF u = t THEN IF t \in Jobs THEN "idle" ELSE "claiming"
                                 ELSE IF u = caller THEN "persisting" ELSE pc[u]]
     /\ arg' = [u \in Threads |-> IF u \in {t, caller} THEN new ELSE arg[u]]
     /\ uses' = IF t \in Turns THEN [uses EXCEPT ![t] = IF new = 0 THEN arg[t] ELSE new] ELSE uses
     /\ lock' = IF t \in Jobs /\ lock = t THEN None ELSE lock
     /\ for' = IF t \in Jobs THEN [for EXCEPT ![t] = None] ELSE for
     /\ UNCHANGED <<rowVars, commands, cmd>>

\* An attach writes the error down; a reconciliation only when the volume is gone.
Break(t, gone) ==
  LET caller == IF t \in Jobs THEN for[t] ELSE None
      next   == IF t \in Turns \/ (t \in Reconcilers /\ gone) THEN "failing" ELSE Over(t)
  IN /\ pc' = [u \in Threads |-> IF u = t THEN next
                                 ELSE IF u = caller THEN "failing" ELSE pc[u]]
     /\ arg' = [u \in Threads |-> IF u \in {t, caller} THEN 0 ELSE arg[u]]
     /\ lock' = IF lock = t /\ next # "failing" THEN None ELSE lock
     /\ for' = IF t \in Jobs THEN [for EXCEPT ![t] = None] ELSE for
     /\ UNCHANGED <<rowVars, commands, cmd, uses>>

\* The variables an actor wants; a job and a reconciliation take any.
Wants(t) == IF t \in Turns THEN Profile[t] ELSE Bare
Suits(t) == t \in Turns => box.prof = Profile[t]

\* StartEnvironment(arg): a container with other variables is replaced
\* (recreateEnvironmentIfMissingEnv, ensureEnvironmentInfraEnv), one that is
\* gone is healed from its volume (recreateGoneEnvironmentContainer).
StartContainer(t) ==
  /\ pc[t] = "starting"
  /\ LET there == box # NoBox /\ box.ref = arg[t]
     IN \/ /\ there /\ ~Suits(t)
           /\ pc' = [pc EXCEPT ![t] = "removing"]
           /\ UNCHANGED <<rowVars, box, commands, lock, localVars>>
        \/ /\ there /\ Suits(t)
           /\ box' = [box EXCEPT !.up = TRUE]
           /\ Finish(t, 0)
        \/ /\ ~there /\ volume
           /\ pc' = [pc EXCEPT ![t] = "healing"]
           /\ UNCHANGED <<rowVars, box, commands, lock, localVars>>
        \/ /\ ~there /\ ~volume
           /\ Break(t, TRUE)
           /\ UNCHANGED box
  /\ UNCHANGED <<volume, refs, faultVars>>

\* recreateEnvironmentContainer removes the container it knows, healing
\* whatever has the environment's name.
ClearName(t) ==
  /\ \/ Goto(t, "removing", "building") /\ box' = IF box.ref = arg[t] THEN NoBox ELSE box
     \/ Goto(t, "healing", "building") /\ box' = NoBox
  /\ UNCHANGED <<rowVars, volume, refs, commands, lock, localVars, faultVars>>

\* createAndStartEnvironmentContainer: the name may be taken by now.
Build(t) ==
  /\ pc[t] = "building"
  /\ \/ /\ box = NoBox /\ refs < Lifespan
        /\ refs' = refs + 1
        /\ box' = [ref |-> refs + 1, up |-> TRUE, prof |-> Wants(t)]
        /\ volume' = TRUE
        /\ Finish(t, refs + 1)
     \/ /\ box # NoBox \/ refs = Lifespan
        /\ Break(t, FALSE)
        /\ volume' = (volume /\ (cmd[t] # "create" \/ box # NoBox))
        /\ UNCHANGED <<box, refs>>
  /\ UNCHANGED faultVars

\* Whatever Docker refuses, the inspection, a removal or the creation, whose volume goes
\* with it if it was new.  A job replies with the error of the lock, too.
StartFails(t) ==
  /\ \/ pc[t] \in {"starting", "removing", "healing", "building"}
     \/ pc[t] = "locking" /\ t \in Jobs
  /\ Erring(pc[t])
  /\ Break(t, FALSE)
  /\ volume' = (volume /\ (pc[t] # "building" \/ cmd[t] # "create" \/ box # NoBox))
  /\ UNCHANGED <<box, refs>>

-----------------------------------------------------------------------------
(* The runner.                                                             *)

\* LockEnvironmentForStart waits for the lock, TryLockEnvironmentForStart does not.
Lock(t) ==
  /\ Goto(t, "locking", "reading")
  /\ lock = None
  /\ lock' = t
  /\ UNCHANGED <<rowVars, dockerVars, commands, localVars, faultVars>>

\* A turn or a boot ends with the error of the lock, a boot with that of the key, too.
LockFails(t) ==
  \/ t \in Turns /\ Unwritten(t, "locking", "done")
  \/ Unwritten(t, "trying", "done")

\* StartEnvironmentByID prefers the row's backend_ref to the one it was given.
Reread(t) ==
  /\ t \in Jobs \cup Reconcilers
  /\ Goto(t, "reading", "starting")
  /\ Hold(t, IF deleted \/ ref = 0 THEN arg[t] ELSE ref)
  /\ UNCHANGED <<rowVars, dockerVars, commands, lock, cmd, for, uses, faultVars>>

\* environmentReadyToStart
Ready == ~deleted /\ ref # 0 /\ status \notin {"error", "stopping"}

\* coldStartEnvironment: the row is looked at ...
Attach(t) ==
  /\ t \in Turns \cap setting.up /\ Goto(t, "idle", "locking")
  /\ Ready
  /\ Hold(t, ref)
  /\ UNCHANGED <<rowVars, dockerVars, commands, lock, cmd, for, uses, faultVars>>

\* MUTANT of RereadAttach: with the lock held, the first look is relied on.
RelyOnFirstLook(t) ==
  /\ t \in Turns
  /\ Goto(t, "reading", "starting")
  /\ UNCHANGED <<rowVars, dockerVars, commands, lock, localVars, faultVars>>

\* ... and again with the lock held.
RereadAttach(t) ==
  /\ t \in Turns /\ pc[t] = "reading"
  /\ pc' = [pc EXCEPT ![t] = IF Ready THEN "starting" ELSE "done"]
  /\ lock' = IF Ready THEN lock ELSE None
  /\ Hold(t, ref)
  /\ UNCHANGED <<rowVars, dockerVars, commands, cmd, for, uses, faultVars>>

\* Without the row, StartEnvironmentByID goes on with what it was given; an attach
\* does not.
RereadFails(t) == Unwritten(t, "reading", IF t \in Turns THEN "done" ELSE "starting")

\* MUTANT of Claim: the lock is given up before the new backend_ref is written.
ClaimUnlocked(t) ==
  \/ /\ pc[t] = "claiming" /\ lock = t
     /\ lock' = None
     /\ UNCHANGED <<rowVars, dockerVars, commands, pc, localVars, faultVars>>
  \/ /\ lock # t
     /\ Goto(t, "claiming", IF t \in Turns THEN "touching" ELSE "done")
     /\ IF status = "stopping" THEN UNCHANGED <<status, ref>>
        ELSE status' = "running" /\ ref' = IF arg[t] # 0 THEN arg[t] ELSE ref
     /\ UNCHANGED <<deleted, pending, active, dockerVars, commands, lock, localVars, faultVars>>

\* ClaimEnvironmentRunning: a stop in progress wins, and takes the new backend_ref
\* with it.
Claim(t) ==
  /\ Goto(t, "claiming", IF t \in Turns THEN "touching" ELSE "done")
  /\ IF status = "stopping" THEN UNCHANGED <<status, ref>>
     ELSE status' = "running" /\ ref' = IF arg[t] # 0 THEN arg[t] ELSE ref
  /\ lock' = IF t \in Turns THEN lock ELSE None
  /\ UNCHANGED <<deleted, pending, active, dockerVars, commands, localVars, faultVars>>

\* The error is logged, and the turn works in the container all the same.
ClaimFails(t) == Unwritten(t, "claiming", IF t \in Turns THEN "touching" ELSE "done")

\* tearDownSandbox and keepProviderCLIClientAlive.
EndTurn(t) ==
  /\ Goto(t, "working", "done")
  /\ active' = TRUE
  /\ uses' = [uses EXCEPT ![t] = 0]
  /\ UNCHANGED <<status, ref, deleted, pending, dockerVars, commands, lock, cmd, arg, for,
                 faultVars>>

EndTurnFails(t) == Unwritten(t, "working", "done")

\* reconcileOneEnvironment, of an environment ListRunningEnvironments returned.
Reconcile(t) ==
  /\ t \in Reconcilers \cap setting.up /\ Goto(t, "idle", "trying")
  /\ status = "running" /\ ~deleted /\ ref # 0
  /\ Hold(t, ref)
  /\ UNCHANGED <<rowVars, dockerVars, commands, lock, cmd, for, uses, faultVars>>

TryLock(t) ==
  /\ Goto(t, "trying", IF lock = None THEN "reading" ELSE "done")
  /\ lock' = IF lock = None THEN t ELSE lock
  /\ UNCHANGED <<rowVars, dockerVars, commands, localVars, faultVars>>

\* reapIdleEnvironments lists the idle ones ...
List(n) ==
  /\ n \in Reapers \cap setting.up /\ Goto(n, "idle", "reaping")
  /\ status = "running" /\ ~deleted /\ ~active
  /\ Hold(n, ref)
  /\ UNCHANGED <<rowVars, dockerVars, commands, lock, cmd, for, uses, faultVars>>

\* ... and claims one it finds still running, idle or no longer idle.
ClaimStop(n) ==
  /\ Goto(n, "reaping", IF status = "running" THEN "probing" ELSE "idle")
  /\ status' = IF status = "running" THEN "stopping" ELSE status
  /\ UNCHANGED <<ref, deleted, pending, active, dockerVars, commands, lock, localVars, faultVars>>

ClaimStopFails(n) == Unwritten(n, "reaping", "idle")

\* EnvironmentHasActiveSSHSession: somebody logged in keeps it running.
Probe(n) ==
  /\ \/ Goto(n, "probing", "stopping")
     \/ box # NoBox /\ box.ref = arg[n] /\ box.up /\ Goto(n, "probing", "sparing")
  /\ UNCHANGED <<rowVars, dockerVars, commands, lock, localVars, faultVars>>

Spare(n) ==
  /\ Goto(n, "sparing", "touching")
  /\ status' = "running"
  /\ UNCHANGED <<ref, deleted, pending, active, dockerVars, commands, lock, localVars, faultVars>>

SpareFails(n) == Unwritten(n, "sparing", "touching")

-----------------------------------------------------------------------------
(* The world.                                                              *)

\* Nobody has touched the environment for the idle timeout, a turn in it or not.
Quiet ==
  /\ active /\ status = "running"
  /\ active' = FALSE
  /\ UNCHANGED <<status, ref, deleted, pending, dockerVars, commands, lock, pc, localVars,
                 faultVars>>

\* Somebody removes the container outside of Paca.
Vanish ==
  /\ box # NoBox /\ vanishes < setting.vanishes
  /\ box' = NoBox
  /\ vanishes' = vanishes + 1
  /\ UNCHANGED <<rowVars, volume, refs, commands, lock, pc, localVars, setting,
                 errors, crashes, unheeded>>

\* A process dies.  Postgres drops its advisory lock; a replica that starts again
\* under its name finds the command it had not acknowledged.
Crash(t) ==
  /\ t \in setting.mortal /\ crashes < setting.crashes /\ pc[t] \notin {"idle", "done"}
  /\ crashes' = crashes + 1
  /\ pc' = [pc EXCEPT ![t] = Over(t)]
  /\ lock' = IF lock = t THEN None ELSE lock
  /\ commands' = IF t \notin Replicas THEN commands
                 ELSE [commands EXCEPT ![IF cmd[t] = "restart" THEN "start" ELSE cmd[t]] = @ + 1]
  /\ for' = [j \in Jobs |-> IF j = t \/ for[j] = t THEN None ELSE for[j]]
  /\ uses' = [u \in Turns |-> IF u = t THEN 0 ELSE uses[u]]
  /\ unheeded' = (unheeded \/ (t \in Calls \cup Reapers /\ pc[t] \in
                   {"appending", "failing", "probing", "stopping", "stopped", "sparing"}))
  /\ UNCHANGED <<rowVars, dockerVars, cmd, arg, setting, errors, vanishes>>

-----------------------------------------------------------------------------
Request(t) ==
  \/ Create(t) \/ Ask(t, "start") \/ Ask(t, "stop") \/ Restart(t) \/ Delete(t) \/ ChangePorts(t)

Write(t) ==
  \/ Mark(t) \/ Append(t) \/ AppendFails(t)
  \/ Persist(t) \/ PersistFails(t) \/ Touch(t) \/ ClearPending(t) \/ Fail(t)
  \/ StopContainer(t) \/ StopContainerFails(t) \/ WriteStopped(t)
  \/ RemoveContainer(t) \/ RemoveVolume(t) \/ SoftDelete(t)

\* Steps whose call fails, and which write nothing.
Lose(t) ==
  \/ MarkFails(t) \/ RemoveContainerFails(t) \/ SoftDeleteFails(t) \/ CheckFails(t)
  \/ TouchFails(t) \/ ClearPendingFails(t) \/ FailFails(t) \/ WriteStoppedFails(t)
  \/ LockFails(t) \/ RereadFails(t) \/ ClaimFails(t) \/ EndTurnFails(t)
  \/ ClaimStopFails(t) \/ SpareFails(t)

Command(t) ==
  \/ \E k \in DOMAIN Expected : Receive(t, k)
  \/ Check(t) \/ DecryptFails(t) \/ (\E j \in Jobs : Call(t, j)) \/ GiveUp(t)

Work(t) ==
  \/ Lock(t) \/ TryLock(t) \/ Reread(t) \/ RereadAttach(t)
  \/ StartContainer(t) \/ StartFails(t) \/ ClearName(t) \/ Build(t) \/ Claim(t)

Turn(t) == Attach(t) \/ EndTurn(t)
Reap(n) == List(n) \/ ClaimStop(n) \/ Probe(n) \/ Spare(n)

Next ==
  \/ \E t \in Threads : \/ Request(t) \/ Write(t) \/ Command(t) \/ Work(t)
                        \/ Turn(t) \/ Reap(t) \/ Reconcile(t) \/ Lose(t) \/ Crash(t)
  \/ Quiet \/ Vanish

Spec == Init /\ [][Next]_vars

\* Every process that lives goes on with what it does; no user has to ask for
\* anything, and no conversation has to come.
Fairness ==
  \A t \in Threads :
    WF_vars(Write(t) \/ Command(t) \/ Work(t) \/ EndTurn(t) \/ (t \in Reapers /\ Reap(t))
            \/ Lose(t))

FairSpec == Spec /\ Fairness

-----------------------------------------------------------------------------
(* Properties.                                                             *)

Points ==
  {"idle", "done", "marking", "appending", "failing", "calling", "waiting",
   "persisting", "touching", "clearing", "dropping", "deleting",
   "unmounting", "checking", "stopping", "stopped", "building", "locking",
   "trying", "reading", "starting", "removing", "healing", "claiming",
   "working", "reaping", "probing", "sparing"}

\* The state variables have their types.
TypeOK ==
  /\ status \in Transitional \cup {"none", "running", "stopped", "error"}
  /\ ref \in 0..Lifespan /\ refs \in 0..Lifespan
  /\ {deleted, pending, active, volume} \subseteq BOOLEAN
  /\ box \in {NoBox} \cup [ref : 1..Lifespan, up : BOOLEAN, prof : Profiles \cup {Bare}]
  /\ commands \in [DOMAIN Expected -> Nat]
  /\ lock \in Workers \cup {None}
  /\ pc \in [Threads -> Points]
  /\ cmd \in [Threads -> {"none", "create", "start", "stop", "restart"}]
  /\ arg \in [Threads -> 0..Lifespan]
  /\ for \in [Jobs -> Calls \cup Replicas \cup {None}]
  /\ uses \in [Turns -> 0..Lifespan]
  /\ setting \in Settings /\ {errors, crashes, vanishes} \subseteq Nat /\ unheeded \in BOOLEAN
  /\ errors <= setting.errors /\ crashes <= setting.crashes /\ vanishes <= setting.vanishes

\* Whoever will move the row on from a transitional status s: a command in the
\* stream, a request about to queue one, a replica or a reaper at work, which is at
\* step p with command k.
Answers(t, p, k, s) ==
  \/ /\ t \in Calls /\ p \in {"appending", "failing"}
     /\ k \in DOMAIN Expected /\ Expected[k] = s
  \/ /\ t \in Replicas /\ p \notin {"idle", "touching", "clearing"}
     /\ s = Expected[IF k = "restart" THEN "start" ELSE k]
  \/ t \in Reapers /\ p \in {"probing", "stopping", "stopped", "sparing", "failing"}
     /\ s = "stopping"

Answered ==
  status \in Transitional /\ ~deleted =>
    \/ \E k \in DOMAIN Expected : Expected[k] = status /\ commands[k] > 0
    \/ \E t \in Threads : Answers(t, pc[t], cmd[t], status)

\* No environment is stuck in a transitional status: while the row says creating,
\* starting or stopping, somebody is left who will write the outcome -- unless it was
\* lost by one of these: a replica could not read the row of its command, the write of
\* an error, of a reaped environment's stop or of a claim given back failed, a restart
\* could not decrypt the secret, a request or a reaper died between its status and its
\* end.  The users' requests refuse such a row, and neither the reaper nor a booting
\* runner looks at it.
NotStranded == unheeded \/ Answered

\* Nobody but attaches, boots, a creation and a delete, none of which dies with the lock
\* or has its claim or its second look fail.  A start or restart that replaces the
\* container gives up the lock before the api has written the new backend_ref; a stop in
\* progress, a death or an error loses what an attach would write; and a boot that
\* cannot read the row goes on with the backend_ref it listed.
Sheltered ==
  /\ setting.kinds \cap {"start", "stop", "restart"} = {} /\ Reapers \cap setting.up = {}
  /\ setting.mortal \cap (Replicas \cup Turns \cup Reconcilers) = {}
  /\ setting.failing \cap {"claiming", "reading"} = {}

\* Then neither an attach nor a booting runner removes the container a conversation
\* works in, when all conversations want the same variables: they share it.
SparesWorkers ==
  [][\A t \in Turns \cup Reconcilers, u \in Turns :
       /\ Sheltered
       /\ pc[t] \in {"removing", "healing"} /\ pc'[t] = "building" /\ ~deleted
       /\ pc[u] = "working" /\ (u # t /\ t \in Turns => Profile[u] = Profile[t])
       => uses[u] # box.ref]_vars

\* And while nobody holds the lock, the row names the container, unless the container
\* is gone or being created.
RowNamesContainer ==
  /\ Sheltered /\ lock = None /\ box # NoBox
  /\ ~(\E t \in Replicas : cmd[t] = "create" /\ pc[t] # "idle")
  => ref = box.ref \/ status \in {"creating", "error"}

\* Eventually a row in a transitional status is brought out of it, unless that was lost.
Settles == (status \in Transitional) ~> (status \notin Transitional \/ deleted \/ unheeded)

-----------------------------------------------------------------------------
(***************************************************************************)
(* Inductive invariants.  Where every actor is, with which command in its  *)
(* hands, which job serves which caller, who holds the start lock and what *)
(* a turn relies on, whatever comes along ...                              *)
(***************************************************************************)
\* The steps p at which an actor t is with command k.
Station(t, p, k) ==
  /\ t \in Calls =>
       \/ p \in {"idle", "done", "failing", "deleting", "unmounting", "dropping"}
       \/ p = "marking" /\ k \in {"start", "stop"}
       \/ p = "appending" /\ k \in {"create", "start", "stop"}
       \/ p \in {"calling", "waiting", "persisting", "touching", "clearing"} /\ k = "restart"
  /\ t \in Replicas =>
       \/ p = "idle"
       \/ p = "checking" /\ k \in {"create", "start", "stop"}
       \/ p \in {"calling", "waiting", "persisting"} /\ k \in {"create", "start", "restart"}
       \/ p = "touching" /\ k \in {"start", "restart"}
       \/ p = "clearing" /\ k = "restart"
       \/ p \in {"stopping", "stopped"} /\ k = "stop"
       \/ p = "failing" /\ k # "none"
  /\ t \in Jobs =>
       \/ p = "idle"
       \/ p = "building" /\ k \in {"create", "start", "restart"}
       \/ p \in {"locking", "reading", "starting", "healing"} /\ k = "start"
       \/ p = "removing" /\ k = "restart"
  /\ t \in Turns =>
       p \in {"idle", "locking", "reading", "starting", "removing", "healing", "building", "claiming",
             "touching", "working", "failing", "done"}
  /\ t \in Reconcilers =>
       p \in {"idle", "trying", "reading", "starting", "healing", "building", "claiming", "failing",
             "done"}
  /\ t \in Reapers =>
       k = "none" /\
       p \in {"idle", "reaping", "probing", "stopping", "stopped", "sparing", "touching", "failing"}

Stations == \A t \in Threads : Station(t, pc[t], cmd[t])

\* A job replies to a caller that waits, and to no other job's.
Served ==
  /\ \A j \in Jobs : for[j] # None => pc[j] # "idle" /\ pc[for[j]] = "waiting"
  /\ \A i, j \in Jobs : for[i] = for[j] /\ for[i] # None => i = j

\* The steps at which an actor has the start lock.
Locking(t, p, k) ==
  \/ t \in Jobs /\ k = "start" /\ p \in {"reading", "starting", "healing", "building"}
  \/ t \in Turns \cup Reconcilers
     /\ p \in {"reading", "starting", "removing", "healing", "building", "claiming", "touching",
               "failing"}

LockHeld == \A t \in Workers : lock = t <=> Locking(t, pc[t], cmd[t])

\* IDs are not given twice, and a turn works in a container of its variables.
Housed ==
  /\ box.ref <= refs
  /\ \A u \in Turns : pc[u] \in {"claiming", "touching", "working"} =>
       uses[u] \in 1..refs /\ (uses[u] = box.ref => box.prof = Profile[u])

ActorsInv == TypeOK /\ Stations /\ Served /\ LockHeld /\ Housed

\* ... who answers for a transitional status ...
AnswersInv == ActorsInv /\ NotStranded

\* ... and what the row and Docker agree on, when Sheltered.
Claimers == Turns \cup Reconcilers
\* Whoever has the one creation in its hands.
Creators == {t \in Calls : pc[t] = "appending"} \cup {t \in Replicas : pc[t] # "idle"}

\* Nobody restarts, stops or reaps: there is only the one creation.
Quietened ==
  /\ commands["start"] = 0 /\ commands["stop"] = 0
  /\ status \in {"none", "creating", "running", "error"}
  /\ \A t \in Calls : pc[t] \notin {"marking", "calling", "waiting", "persisting", "touching",
                                     "clearing"}
                     /\ (pc[t] = "appending" => cmd[t] = "create")
                     /\ (pc[t] \in {"idle", "appending", "failing"} => arg[t] = 0)
  /\ \A t \in Replicas \cup Jobs : pc[t] # "idle" => cmd[t] = "create"
  /\ \A t \in Replicas : pc[t] = "failing" => arg[t] = 0
  /\ \A t \in Reapers : pc[t] = "idle"

OneCreation ==
  /\ \A s, t \in Creators : s = t
  /\ commands["create"] <= 1
  /\ commands["create"] = 1 => Creators = {}
  /\ Creators # {} \/ commands["create"] = 1 => ref = 0 /\ status # "none"
  /\ \A t \in Replicas : pc[t] \in {"checking", "calling"} => \A j \in Jobs : pc[j] = "idle"
  /\ \A t \in Calls : pc[t] = "appending" => \A j \in Jobs : pc[j] = "idle"
  /\ commands["create"] = 1 => \A j \in Jobs : pc[j] = "idle"
  /\ \A j \in Jobs : pc[j] # "idle" =>
       /\ ref = 0 /\ status # "none"
       /\ for[j] # None \/ \A t \in Creators : pc[t] = "failing"
  /\ \A t \in Replicas : pc[t] = "persisting" => arg[t] # 0 /\ box.ref \in {0, arg[t]}

\* Before it is over there is no backend_ref, and nothing to attach to.
NotYet ==
  /\ ref = 0 => status \in {"none", "creating", "error"}
               /\ \A t \in Claimers : pc[t] \in {"idle", "done"}
  /\ status = "none" => ref = 0 /\ box = NoBox

\* The container is the one the row names, or the one a claimer is about to write.
RowAgrees ==
  ref # 0 /\ box # NoBox => box.ref = ref \/ \E t \in Claimers : pc[t] = "claiming"

\* What the holder of the lock knows of the container.
Knows(t) ==
  /\ pc[t] = "starting" /\ ~deleted => arg[t] = ref
  /\ pc[t] = "removing" /\ box # NoBox => box.ref = arg[t] /\ ~Suits(t)
  /\ pc[t] = "healing" /\ ~deleted => box = NoBox
  /\ pc[t] = "building" => box = NoBox
  /\ pc[t] = "claiming" /\ box # NoBox => box.ref = IF arg[t] = 0 THEN ref ELSE arg[t]

HolderKnows == \A t \in Claimers : Knows(t)

ShelterInv == Sheltered => Quietened /\ OneCreation /\ NotYet /\ RowAgrees /\ HolderKnows

IInv == AnswersInv /\ ShelterInv
=============================================================================
