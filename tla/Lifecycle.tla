------------------------------ MODULE Lifecycle ------------------------------
(***************************************************************************)
(* Installation of GenOS on a host and what is done with it afterwards:    *)
(* install.py, reinstall.py, lifecycle.py, lifecycle_hardened.py and       *)
(* lifecycle_release.py, as cli_mvp11.py calls them.  One operator runs    *)
(* one command at a time; a command can be killed between any two of its   *)
(* changes of the disk, or fail in one.  Product files and the database    *)
(* are known by the release that wrote them last.                          *)
(***************************************************************************)
EXTENDS Naturals, FiniteSets

CONSTANTS
  Release,     \* release archives that the operator has
  MaxId,       \* bound on the instance ids that are made
  MaxArchive,  \* bound on the backups that are kept at once
  None,
  Limit        \* bound on kills and failures, together

ASSUME LifecycleAssumption ==
  /\ None \notin Release /\ {"empty"} \cap Release = {}
  /\ MaxId \in Nat /\ MaxArchive \in Nat /\ Limit \in Nat

Id == 1 .. MaxId
Maybe(S) == S \cup {None}

\* The steps of a plan that change something a later command can undo.
Plan == {"create_directories", "stage_release", "write_configuration",
         "install_systemd_units", "provision_database", "start_core_services",
         "verify_local_core", "finalize_manifest"}
Order == [s \in Plan |->
  CASE s = "create_directories" -> 1 [] s = "stage_release" -> 2
    [] s = "write_configuration" -> 3 [] s = "install_systemd_units" -> 4
    [] s = "provision_database" -> 5 [] s = "start_core_services" -> 6
    [] s = "verify_local_core" -> 7 [] s = "finalize_manifest" -> 8]

\* /etc/genos: the files instance-id, mcp-port (there or not) and genos.env.
Config == [id : Maybe(Id), port : BOOLEAN, sha : Maybe(Release)]
NoFiles == [id |-> None, port |-> FALSE, sha |-> None]

\* /var/lib/genos.  The plan of manifest and run is known by its release.
Manifest == [plan : Release, sha : Release]
Run == [plan : Release, done : SUBSET Plan]
State == [manifest : Maybe(Manifest), run : Maybe(Run), files : Maybe(Release), secrets : BOOLEAN,
          preserved : Maybe(Config), backups : SUBSET (1 .. MaxArchive)]
NoState == [manifest |-> None, run |-> None, files |-> None, secrets |-> FALSE,
            preserved |-> None, backups |-> {}]
Db == {"empty"} \cup Release

\* The contents of a backup, and of the checkpoint that a restore makes.
Archive == [state : Maybe(State), config : Maybe(Config), db : Db, id : Maybe(Id),
            secrets : BOOLEAN]

\* Where there is nothing there is no file, record, id or database.
ASSUME NoneAssumption ==
  /\ None \notin Id /\ None \notin Db /\ None \notin Manifest /\ None \notin Run
  /\ None \notin Config /\ None \notin State /\ None \notin Archive

Steps == {"idle", "prepare", "copy id", "copy port", "reset run", "load", "step", "port",
          "env file", "record", "copy state", "dump", "pack", "stage", "cut over", "env",
          "manifest", "restart", "probe", "revert", "capture", "stop", "clear", "fill",
          "drop config", "fill config", "load database", "start", "check", "report",
          "undo clear", "undo fill", "undo drop config", "undo fill config", "undo database",
          "undo start", "forget", "preserve", "halt", "units", "code", "some config",
          "rest of config", "purge stop", "purge database", "purge units", "purge config",
          "purge state", "purge code"}

VARIABLES
  config, state, db,          \* the disk: None where there is nothing
  releases, current, units,   \* /opt/genos, /etc/systemd/system
  owned,                      \* state and config belong to the service account
  running,                    \* the release that the services run
  archives, vault,            \* backups made; those kept outside /var/lib/genos
  nextId,
  command, pc, rel, before, held, check,  \* the command and its locals
  owner,                      \* the instance that this host is
  kept,                       \* secret material was stored in this instance, and
                              \* not after a restore under way took its checkpoint
  torn,                       \* a command was stopped where nothing resumes it
  used                        \* how much of Limit is used up

disk == <<config, state, db, releases, current, units, owned>>
kit == <<archives, vault, nextId>>
locals == <<command, rel, before, held, check>>
history == <<owner, kept, torn>>
vars == <<disk, running, kit, pc, locals, history, used>>

Init ==
  /\ config = None /\ state = None /\ db = None
  /\ releases = {} /\ current = None /\ units = FALSE /\ owned = TRUE
  /\ running = None
  /\ archives = [n \in 1 .. MaxArchive |-> None] /\ vault = {}
  /\ nextId = 1
  /\ command = "none" /\ pc = "idle" /\ rel = None /\ before = None
  /\ held = None /\ check = None
  /\ owner = None /\ kept = FALSE /\ torn = FALSE /\ used = 0

-----------------------------------------------------------------------------
(* Helpers.                                                                *)

At(step) == pc = step
Goto(step) == pc' = step
Spend == used < Limit /\ used' = used + 1

\* A step of a command that changes neither its locals nor the histories.
Plainly == UNCHANGED <<kit, locals, history, used>>

Begin(name, step) ==
  /\ At("idle")
  /\ command' = name
  /\ Goto(step)
  /\ UNCHANGED <<disk, running, kit, history, used>>

End ==
  /\ Goto("idle")
  /\ command' = "none" /\ rel' = None /\ before' = None /\ held' = None /\ check' = None

\* _instance_id: from /etc/genos, or else from what uninstall has preserved.
InstanceId ==
  IF config # None /\ config.id # None THEN config.id
  ELSE IF state # None /\ state.preserved # None THEN state.preserved.id
  ELSE None
Installed == state # None /\ InstanceId # None

\* systemd starts the services: units, code and genos.env are needed.
CanStart == units /\ current # None /\ config # None /\ config.sha # None
Started == IF CanStart THEN current ELSE None

\* What a health probe of the local core needs.
Healthy ==
  /\ running # None /\ owned
  /\ config # None /\ config.port
  /\ state # None /\ db # None

Stored == vault \cup (IF state = None THEN {} ELSE state.backups)

-----------------------------------------------------------------------------
(* install, after prepare_reinstall_from_preserved_state.                  *)

Install(r) ==
  /\ nextId <= MaxId
  /\ Begin("install", "prepare")
  /\ rel' = r
  /\ UNCHANGED <<before, held, check>>

Prepare ==
  /\ At("prepare")
  /\ IF config = None /\ state # None /\ state.preserved # None
     THEN config' = NoFiles /\ Goto("copy id")
     ELSE UNCHANGED config /\ Goto("load")
  /\ UNCHANGED <<state, db, releases, current, units, owned, running>> /\ Plainly

CopyId ==
  /\ At("copy id")
  /\ config' = [config EXCEPT !.id = state.preserved.id]
  /\ Goto("copy port")
  /\ UNCHANGED <<state, db, releases, current, units, owned, running>> /\ Plainly

\* Without a file that was restored the old run is not reset.
CopyPort ==
  /\ At("copy port")
  /\ config' = [config EXCEPT !.port = state.preserved.port]
  /\ Goto(IF config.id # None \/ state.preserved.port THEN "reset run" ELSE "load")
  /\ UNCHANGED <<state, db, releases, current, units, owned, running>> /\ Plainly

\* Mutant: the run of the installation before stays.
ResetRunLater ==
  /\ At("reset run")
  /\ Goto("load")
  /\ UNCHANGED <<disk, running>> /\ Plainly

ResetRun ==
  /\ At("reset run")
  /\ state' = [state EXCEPT !.run = None]
  /\ Goto("load")
  /\ UNCHANGED <<config, db, releases, current, units, owned, running>> /\ Plainly

\* _load_resume_state refuses another plan than that of the manifest or the run.
OtherPlan ==
  state # None /\ \/ state.manifest # None /\ state.manifest.plan # rel
                  \/ state.run # None /\ state.run.plan # rel

Load ==
  /\ At("load")
  /\ ~OtherPlan
  /\ LET s == IF state = None THEN NoState ELSE state IN
     state' = IF s.run # None THEN s ELSE [s EXCEPT !.run = [plan |-> rel, done |-> {}]]
  /\ Goto("step")
  /\ UNCHANGED <<config, db, releases, current, units, owned, running>> /\ Plainly

Refuse ==
  /\ At("load")
  /\ OtherPlan
  /\ End
  /\ UNCHANGED <<disk, running, kit, history, used>>

Left == Plan \ state.run.done
First(S) == CHOOSE s \in S : \A t \in S : Order[s] <= Order[t]
NextStep == First(Left)

\* _atomic_text makes the directory of a file that it writes.
Directory == IF config = None THEN NoFiles ELSE config

\* _write_configuration: the instance-id, unless there is one; then the port, if
\* there is none, and genos.env.
\* Mutant: another instance-id is made although there is one.
WriteConfigurationAnew ==
  /\ nextId' = nextId + 1
  /\ config' = [Directory EXCEPT !.id = nextId]
  /\ owner' = IF owner = None THEN nextId ELSE owner
  /\ UNCHANGED <<state, db, releases, current, units, owned, running>>

WriteConfiguration ==
  /\ nextId' = IF Directory.id = None THEN nextId + 1 ELSE nextId
  /\ config' = [Directory EXCEPT !.id = IF @ = None THEN nextId ELSE @]
  /\ owner' = IF owner = None THEN config'.id ELSE owner
  /\ UNCHANGED <<state, db, releases, current, units, owned, running>>

WritePort ==
  /\ At("port")
  /\ config' = [config EXCEPT !.port = TRUE]
  /\ Goto("env file")
  /\ UNCHANGED <<state, db, releases, current, units, owned, running>> /\ Plainly

WriteEnvFile ==
  /\ At("env file")
  /\ config' = [config EXCEPT !.sha = rel]
  /\ Goto("record")
  /\ UNCHANGED <<state, db, releases, current, units, owned, running>> /\ Plainly

CreateDirectories ==
  /\ config' = Directory
  /\ UNCHANGED <<state, db, releases, current, units, owned, running, nextId, owner>>

StageRelease ==
  /\ releases' = releases \cup {rel} /\ current' = rel
  /\ UNCHANGED <<config, state, db, units, owned, running, nextId, owner>>

InstallUnits ==
  /\ units' = TRUE
  /\ UNCHANGED <<config, state, db, releases, current, owned, running, nextId, owner>>

ProvisionDatabase ==
  /\ db' = IF db = None THEN "empty" ELSE db
  /\ UNCHANGED <<config, state, releases, current, units, owned, running, nextId, owner>>

\* `systemctl enable --now` starts what does not run yet.
StartCoreServices ==
  /\ units
  /\ running' = IF running = None THEN Started ELSE running
  /\ UNCHANGED <<disk, nextId, owner>>

FinalizeManifest ==
  /\ state' = [state EXCEPT !.manifest = [plan |-> rel, sha |-> rel]]
  /\ UNCHANGED <<config, db, releases, current, units, owned, running, nextId, owner>>

\* The step that is next in the plan.
Perform(s) ==
  \/ s = "create_directories" /\ CreateDirectories
  \/ s = "stage_release" /\ StageRelease
  \/ s = "write_configuration" /\ WriteConfiguration
  \/ s = "install_systemd_units" /\ InstallUnits
  \/ s = "provision_database" /\ ProvisionDatabase
  \/ s = "start_core_services" /\ StartCoreServices
  \/ s = "verify_local_core" /\ Healthy /\ UNCHANGED <<disk, running, nextId, owner>>
  \/ s = "finalize_manifest" /\ FinalizeManifest

DoStep ==
  /\ At("step") /\ Left # {}
  /\ Perform(NextStep)
  /\ Goto(IF NextStep = "write_configuration" THEN "port" ELSE "record")
  /\ UNCHANGED <<archives, vault, locals, kept, torn, used>>

Record ==
  /\ At("record")
  /\ state' = [state EXCEPT !.run.done = @ \cup {NextStep}]
  /\ Goto("step")
  /\ UNCHANGED <<config, db, releases, current, units, owned, running>> /\ Plainly

\* The run SUCCEEDED.
Finish ==
  /\ At("step") /\ Left = {}
  /\ End
  /\ UNCHANGED <<disk, running, kit, history, used>>

\* A step raises: the services cannot be started, the core is not healthy.
Blocked ==
  \/ NextStep = "start_core_services" /\ ~units
  \/ NextStep = "verify_local_core" /\ ~Healthy
StepFails ==
  /\ pc \in {"port", "env file"} \/ (At("step") /\ Left # {})
  /\ IF At("step") /\ Blocked THEN UNCHANGED used ELSE Spend
  /\ End
  /\ UNCHANGED <<disk, running, kit, history>>

-----------------------------------------------------------------------------
(* backup.                                                                 *)

\* `held.secrets` says from the start whether secrets are to be included.
Backup(secrets) ==
  /\ Installed
  /\ (1 .. MaxArchive) \ Stored # {}
  /\ Begin("backup", "copy state")
  /\ held' = [state |-> None, config |-> None, db |-> "empty", id |-> None,
              secrets |-> secrets]
  /\ UNCHANGED <<rel, before, check>>

\* _copy_state_snapshot, and the configuration.
CopyState ==
  /\ At("copy state")
  /\ held' = [held EXCEPT
       !.state = [state EXCEPT !.backups = {}, !.secrets = @ /\ held.secrets],
       !.config = config, !.id = InstanceId]
  /\ Goto("dump")
  /\ UNCHANGED <<disk, running, kit, command, rel, before, check, history, used>>

Dump ==
  /\ At("dump")
  /\ db # None
  /\ held' = [held EXCEPT !.db = db]
  /\ Goto("pack")
  /\ UNCHANGED <<disk, running, kit, command, rel, before, check, history, used>>

\* Mutant: the file is named before it is there.
PackNothing ==
  /\ At("pack")
  /\ \E n \in (1 .. MaxArchive) \ Stored : state' = [state EXCEPT !.backups = @ \cup {n}]
  /\ IF command = "update" THEN Goto("stage") /\ UNCHANGED locals ELSE End
  /\ UNCHANGED <<config, db, releases, current, units, owned, running, kit, history, used>>

\* _create_archive.  An update goes on to the release.
Pack ==
  /\ At("pack")
  /\ \E n \in (1 .. MaxArchive) \ Stored :
       /\ \A m \in (1 .. MaxArchive) \ Stored : n <= m
       /\ archives' = [archives EXCEPT ![n] = held]
       /\ \/ /\ state' = [state EXCEPT !.backups = @ \cup {n}]
             /\ UNCHANGED vault
          \/ /\ command = "backup"
             /\ vault' = vault \cup {n}
             /\ UNCHANGED state
  /\ IF command = "update"
     THEN Goto("stage") /\ UNCHANGED locals
     ELSE End
  /\ UNCHANGED <<config, db, releases, current, units, owned, running, nextId, history, used>>

\* A backup that fails, or cannot dump the database, leaves nothing behind.
BackupFails ==
  /\ pc \in {"copy state", "dump", "pack"}
  /\ IF At("dump") /\ db = None THEN UNCHANGED used ELSE Spend
  /\ End
  /\ UNCHANGED <<disk, running, kit, history>>

-----------------------------------------------------------------------------
(* update.                                                                 *)

Update(r) ==
  /\ Installed
  /\ (1 .. MaxArchive) \ Stored # {}
  /\ Begin("update", "copy state")
  /\ rel' = r
  /\ before' = current
  /\ held' = [state |-> None, config |-> None, db |-> "empty", id |-> None, secrets |-> FALSE]
  /\ UNCHANGED check

Stage ==
  /\ At("stage")
  /\ releases' = releases \cup {rel}
  /\ Goto("cut over")
  /\ UNCHANGED <<config, state, db, current, units, owned, running>> /\ Plainly

CutOver ==
  /\ At("cut over")
  /\ current' = rel
  /\ Goto("env")
  /\ UNCHANGED <<config, state, db, releases, units, owned, running>> /\ Plainly

\* _write_release_identity: genos.env, then the manifest.
WriteEnv ==
  /\ At("env")
  /\ config # None /\ config.sha # None
  /\ config' = [config EXCEPT !.sha = rel]
  /\ Goto("manifest")
  /\ UNCHANGED <<state, db, releases, current, units, owned, running>> /\ Plainly

WriteManifest ==
  /\ At("manifest")
  /\ state.manifest # None
  /\ state' = [state EXCEPT !.manifest.sha = rel]
  /\ Goto("restart")
  /\ UNCHANGED <<config, db, releases, current, units, owned, running>> /\ Plainly

Restart ==
  /\ At("restart")
  /\ running' = Started
  /\ Goto("probe")
  /\ UNCHANGED disk /\ Plainly

Probe ==
  /\ At("probe")
  /\ Healthy
  /\ End
  /\ UNCHANGED <<disk, running, kit, history, used>>

UpdateFails ==
  /\ pc \in {"env", "manifest", "restart", "probe"}
  /\ IF \/ At("env") /\ (config = None \/ config.sha = None)
        \/ At("manifest") /\ state.manifest = None
        \/ At("probe") /\ ~Healthy
     THEN UNCHANGED used ELSE Spend
  /\ Goto("revert")
  /\ UNCHANGED <<disk, running, kit, locals, history>>

\* Mutant: the state is restored, the link is not.
RevertNothing ==
  /\ At("revert")
  /\ Goto("capture")
  /\ UNCHANGED <<disk, running>> /\ Plainly

\* The link goes back; then the checkpoint is restored.
Revert ==
  /\ At("revert")
  /\ current' = IF before \in releases THEN before ELSE current
  /\ Goto("capture")
  /\ UNCHANGED <<config, state, db, releases, units, owned, running>> /\ Plainly

-----------------------------------------------------------------------------
(* restore.                                                                *)

\* A backup that was to include secrets but has none is refused; so is another
\* instance's, unless it is allowed to replace this one.
Restore(n, replace) ==
  /\ n \in Stored
  /\ archives[n].secrets = archives[n].state.secrets
  /\ InstanceId # None /\ ~replace => archives[n].id = InstanceId
  /\ Begin("restore", "capture")
  /\ held' = archives[n]
  /\ UNCHANGED <<rel, before, check>>

Capture ==
  /\ At("capture")
  /\ db # None
  /\ check' = [state |-> IF state = None THEN None ELSE [state EXCEPT !.backups = {}],
               config |-> config, db |-> db, id |-> InstanceId, secrets |-> TRUE]
  /\ Goto("stop")
  /\ UNCHANGED <<disk, running, kit, command, rel, before, held, history, used>>

Stop ==
  /\ At("stop")
  /\ running' = None
  /\ Goto("clear")
  /\ UNCHANGED disk /\ Plainly

\* Mutant: the secrets are removed, as the first version of restore did.
ClearSecretsToo ==
  /\ At("clear")
  /\ state' = [NoState EXCEPT !.backups = IF state = None THEN {} ELSE state.backups]
  /\ Goto("fill")
  /\ UNCHANGED <<config, db, releases, current, units, owned, running>> /\ Plainly

\* _restore_files keeps the backups, and secrets that the archive has none of.
Clear ==
  /\ At("clear")
  /\ state' = IF state = None THEN NoState
              ELSE [NoState EXCEPT !.backups = state.backups,
                                   !.secrets = state.secrets /\ ~held.state.secrets]
  /\ Goto("fill")
  /\ UNCHANGED <<config, db, releases, current, units, owned, running>> /\ Plainly

Fill ==
  /\ At("fill")
  /\ state' = [held.state EXCEPT !.backups = state.backups,
                                 !.secrets = @ \/ state.secrets]
  /\ Goto(IF held.config = None THEN "load database" ELSE "drop config")
  /\ owned' = IF held.config = None THEN TRUE ELSE owned
  /\ UNCHANGED <<config, db, releases, current, units, running>> /\ Plainly

DropConfig ==
  /\ At("drop config")
  /\ config' = None
  /\ Goto("fill config")
  /\ UNCHANGED <<state, db, releases, current, units, owned, running>> /\ Plainly

\* The ownership is normalized.
FillConfig ==
  /\ At("fill config")
  /\ config' = held.config
  /\ owned' = TRUE
  /\ Goto("load database")
  /\ UNCHANGED <<state, db, releases, current, units, running>> /\ Plainly

LoadDatabase ==
  /\ At("load database")
  /\ db # None
  /\ db' = held.db
  /\ Goto("start")
  /\ UNCHANGED <<config, state, releases, current, units, owned, running>> /\ Plainly

Start ==
  /\ At("start")
  /\ running' = Started
  /\ Goto("check")
  /\ UNCHANGED disk /\ Plainly

Check ==
  /\ At("check")
  /\ Healthy
  /\ Goto("report")
  /\ UNCHANGED <<disk, running>> /\ Plainly

\* The command answers: the backup is restored, or the update rolled back.  A
\* backup made between uninstall and reinstall has no configuration to replace.
Report ==
  /\ At("report")
  /\ owner' = IF held.config = None THEN owner ELSE held.id
  /\ End
  /\ UNCHANGED <<disk, running, kit, kept, torn, used>>

RestoreFails ==
  /\ pc \in {"clear", "fill", "drop config", "fill config", "load database", "start", "check"}
  /\ IF (At("load database") /\ db = None) \/ (At("check") /\ ~Healthy)
     THEN UNCHANGED used ELSE Spend
  /\ Goto("undo clear")
  /\ UNCHANGED <<disk, running, kit, locals, history>>

\* Nothing is undone until the services are stopped.
CaptureFails ==
  /\ pc \in {"capture", "stop"}
  /\ IF At("capture") /\ db = None THEN UNCHANGED used ELSE Spend
  /\ torn' = (torn \/ At("stop") \/ command = "update")
  /\ End
  /\ UNCHANGED <<disk, running, kit, owner, kept>>

\* _rollback_restore_checkpoint: state and configuration are replaced by those
\* of the checkpoint, which has no backups; the ownership is not normalized.
Outside == [n \in 1 .. MaxArchive |-> IF n \in vault THEN archives[n] ELSE None]
UndoClear ==
  /\ At("undo clear")
  /\ state' = None
  /\ archives' = Outside
  /\ Goto("undo fill")
  /\ UNCHANGED <<config, db, releases, current, units, owned, running, vault, nextId, locals,
                 history, used>>

UndoFill ==
  /\ At("undo fill")
  /\ state' = IF check.state = None THEN NoState ELSE check.state
  /\ owned' = FALSE
  /\ Goto("undo drop config")
  /\ UNCHANGED <<config, db, releases, current, units, running>> /\ Plainly

UndoDropConfig ==
  /\ At("undo drop config")
  /\ config' = None
  /\ Goto("undo fill config")
  /\ UNCHANGED <<state, db, releases, current, units, owned, running>> /\ Plainly

UndoFillConfig ==
  /\ At("undo fill config")
  /\ config' = check.config
  /\ Goto("undo database")
  /\ UNCHANGED <<state, db, releases, current, units, owned, running>> /\ Plainly

UndoDatabase ==
  /\ At("undo database")
  /\ db # None
  /\ db' = check.db
  /\ Goto("undo start")
  /\ UNCHANGED <<config, state, releases, current, units, owned, running>> /\ Plainly

\* The command raises what has made it fail.
UndoStart ==
  /\ At("undo start")
  /\ running' = IF running = None THEN Started ELSE running
  /\ torn' = (torn \/ command = "update")
  /\ End
  /\ UNCHANGED <<disk, kit, owner, kept, used>>

UndoFails ==
  /\ pc \in {"undo clear", "undo fill", "undo drop config", "undo fill config",
             "undo database", "undo start"}
  /\ IF At("undo database") /\ db = None THEN UNCHANGED used ELSE Spend
  /\ torn' = TRUE
  /\ End
  /\ UNCHANGED <<disk, running, kit, owner, kept>>

-----------------------------------------------------------------------------
(* uninstall.                                                              *)

Uninstall ==
  /\ Begin("uninstall", IF config = None THEN "halt" ELSE "forget")
  /\ UNCHANGED <<rel, before, held, check>>

Forget ==
  /\ At("forget")
  /\ state' = IF state = None THEN NoState ELSE [state EXCEPT !.preserved = None]
  /\ Goto("preserve")
  /\ UNCHANGED <<config, db, releases, current, units, owned, running>> /\ Plainly

Preserve ==
  /\ At("preserve")
  /\ state' = [state EXCEPT !.preserved = config]
  /\ Goto("halt")
  /\ UNCHANGED <<config, db, releases, current, units, owned, running>> /\ Plainly

Halt ==
  /\ At("halt")
  /\ running' = None
  /\ Goto("units")
  /\ UNCHANGED disk /\ Plainly

RemoveUnits ==
  /\ At("units")
  /\ units' = FALSE
  /\ Goto("code")
  /\ UNCHANGED <<config, state, db, releases, current, owned, running>> /\ Plainly

RemoveCode ==
  /\ At("code")
  /\ current' = None /\ releases' = {}
  /\ Goto("some config")
  /\ UNCHANGED <<config, state, db, units, owned, running>> /\ Plainly

\* rmtree removes the files of /etc/genos one after the other, in any order.
RemoveSomeConfig ==
  /\ At("some config")
  /\ IF config = None THEN UNCHANGED config
     ELSE config' \in {[config EXCEPT !.id = None], [config EXCEPT !.port = FALSE],
                       [config EXCEPT !.sha = None]}
  /\ Goto("rest of config")
  /\ UNCHANGED <<state, db, releases, current, units, owned, running>> /\ Plainly

RemoveConfig ==
  /\ At("rest of config")
  /\ config' = None
  /\ End
  /\ UNCHANGED <<state, db, releases, current, units, owned, running, kit, history, used>>

-----------------------------------------------------------------------------
(* purge, which is confirmed with the instance id.                         *)

Purge ==
  /\ InstanceId # None
  /\ Begin("purge", "purge stop")
  /\ UNCHANGED <<rel, before, held, check>>

PurgeStop ==
  /\ At("purge stop")
  /\ running' = None
  /\ Goto("purge database")
  /\ UNCHANGED disk /\ Plainly

PurgeDatabase ==
  /\ At("purge database")
  /\ db' = None
  /\ Goto("purge units")
  /\ UNCHANGED <<config, state, releases, current, units, owned, running>> /\ Plainly

PurgeUnits ==
  /\ At("purge units")
  /\ units' = FALSE
  /\ Goto("purge config")
  /\ UNCHANGED <<config, state, db, releases, current, owned, running>> /\ Plainly

PurgeConfig ==
  /\ At("purge config")
  /\ config' = None
  /\ Goto("purge state")
  /\ UNCHANGED <<state, db, releases, current, units, owned, running>> /\ Plainly

PurgeState ==
  /\ At("purge state")
  /\ state' = None
  /\ archives' = Outside
  /\ Goto("purge code")
  /\ UNCHANGED <<config, db, releases, current, units, owned, running, vault, nextId, locals,
                 history, used>>

PurgeCode ==
  /\ At("purge code")
  /\ current' = None /\ releases' = {}
  /\ owned' = TRUE
  /\ owner' = None /\ kept' = FALSE
  /\ End
  /\ UNCHANGED <<config, state, db, units, running, kit, torn, used>>

-----------------------------------------------------------------------------
(* The outside.                                                            *)

\* The services make a change, in their files and in the database, or store
\* secret material.
Work ==
  /\ running # None /\ owned /\ state # None /\ db # None
  /\ \/ /\ state' = [state EXCEPT !.files = running] /\ db' = running
        /\ UNCHANGED kept
     \/ /\ state' = [state EXCEPT !.secrets = TRUE]
        /\ kept' = (kept \/ check = None)
        /\ UNCHANGED db
  /\ UNCHANGED <<config, releases, current, units, owned, running, kit, pc, locals, owner, torn,
                 used>>

\* Where a command can be stopped and be run again, or be forgotten.
Harmless == {"idle", "prepare", "load", "step", "port", "env file", "record", "copy state",
             "dump", "pack", "stage", "cut over", "forget"}
Stopped ==
  /\ Spend
  /\ torn' = (torn \/ (pc \notin Harmless /\ ~(command = "restore" /\ At("capture"))))
  /\ End
  /\ UNCHANGED <<disk, kit, owner, kept>>

Kill == ~At("idle") /\ Stopped /\ UNCHANGED running

Reboot == running # Started /\ Stopped /\ running' = Started

-----------------------------------------------------------------------------
InstallNext ==
  \/ \E r \in Release : Install(r)
  \/ Prepare \/ CopyId \/ CopyPort \/ ResetRun \/ Load \/ Refuse \/ DoStep \/ WritePort
  \/ WriteEnvFile \/ Record \/ Finish \/ StepFails

BackupNext == (\E s \in BOOLEAN : Backup(s)) \/ CopyState \/ Dump \/ Pack \/ BackupFails

UpdateNext ==
  \/ \E r \in Release : Update(r)
  \/ Stage \/ CutOver \/ WriteEnv \/ WriteManifest \/ Restart \/ Probe \/ UpdateFails \/ Revert

RestoreNext ==
  \/ \E n \in 1 .. MaxArchive, replace \in BOOLEAN : Restore(n, replace)
  \/ Capture \/ Stop \/ Clear \/ Fill \/ DropConfig \/ FillConfig \/ LoadDatabase \/ Start
  \/ Check \/ Report \/ RestoreFails \/ CaptureFails

UndoNext ==
  \/ UndoClear \/ UndoFill \/ UndoDropConfig \/ UndoFillConfig \/ UndoDatabase \/ UndoStart
  \/ UndoFails

RemovalNext ==
  \/ Uninstall \/ Forget \/ Preserve \/ Halt \/ RemoveUnits \/ RemoveCode \/ RemoveSomeConfig
  \/ RemoveConfig
  \/ Purge \/ PurgeStop \/ PurgeDatabase \/ PurgeUnits \/ PurgeConfig \/ PurgeState \/ PurgeCode

Next ==
  \/ InstallNext \/ BackupNext \/ UpdateNext \/ RestoreNext \/ UndoNext \/ RemovalNext
  \/ Work \/ Kill \/ Reboot

Spec == Init /\ [][Next]_vars

-----------------------------------------------------------------------------
(* Properties.                                                             *)

\* Every variable holds a value of its kind.
TypeOK ==
  /\ config \in Maybe(Config) /\ state \in Maybe(State) /\ db \in Maybe(Db)
  /\ releases \subseteq Release /\ current \in Maybe(Release)
  /\ units \in BOOLEAN /\ owned \in BOOLEAN /\ running \in Maybe(Release)
  /\ archives \in [1 .. MaxArchive -> Maybe(Archive)] /\ vault \subseteq 1 .. MaxArchive
  /\ nextId \in 1 .. MaxId + 1
  /\ pc \in Steps /\ rel \in Maybe(Release) /\ before \in Maybe(Release)
  /\ held \in Maybe(Archive) /\ check \in Maybe(Archive)
  /\ owner \in Maybe(Id) /\ kept \in BOOLEAN /\ torn \in BOOLEAN /\ used \in 0 .. Limit
  /\ \A n \in Stored : archives[n] # None

\* An install that answers SUCCEEDED has left a whole installation, however often
\* it was killed and resumed, and whatever was done before; the exception is a
\* command of another kind that was stopped half-way.
SucceededIsInstalled ==
  (command = "install" /\ At("step") /\ Left = {} /\ ~torn)
    => /\ units /\ current \in releases
       /\ config # None /\ config.id # None /\ config.port /\ config.sha # None
       /\ state.manifest # None /\ db # None

\* The host stays the instance that it is through uninstall and reinstall,
\* updates, restores and their rollbacks, until it is purged or replaced.
IdentityIsStable == (At("idle") /\ ~torn /\ owner # None) => InstanceId = owner

\* Secret material that was stored is there between commands: restores of
\* backups without secrets keep it, and so do rollbacks and uninstall.
SecretsAreKept == (At("idle") /\ ~torn /\ kept) => state # None /\ state.secrets

\* When a restore, or an update that has failed, answers that the backup is
\* restored, configuration (if it has one), manifest and run are those of the
\* backup, files and database are too, or were changed by the code that now
\* runs; after an update that has failed that is the previous release, if any.
RestoreIsWhole ==
  At("report")
    => /\ held.config \in {config, None}
       /\ state.manifest = held.state.manifest /\ state.run = held.state.run
       /\ running = current
       /\ state.files \in {held.state.files, running} /\ db \in {held.db, running}
       /\ (command = "update" /\ before # None) => current = before

\* What HardenedLifecycleService says of itself: "restored filesystem ownership
\* is normalized back to the GenOS service identity".
OwnershipIsNormalized == (At("idle") /\ ~torn) => owned
=============================================================================
