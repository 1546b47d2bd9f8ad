--------------------------- MODULE Lifecycle_proofs ---------------------------
(***************************************************************************)
(* Proofs about Lifecycle, for any number of releases, instance ids,       *)
(* backups, kills and failures: an install that succeeded is whole, the    *)
(* host stays one instance, it keeps its secrets, and a restore that       *)
(* answers has brought back the whole of the backup.                       *)
(***************************************************************************)
EXTENDS Lifecycle, TLAPS

-----------------------------------------------------------------------------
(* The inductive invariant.                                                *)

\* What steps of the commands have in common: those of an install, from the files that
\* uninstall has preserved, and with the evidence of a run in hand,
Copying == {"copy id", "copy port"}
Stepping == {"step", "port", "env file", "record"}
Installing == {"prepare", "reset run", "load"} \cup Copying \cup Stepping
\* of a backup, and of an update once it has one,
Packing == {"copy state", "dump", "pack"}
Switching == {"stage", "cut over", "env", "manifest", "restart", "probe", "revert"}
\* of a restore: while the services are down, once the state is the backup's, with a
\* checkpoint, and of its rollback,
Quiet == {"clear", "fill", "drop config", "fill config", "load database", "start"}
Refilled == {"drop config", "fill config", "load database", "start", "check", "report"}
Restoring == {"capture", "stop", "clear", "fill"} \cup Refilled
Undoing == {"undo clear", "undo fill", "undo drop config", "undo fill config",
            "undo database", "undo start"}
Checked == (Restoring \ {"capture"}) \cup Undoing
\* of uninstall and purge: once the units are gone, with a copy of the configuration,
Stripped == {"code", "some config", "rest of config", "purge config", "purge state",
             "purge code"}
Removing == {"halt", "units", "code", "some config", "rest of config"}
\* and those at which no service runs.
Silent == Quiet \cup {"units", "purge database", "purge units"} \cup Stripped

\* Every variable has its type.
DiskTyped ==
  /\ config \in Maybe(Config) /\ state \in Maybe(State) /\ db \in Maybe(Db)
  /\ releases \subseteq Release /\ current \in Maybe(Release)
  /\ units \in BOOLEAN /\ owned \in BOOLEAN /\ running \in Maybe(Release)
KitTyped ==
  /\ archives \in [1 .. MaxArchive -> Maybe(Archive)] /\ vault \subseteq 1 .. MaxArchive
  /\ nextId \in 1 .. MaxId + 1
LocalsTyped ==
  /\ pc \in Steps /\ rel \in Maybe(Release) /\ before \in Maybe(Release)
  /\ held \in Maybe(Archive) /\ check \in Maybe(Archive)
HistoryTyped ==
  /\ owner \in Maybe(Id) /\ kept \in BOOLEAN /\ torn \in BOOLEAN /\ used \in 0 .. Limit
Typed == DiskTyped /\ KitTyped /\ LocalsTyped /\ HistoryTyped

\* What a command has in hand at its steps.
Handy ==
  /\ pc \in Installing \cup Switching => rel \in Release
  /\ pc \in Packing /\ command = "update" => rel \in Release
  /\ pc \in Packing \cup Switching \cup Restoring => held # None
  /\ pc \in ((Packing \ {"copy state"}) \cup Switching \cup Restoring) => held.state # None
  /\ pc \in Checked => check # None

\* What is on the disk at its steps.
There ==
  /\ pc \in Stepping \cup Copying \cup Packing \cup Refilled
            \cup {"reset run", "stage", "cut over", "env", "manifest", "fill", "preserve"}
       => state # None
  /\ pc \in Copying => state.preserved # None
  /\ pc \in Stepping => state.run # None
  /\ pc \in {"port", "env file", "record"} => Left # {}
  /\ pc \in {"port", "env file"} => NextStep = "write_configuration"
  /\ pc \in Copying \cup {"reset run", "port", "env file", "preserve", "forget"} => config # None
  /\ pc \in {"purge state", "purge code"} => config = None
  /\ pc = "purge code" => state = None

\* The next id is not beyond the last one before it is used.
Fresh ==
  /\ pc \in Installing \ Stepping => nextId <= MaxId
  /\ pc \in {"step", "record"} /\ "write_configuration" \in Left
        /\ (pc = "record" => NextStep # "write_configuration") => nextId <= MaxId

\* Backups are there, and have a state.
Stocked ==
  /\ \A n \in 1 .. MaxArchive : archives[n] # None => archives[n].state # None
  /\ \A n \in Stored : archives[n] # None
  /\ check # None /\ check.state # None => check.state.backups = {}

\* What the services run is installed.
Serving ==
  /\ running # None => units /\ current # None
  /\ pc \in Silent => running = None
  /\ pc \in Stripped => ~units
  /\ current # None => current \in releases
  /\ pc = "cut over" => rel \in releases
  /\ pc \in Packing \cup Switching \cup Restoring /\ command = "update" /\ before # None
       => before \in releases
  /\ pc \in Restoring /\ command = "update" /\ before # None => current = before
  /\ pc \in {"check", "report"} => running = Started

\* What a restore has brought back, step by step.
Restored ==
  /\ pc \in Refilled => /\ state.manifest = held.state.manifest /\ state.run = held.state.run
                        /\ state.preserved = held.state.preserved
                        /\ state.files \in {held.state.files, running}
  /\ pc \in Refilled \ {"check", "report"} => state.files = held.state.files
  /\ pc \in {"load database", "start", "check", "report"} => held.config \in {config, None}
  /\ pc = "start" => db = held.db
  /\ pc \in {"check", "report"} => db \in {held.db, running}
  /\ pc = "report" => Healthy
  /\ pc \in Checked => db # None
  /\ pc \in Checked \ Undoing /\ held.config = None => config = check.config
  /\ pc \in {"stop", "clear", "fill", "drop config"} => config = check.config
  /\ pc \in {"drop config", "fill config"} => held.config # None
  /\ pc \in {"undo drop config", "undo fill config", "undo database", "undo start"}
       => ~owned /\ state = IF check.state = None THEN NoState ELSE check.state
  /\ pc \in {"undo database", "undo start"} => config = check.config

\* The instance-id is the first file of a configuration, genos.env the last.
Complete(c) == c # None /\ c.id # None /\ c.port /\ c.sha # None
Ordered(c) == c # None /\ (c.port \/ c.sha # None) => c.id # None
HasId(s) == s # None /\ s.preserved # None /\ s.preserved.id # None
Done(s, step) == s # None /\ s.run # None /\ step \in s.run.done
IdOf(s, c) == IF c # None /\ c.id # None THEN c.id
              ELSE IF s # None /\ s.preserved # None THEN s.preserved.id ELSE None

\* What the evidence of a run says of the state that it is in.
Evident(s) ==
  /\ s # None => Ordered(s.preserved)
  /\ Done(s, "finalize_manifest") => s.manifest # None
  /\ Done(s, "verify_local_core") => Done(s, "write_configuration")

\* A state and a configuration that go together.
Paired(s, c) ==
  /\ Evident(s) /\ Ordered(c)
  /\ Done(s, "write_configuration") => Complete(c) \/ (c = None /\ HasId(s))
  /\ c # None /\ c.id = None => ~HasId(s)

\* The same of a host, and of a backup or a checkpoint.
Backed(s, c) ==
  /\ units => Complete(c)
  /\ Done(s, "verify_local_core") /\ c # None => units /\ current # None
Whole(a) == Paired(a.state, a.config) /\ a.id = IdOf(a.state, a.config)

\* Where files are on their way and need not go together.
Apart == {"reset run", "fill", "rest of config", "purge state"} \cup Copying \cup Undoing
         \cup (Refilled \ {"report"})

\* The backups, and what a command holds of one.
Packed ==
  /\ \A n \in 1 .. MaxArchive : archives[n] # None => Whole(archives[n])
  /\ pc \in ((Packing \ {"copy state"}) \cup Switching \cup Restoring) => Whole(held)

\* The checkpoint.
Pinned == pc \in Checked => Whole(check) /\ Backed(check.state, check.config)

\* The host, unless files are on their way.
Matched ==
  /\ pc \notin Apart => Paired(state, config)
  /\ pc \notin (Apart \cup Stripped) => Backed(state, config)

\* The configuration on its way back from what uninstall has preserved.
Copied ==
  /\ pc \in Copying \cup {"reset run"} => ~units /\ Evident(state) /\ Ordered(config)
  /\ pc \in Copying /\ Done(state, "write_configuration") => HasId(state)
  /\ pc = "copy id" => config = NoFiles
  /\ pc = "copy port" => config = [NoFiles EXCEPT !.id = state.preserved.id]
  /\ pc = "reset run" /\ config.id = None => ~HasId(state)

\* An installation under way, and what a step has left before it is recorded.
Stepped ==
  /\ pc \in {"load"} \cup Stepping
       => /\ Done(state, "write_configuration") => Complete(config)
          /\ config = None => ~HasId(state)
  /\ pc \in {"port", "env file"} => config.id # None
  /\ pc = "env file" => config.port
  /\ pc = "record" =>
       /\ NextStep = "write_configuration" => Complete(config)
       /\ NextStep = "provision_database" => db # None
       /\ NextStep = "verify_local_core" => units /\ current # None
       /\ NextStep = "finalize_manifest" => state.manifest # None

\* An uninstall under way.
Cleared ==
  pc \in Removing => /\ Evident(state)
                     /\ Done(state, "write_configuration") => HasId(state)

\* The database of a run.
Provided ==
  pc \notin {"purge units", "purge config", "purge state"} /\ Done(state, "provision_database")
    => db # None

\* All of this is promised unless a command was stopped where nothing resumes it.
Proven == Packed /\ Pinned /\ Matched /\ Copied /\ Stepped /\ Cleared /\ Provided

\* Which instance the host is, at each step; at some its files do not tell.
Nameless == (Apart \ (Copying \cup {"reset run", "rest of config"})) \cup {"report", "purge code"}
Named ==
  owner # None =>
    /\ pc \notin Nameless => InstanceId = owner
    /\ pc \in Checked => check.id = owner
    /\ pc = "preserve" => config.id = owner
    /\ pc \in Removing => HasId(state) /\ state.preserved.id = owner

\* Where the secret material is, but for the steps that put another state in place.
Exposed == {"fill", "undo clear", "undo fill", "purge code"}
Secret ==
  kept =>
    /\ pc \notin Exposed => state # None /\ state.secrets
    /\ pc = "fill" => state.secrets \/ held.state.secrets
    /\ pc \in Checked => check.state # None /\ check.state.secrets

IInv == Typed /\ Handy /\ There /\ Fresh /\ Stocked /\ Serving /\ Restored
        /\ (torn \/ (Proven /\ Named /\ Secret))

-----------------------------------------------------------------------------
(* Fields of records.                                                      *)

LEMMA NoStateTyped == NoState \in State
  BY DEF NoState, State, Maybe

LEMMA NoFilesTyped == NoFiles \in Config
  BY DEF NoFiles, Config, Maybe

LEMMA StateFields ==
  ASSUME NEW s \in State
  PROVE  /\ s.manifest \in Maybe(Manifest) /\ s.run \in Maybe(Run) /\ s.files \in Maybe(Release)
         /\ s.secrets \in BOOLEAN /\ s.preserved \in Maybe(Config)
         /\ s.backups \in SUBSET (1 .. MaxArchive)
  BY DEF State

\* A state of which one field is replaced.
LEMMA WithRun ==
  ASSUME NEW s \in State, NEW x \in Maybe(Run), NEW t, t = [s EXCEPT !.run = x]
  PROVE  /\ t \in State /\ t.run = x /\ t.manifest = s.manifest /\ t.files = s.files
         /\ t.secrets = s.secrets /\ t.preserved = s.preserved /\ t.backups = s.backups
  BY DEF State

LEMMA WithManifest ==
  ASSUME NEW s \in State, NEW x \in Maybe(Manifest), NEW t, t = [s EXCEPT !.manifest = x]
  PROVE  /\ t \in State /\ t.run = s.run /\ t.manifest = x /\ t.files = s.files
         /\ t.secrets = s.secrets /\ t.preserved = s.preserved /\ t.backups = s.backups
  BY DEF State

LEMMA WithShas ==
  ASSUME NEW s \in State, s.manifest # None, NEW x \in Release,
         NEW t, t = [s EXCEPT !.manifest.sha = x]
  PROVE  /\ t \in State /\ t.manifest \in Manifest /\ t.run = s.run /\ t.files = s.files
         /\ t.secrets = s.secrets /\ t.preserved = s.preserved /\ t.backups = s.backups
  <1>1. s.manifest \in Manifest
    BY DEF State, Maybe
  <1>2. t.manifest = [s.manifest EXCEPT !.sha = x]
    BY DEF State
  <1>3. t.manifest \in Manifest
    BY <1>1, <1>2 DEF Manifest
  <1>4. QED
    BY <1>1, <1>3, NoneAssumption DEF State, Maybe

-----------------------------------------------------------------------------
(* What the actions do to the records.                                     *)

\* The state is another record, of which only some fields have changed.
SameRun(s, t) == t.run = s.run /\ t.preserved = s.preserved
Wrote(s, t) ==
  /\ s \in State /\ t \in State
  /\ t.backups = s.backups /\ (s.secrets => t.secrets)

\* The actions that write the state, one by one.
LEMMA ResetRunDoes ==
  ASSUME Typed, There, ResetRun
  PROVE  Wrote(state, state') /\ state'.run = None /\ state'.preserved = state.preserved
         /\ state'.manifest = state.manifest
  <1>1. state \in State
    BY DEF Typed, DiskTyped, Maybe, There, ResetRun, At
  <1>2. state' = [state EXCEPT !.run = None]
    BY DEF ResetRun
  <1>3. QED
    BY <1>1, <1>2, WithRun DEF Maybe, Wrote

LEMMA LoadDoes ==
  ASSUME Typed, Handy, Load
  PROVE  /\ state' \in State /\ state'.run # None
         /\ IF state # None THEN Wrote(state, state') /\ state'.preserved = state.preserved
                                 /\ state'.manifest = state.manifest
            ELSE state'.preserved = None /\ state'.manifest = None /\ state'.backups = {}
         /\ \/ state # None /\ state.run # None /\ state' = state
            \/ (state = None \/ state.run = None) /\ state'.run.done = {}
  <1> DEFINE s == IF state = None THEN NoState ELSE state
             x == [plan |-> rel, done |-> {}]
  <1>1. s \in State /\ (state = None => s = NoState) /\ (state # None => s = state)
    BY NoStateTyped DEF Typed, DiskTyped, Maybe
  <1>2. state' = IF s.run # None THEN s ELSE [s EXCEPT !.run = x]
    BY DEF Load
  <1>3. rel \in Release
    BY DEF Load, At, Handy, Installing
  <1>4. x \in Run /\ x.done = {}
    BY <1>3 DEF Run
  <1>5. NoState.run = None /\ NoState.preserved = None /\ NoState.manifest = None
        /\ NoState.backups = {}
    BY DEF NoState
  <1> HIDE DEF s, x
  <1>6. CASE s.run # None
    BY <1>1, <1>2, <1>5, <1>6 DEF Wrote
  <1>7. CASE s.run = None
    <2>1. state' = [s EXCEPT !.run = x]
      BY <1>2, <1>7
    <2>2. x \in Maybe(Run) /\ x # None
      BY <1>4, NoneAssumption DEF Maybe
    <2>3. state' \in State /\ state'.run = x /\ state'.manifest = s.manifest
          /\ state'.preserved = s.preserved /\ state'.backups = s.backups
          /\ state'.secrets = s.secrets
      BY <1>1, <2>1, <2>2, WithRun
    <2>4. QED
      BY <1>1, <1>4, <1>5, <1>7, <2>2, <2>3 DEF Wrote
  <1>8. QED
    BY <1>6, <1>7

LEMMA FinalizeDoes ==
  ASSUME Typed, Handy, There, At("step"), FinalizeManifest
  PROVE  Wrote(state, state') /\ SameRun(state, state') /\ state'.manifest # None
  <1> DEFINE x == [plan |-> rel, sha |-> rel]
  <1>1. state \in State /\ rel \in Release
    BY DEF Typed, DiskTyped, Maybe, There, Handy, Stepping, Installing, At
  <1>2. x \in Manifest
    BY <1>1 DEF Manifest
  <1>3. state' = [state EXCEPT !.manifest = x]
    BY DEF FinalizeManifest
  <1> HIDE DEF x
  <1>4. x \in Maybe(Manifest) /\ x # None
    BY <1>2, NoneAssumption DEF Maybe
  <1>5. QED
    BY <1>1, <1>3, <1>4, WithManifest DEF Wrote, SameRun

\* The least of the steps that are left.
LEMMA FirstIsLeast ==
  ASSUME NEW S \in SUBSET Plan, S # {}
  PROVE  First(S) \in S /\ \A t \in S : Order[First(S)] <= Order[t]
  <1>1. /\ Order["create_directories"] = 1 /\ Order["stage_release"] = 2
        /\ Order["write_configuration"] = 3 /\ Order["install_systemd_units"] = 4
        /\ Order["provision_database"] = 5 /\ Order["start_core_services"] = 6
        /\ Order["verify_local_core"] = 7 /\ Order["finalize_manifest"] = 8
    BY DEF Order, Plan
  <1>2. \E s \in S : \A t \in S : Order[s] <= Order[t]
    <2>1. \A s \in S : s \in Plan
      OBVIOUS
    <2>2. CASE "create_directories" \in S
      BY <1>1, <2>1, <2>2 DEF Plan
    <2>3. CASE "create_directories" \notin S /\ "stage_release" \in S
      BY <1>1, <2>1, <2>3 DEF Plan
    <2>4. CASE /\ S \cap {"create_directories", "stage_release"} = {}
               /\ "write_configuration" \in S
      BY <1>1, <2>1, <2>4 DEF Plan
    <2>5. CASE /\ S \cap {"create_directories", "stage_release", "write_configuration"} = {}
               /\ "install_systemd_units" \in S
      BY <1>1, <2>1, <2>5 DEF Plan
    <2>6. CASE /\ S \subseteq {"provision_database", "start_core_services",
                                "verify_local_core", "finalize_manifest"}
               /\ "provision_database" \in S
      BY <1>1, <2>6
    <2>7. CASE S \subseteq {"start_core_services", "verify_local_core", "finalize_manifest"}
               /\ "start_core_services" \in S
      BY <1>1, <2>7
    <2>8. CASE S \subseteq {"verify_local_core", "finalize_manifest"} /\ "verify_local_core" \in S
      BY <1>1, <2>8
    <2>9. CASE S = {"finalize_manifest"}
      BY <1>1, <2>9
    <2>10. QED
      BY <2>1, <2>2, <2>3, <2>4, <2>5, <2>6, <2>7, <2>8, <2>9 DEF Plan
  <1>3. QED
    BY <1>2 DEF First

LEMMA NextStepIsLeft ==
  ASSUME Left # {}
  PROVE  NextStep \in Left /\ NextStep \in Plan /\ \A t \in Left : Order[NextStep] <= Order[t]
  BY FirstIsLeast DEF Left, NextStep

LEMMA RecordDoes ==
  ASSUME Typed, There, Record
  PROVE  Wrote(state, state') /\ state'.preserved = state.preserved
         /\ state'.manifest = state.manifest /\ state'.run # None
         /\ NextStep \in Plan \ state.run.done
         /\ state'.run.done = state.run.done \cup {NextStep}
  <1>1. state \in State /\ state.run \in Run /\ Left # {}
    BY DEF Typed, DiskTyped, Maybe, There, Stepping, Record, At, State
  <1>2. NextStep \in Plan /\ NextStep \in Left
    BY <1>1, NextStepIsLeft
  <1>3. PICK x \in Plan : x = NextStep /\ state' = [state EXCEPT !.run.done = @ \cup {x}]
    BY <1>2 DEF Record
  <1>4. PICK y : y = [state.run EXCEPT !.done = @ \cup {x}]
    OBVIOUS
  <1>5. y \in Run /\ y.done = state.run.done \cup {x}
    BY <1>1, <1>4 DEF Run
  <1>6. state' = [state EXCEPT !.run = y]
    BY <1>3, <1>4
  <1>7. y \in Maybe(Run) /\ y # None
    BY <1>5, NoneAssumption DEF Maybe
  <1>8. /\ state' \in State /\ state'.run = y
        /\ state'.manifest = state.manifest /\ state'.secrets = state.secrets
        /\ state'.preserved = state.preserved /\ state'.backups = state.backups
    BY <1>1, <1>6, <1>7, WithRun
  <1>9. QED
    BY <1>1, <1>2, <1>3, <1>5, <1>7, <1>8 DEF Wrote, Left

LEMMA WriteManifestDoes ==
  ASSUME Typed, Handy, There, WriteManifest
  PROVE  Wrote(state, state') /\ SameRun(state, state') /\ state'.manifest # None
         /\ state.manifest # None
  <1>1. state \in State /\ rel \in Release /\ state.manifest # None
    BY DEF Typed, DiskTyped, Maybe, There, Handy, Switching, WriteManifest, At
  <1>2. state' = [state EXCEPT !.manifest.sha = rel]
    BY DEF WriteManifest
  <1>3. /\ state' \in State /\ state'.manifest \in Manifest
        /\ state'.run = state.run /\ state'.secrets = state.secrets
        /\ state'.preserved = state.preserved /\ state'.backups = state.backups
    BY <1>1, <1>2, WithShas
  <1>4. QED
    BY <1>1, <1>3, NoneAssumption DEF Wrote, SameRun

LEMMA ForgetDoes ==
  ASSUME Typed, Forget
  PROVE  /\ state' \in State /\ state'.preserved = None
         /\ IF state # None THEN Wrote(state, state') /\ state'.run = state.run
                                 /\ state'.manifest = state.manifest
            ELSE state'.run = None /\ state'.manifest = None /\ state'.backups = {}
  <1>1. CASE state = None
    BY <1>1, NoStateTyped DEF Forget, NoState
  <1>2. CASE state # None
    BY <1>2 DEF Forget, Typed, DiskTyped, Maybe, State, Wrote
  <1>3. QED
    BY <1>1, <1>2

LEMMA PreserveDoes ==
  ASSUME Typed, There, Preserve
  PROVE  Wrote(state, state') /\ state'.run = state.run /\ state'.manifest = state.manifest
         /\ state'.preserved = config
  BY DEF Typed, DiskTyped, Maybe, There, Preserve, At, State, Wrote

LEMMA ClearDoes ==
  ASSUME Typed, Clear
  PROVE  /\ state' \in State /\ state'.run = None /\ state'.preserved = None
         /\ state'.manifest = None
         /\ state'.backups = IF state = None THEN {} ELSE state.backups
         /\ state # None /\ state.secrets => state'.secrets \/ held.state.secrets
  <1>1. CASE state = None
    BY <1>1, NoStateTyped DEF Clear, NoState
  <1>2. CASE state # None
    <2>1. state \in State
      BY <1>2 DEF Typed, DiskTyped, Maybe
    <2>2. state' = [NoState EXCEPT !.backups = state.backups,
                                   !.secrets = state.secrets /\ ~held.state.secrets]
      BY <1>2 DEF Clear
    <2>3. state.backups \in SUBSET (1 .. MaxArchive)
          /\ (state.secrets /\ ~held.state.secrets) \in BOOLEAN
      BY <2>1 DEF State
    <2>4. QED
      BY <1>2, <2>2, <2>3 DEF NoState, State, Maybe
  <1>3. QED
    BY <1>1, <1>2

LEMMA FillDoes ==
  ASSUME Typed, Handy, There, Fill
  PROVE  /\ state' \in State /\ held.state \in State
         /\ state'.run = held.state.run /\ state'.preserved = held.state.preserved
         /\ state'.manifest = held.state.manifest /\ state'.files = held.state.files
         /\ state'.backups = state.backups
         /\ state'.secrets = (held.state.secrets \/ state.secrets)
  <1>1. state \in State /\ held \in Archive /\ held.state # None
    BY DEF Fill, At, Typed, DiskTyped, LocalsTyped, Maybe, There, Handy, Restoring
  <1>2. held.state \in State
    BY <1>1 DEF Archive, Maybe
  <1>3. state' = [held.state EXCEPT !.backups = state.backups, !.secrets = @ \/ state.secrets]
    BY DEF Fill
  <1>4. state.backups \in SUBSET (1 .. MaxArchive)
        /\ (held.state.secrets \/ state.secrets) \in BOOLEAN
    BY <1>1, <1>2 DEF State
  <1>5. QED
    BY <1>2, <1>3, <1>4 DEF State

LEMMA UndoFillDoes ==
  ASSUME Typed, Handy, Stocked, UndoFill
  PROVE  /\ state' \in State /\ state'.backups = {}
         /\ IF check.state # None THEN state' = check.state ELSE state' = NoState
  <1>1. check \in Archive
    BY DEF UndoFill, At, Typed, LocalsTyped, Maybe, Handy, Checked, Undoing
  <1>2. check.state \in Maybe(State)
    BY <1>1 DEF Archive
  <1>3. check # None
    BY <1>1, NoneAssumption
  <1>4. QED
    BY <1>2, <1>3, NoStateTyped DEF UndoFill, Maybe, Stocked, NoState

LEMMA WorkDoes ==
  ASSUME Typed, Work
  PROVE  /\ Wrote(state, state') /\ SameRun(state, state') /\ state'.manifest = state.manifest
         /\ state'.files \in {state.files, running}
         /\ \/ db' = running /\ kept' = kept
            \/ db' = db /\ kept' = (kept \/ check = None) /\ state'.secrets
               /\ state'.files = state.files
  <1>1. state \in State /\ running \in Release
    BY DEF Work, Typed, DiskTyped, Maybe
  <1>2. CASE state' = [state EXCEPT !.files = running] /\ db' = running /\ UNCHANGED kept
    BY <1>1, <1>2 DEF State, Wrote, SameRun, Maybe
  <1>3. CASE /\ state' = [state EXCEPT !.secrets = TRUE]
             /\ kept' = (kept \/ check = None) /\ UNCHANGED db
    BY <1>1, <1>3 DEF State, Wrote, SameRun, Maybe
  <1>4. QED
    BY <1>2, <1>3 DEF Work

\* What it does not do.
LEMMA WorkLeaves ==
  ASSUME Work
  PROVE  /\ UNCHANGED <<config, releases, current, units, owned, running, pc, owner, torn, used>>
         /\ UNCHANGED <<archives, vault, nextId, command, rel, before, held, check>>
         /\ running # None /\ owned /\ state # None /\ db # None
  BY DEF Work, kit, locals

\* The actions that write the configuration.
LEMMA DirectoryIs ==
  ASSUME Typed
  PROVE  /\ Directory \in Config
         /\ IF config # None THEN Directory = config
            ELSE Directory.id = None /\ ~Directory.port /\ Directory.sha = None
  BY NoFilesTyped DEF Typed, DiskTyped, Maybe, Directory, NoFiles

LEMMA WriteConfigurationDoes ==
  ASSUME Typed, WriteConfiguration, Directory.id = None => nextId <= MaxId
  PROVE  /\ config' \in Config /\ config'.id \in Id /\ config'.id # None
         /\ config'.port = Directory.port /\ config'.sha = Directory.sha
         /\ config'.id = IF Directory.id = None THEN nextId ELSE Directory.id
         /\ owner' = IF owner = None THEN config'.id ELSE owner
         /\ nextId' \in 1 .. MaxId + 1
  <1>1. Directory \in Config /\ Directory.id \in Maybe(Id)
    BY DirectoryIs DEF Config
  <1>2. nextId \in 1 .. MaxId + 1 /\ MaxId \in Nat
    BY LifecycleAssumption DEF Typed, KitTyped
  <1>3. Directory.id = None => nextId \in Id
    BY <1>2 DEF Id
  <1>4. PICK x : x = IF Directory.id = None THEN nextId ELSE Directory.id
    OBVIOUS
  <1>5. x \in Id /\ x # None
    BY <1>1, <1>3, <1>4, NoneAssumption DEF Maybe
  <1>6. config' = [Directory EXCEPT !.id = x]
    BY <1>4 DEF WriteConfiguration
  <1>7. config' \in Config /\ config'.id = x /\ config'.port = Directory.port
        /\ config'.sha = Directory.sha
    BY <1>1, <1>5, <1>6 DEF Config, Maybe
  <1>8. nextId' \in 1 .. MaxId + 1
    BY <1>2 DEF WriteConfiguration
  <1>9. QED
    BY <1>4, <1>5, <1>7, <1>8 DEF WriteConfiguration

LEMMA CopyIdDoes ==
  ASSUME Typed, There, config = NoFiles, CopyId
  PROVE  /\ config' \in Config /\ config'.id = state.preserved.id
         /\ config' = [NoFiles EXCEPT !.id = state.preserved.id]
  <1>1. state.preserved \in Config
    BY DEF Typed, DiskTyped, Maybe, There, Copying, CopyId, At, State
  <1>2. QED
    BY <1>1, NoFilesTyped DEF CopyId, Config, NoFiles

LEMMA CopyPortDoes ==
  ASSUME Typed, There, CopyPort
  PROVE  /\ config' \in Config /\ config'.id = config.id /\ config'.sha = config.sha
         /\ config'.port = state.preserved.port /\ state.preserved \in Config
  <1>1. state.preserved \in Config /\ config \in Config
    BY DEF Typed, DiskTyped, Maybe, There, Copying, CopyPort, At, State
  <1>2. QED
    BY <1>1 DEF CopyPort, Config

LEMMA WritePortDoes ==
  ASSUME Typed, There, WritePort
  PROVE  /\ config' \in Config /\ config'.id = config.id /\ config'.sha = config.sha
         /\ config'.port
  BY DEF Typed, DiskTyped, Maybe, There, WritePort, At, Config

LEMMA WriteEnvFileDoes ==
  ASSUME Typed, Handy, There, WriteEnvFile
  PROVE  /\ config' \in Config /\ config'.id = config.id /\ config'.port = config.port
         /\ config'.sha # None
  <1>1. config \in Config /\ rel \in Release
    BY DEF Typed, DiskTyped, Maybe, Handy, There, Installing, Stepping, WriteEnvFile, At
  <1>2. QED
    BY <1>1, LifecycleAssumption DEF WriteEnvFile, Config, Maybe

LEMMA WriteEnvDoes ==
  ASSUME Typed, Handy, WriteEnv
  PROVE  /\ config' \in Config /\ config'.id = config.id /\ config'.port = config.port
         /\ config'.sha # None /\ config # None /\ config.sha # None
  <1>1. config \in Config /\ rel \in Release
    BY DEF Typed, DiskTyped, Maybe, Handy, Switching, WriteEnv, At
  <1>2. QED
    BY <1>1, LifecycleAssumption DEF WriteEnv, Config, Maybe

LEMMA RemoveSomeConfigDoes ==
  ASSUME Typed, RemoveSomeConfig
  PROVE  config' \in Maybe(Config)
  BY DEF Typed, DiskTyped, Maybe, RemoveSomeConfig, Config

\* The records that a command holds.
LEMMA HeldFields ==
  ASSUME NEW a \in Archive
  PROVE  /\ a.state \in Maybe(State) /\ a.config \in Maybe(Config) /\ a.db \in Db
         /\ a.id \in Maybe(Id) /\ a.secrets \in BOOLEAN
  BY DEF Archive

LEMMA InstanceIdTyped ==
  ASSUME Typed
  PROVE  InstanceId \in Maybe(Id)
  BY DEF Typed, DiskTyped, InstanceId, Maybe, Config, State

\* The actions that fill a record of a backup or a checkpoint.
LEMMA CopyStateDoes ==
  ASSUME Typed, Handy, There, CopyState
  PROVE  /\ held' \in Archive /\ held'.state \in State
         /\ held'.config = config /\ held'.id = InstanceId
         /\ held'.state.run = state.run /\ held'.state.preserved = state.preserved
         /\ held'.state.manifest = state.manifest /\ state \in State
  <1>1. state \in State /\ held \in Archive
    BY DEF Typed, DiskTyped, LocalsTyped, Maybe, Handy, There, Packing, CopyState, At
  <1>2. PICK t : t = [state EXCEPT !.backups = {}, !.secrets = @ /\ held.secrets]
    OBVIOUS
  <1>3. t \in State /\ t.run = state.run /\ t.preserved = state.preserved
        /\ t.manifest = state.manifest
    BY <1>1, <1>2, HeldFields DEF State
  <1>4. held' = [held EXCEPT !.state = t, !.config = config, !.id = InstanceId]
    BY <1>2 DEF CopyState
  <1>5. config \in Maybe(Config) /\ InstanceId \in Maybe(Id)
    BY InstanceIdTyped DEF Typed, DiskTyped
  <1>6. held' \in Archive /\ held'.state = t /\ held'.config = config /\ held'.id = InstanceId
    BY <1>1, <1>3, <1>4, <1>5 DEF Archive, Maybe
  <1>7. QED
    BY <1>1, <1>3, <1>6

LEMMA DumpDoes ==
  ASSUME Typed, Handy, Dump
  PROVE  /\ held' \in Archive /\ held'.state = held.state /\ held'.config = held.config
         /\ held'.id = held.id
  <1>1. held \in Archive /\ db \in Db
    BY DEF Typed, DiskTyped, LocalsTyped, Maybe, Handy, Packing, Dump, At
  <1>2. QED
    BY <1>1 DEF Dump, Archive

LEMMA CaptureDoes ==
  ASSUME Typed, Capture
  PROVE  /\ check' \in Archive /\ check'.config = config /\ check'.db = db
         /\ check'.id = InstanceId /\ db \in Db
         /\ IF state = None THEN check'.state = None
            ELSE /\ check'.state \in State /\ check'.state.run = state.run
                 /\ check'.state.preserved = state.preserved
                 /\ check'.state.manifest = state.manifest
                 /\ check'.state.backups = {} /\ check'.state.secrets = state.secrets
  <1>1. db \in Db /\ config \in Maybe(Config) /\ InstanceId \in Maybe(Id)
    BY InstanceIdTyped DEF Typed, DiskTyped, Maybe, Capture
  <1>2. PICK t : t = IF state = None THEN None ELSE [state EXCEPT !.backups = {}]
    OBVIOUS
  <1>3. IF state = None THEN t = None
        ELSE t \in State /\ t.run = state.run /\ t.preserved = state.preserved
             /\ t.manifest = state.manifest /\ t.backups = {} /\ t.secrets = state.secrets
    BY <1>2 DEF Typed, DiskTyped, Maybe, State
  <1>4. check' = [state |-> t, config |-> config, db |-> db, id |-> InstanceId, secrets |-> TRUE]
    BY <1>2 DEF Capture
  <1>5. check' \in Archive
    BY <1>1, <1>3, <1>4 DEF Archive, Maybe
  <1>6. /\ check'.config = config /\ check'.db = db /\ check'.id = InstanceId
        /\ check'.state = t
    BY <1>4
  <1>7. CASE state = None
    BY <1>1, <1>3, <1>5, <1>6, <1>7
  <1>8. CASE state # None
    BY <1>1, <1>3, <1>5, <1>6, <1>8
  <1>9. QED
    BY <1>7, <1>8

LEMMA StartedTyped ==
  ASSUME Typed
  PROVE  Started \in Maybe(Release)
  BY DEF Typed, DiskTyped, Started, Maybe

-----------------------------------------------------------------------------
(* Types.                                                                  *)

\* What happens out of the operator's control is counted.
LEMMA SpendTypes ==
  ASSUME HistoryTyped, Spend
  PROVE  used' \in 0 .. Limit
  BY LifecycleAssumption DEF HistoryTyped, Spend

\* What the steps of a plan do, apart from the records.
LEMMA PerformTypes ==
  ASSUME Typed, Handy, There, Fresh, At("step"), Left # {}, Perform(NextStep)
  PROVE  DiskTyped' /\ nextId' \in 1 .. MaxId + 1 /\ owner' \in Maybe(Id)
  <1> USE DEF Typed, DiskTyped, KitTyped, HistoryTyped
  <1>a. rel \in Release
    BY DEF Handy, Installing, Stepping, At
  <1>1. CASE CreateDirectories
    BY <1>1, DirectoryIs DEF CreateDirectories, Maybe
  <1>2. CASE StageRelease
    BY <1>2, <1>a DEF StageRelease, Maybe
  <1>3. CASE NextStep = "write_configuration" /\ WriteConfiguration
    <2>1. nextId <= MaxId
      BY <1>3, NextStepIsLeft DEF Fresh, At
    <2>2. QED
      BY <1>3, <2>1, WriteConfigurationDoes DEF WriteConfiguration, Maybe
  <1>4. CASE InstallUnits
    BY <1>4 DEF InstallUnits
  <1>5. CASE ProvisionDatabase
    BY <1>5 DEF ProvisionDatabase, Maybe, Db
  <1>6. CASE StartCoreServices
    BY <1>6, StartedTyped DEF StartCoreServices, disk
  <1>7. CASE FinalizeManifest
    BY <1>7, FinalizeDoes DEF FinalizeManifest, Wrote, Maybe
  <1>8. CASE UNCHANGED <<disk, running, nextId, owner>>
    BY <1>8 DEF disk
  <1>9. QED
    BY <1>1, <1>2, <1>3, <1>4, <1>5, <1>6, <1>7, <1>8 DEF Perform

LEMMA DiskTypes ==
  ASSUME Typed, Handy, There, Fresh, Stocked, Next
  PROVE  DiskTyped'
  <1> USE DEF Typed, DiskTyped, At, Plainly, Begin, End, Stopped, disk, kit, locals, history
  <1>1. CASE (\E r \in Release : Install(r)) \/ Refuse \/ Finish \/ StepFails \/ (\E s \in BOOLEAN :
            Backup(s)) \/ CopyState \/ Dump \/ BackupFails \/ (\E r \in Release : Update(r)) \/
            Probe \/ UpdateFails \/ (\E n \in 1 .. MaxArchive, replace \in BOOLEAN : Restore(n,
            replace)) \/ Capture \/ Check \/ Report \/ RestoreFails \/ CaptureFails \/ UndoFails \/
            Uninstall \/ Purge \/ Kill
    BY <1>1 DEF Install, Refuse, Finish, StepFails, Backup, CopyState, Dump, BackupFails, Update,
       Probe, UpdateFails, Restore, Capture, Check, Report, RestoreFails, CaptureFails, UndoFails,
       Uninstall, Purge, Kill
  <1>2. CASE Reboot \/ UndoStart \/ Restart \/ Start
    BY <1>2, StartedTyped DEF Reboot, UndoStart, Restart, Start
  <1>3. CASE Stop \/ Halt \/ PurgeStop
    BY <1>3 DEF Stop, Halt, PurgeStop, Maybe
  <1>4. CASE Prepare
    BY <1>4, NoFilesTyped DEF Prepare, Maybe
  <1>5. CASE CopyId
    <2>1. state.preserved \in Config /\ config \in Config
      BY <1>5 DEF CopyId, There, Copying, At, Maybe, State
    <2>2. config' \in Config
      BY <1>5, <2>1 DEF CopyId, Config
    <2>3. QED
      BY <1>5, <2>2 DEF CopyId, Maybe, Plainly
  <1>6. CASE CopyPort
    BY <1>6, CopyPortDoes DEF CopyPort, Maybe
  <1>7. CASE WritePort
    BY <1>7, WritePortDoes DEF WritePort, Maybe
  <1>8. CASE WriteEnvFile
    BY <1>8, WriteEnvFileDoes DEF WriteEnvFile, Maybe
  <1>9. CASE WriteEnv
    BY <1>9, WriteEnvDoes DEF WriteEnv, Maybe
  <1>10. CASE RemoveSomeConfig
    BY <1>10, RemoveSomeConfigDoes DEF RemoveSomeConfig
  <1>11. CASE DropConfig \/ UndoDropConfig \/ RemoveConfig \/ PurgeConfig
    BY <1>11 DEF DropConfig, UndoDropConfig, RemoveConfig, PurgeConfig, Maybe
  <1>12. CASE FillConfig
    BY <1>12, HeldFields DEF FillConfig, Handy, Restoring, Refilled, LocalsTyped, Maybe
  <1>13. CASE UndoFillConfig
    BY <1>13, HeldFields DEF UndoFillConfig, Handy, Checked, Undoing, LocalsTyped, Maybe
  <1>14. CASE LoadDatabase
    BY <1>14, HeldFields DEF LoadDatabase, Handy, Restoring, Refilled, LocalsTyped, Maybe
  <1>15. CASE UndoDatabase
    BY <1>15, HeldFields DEF UndoDatabase, Handy, Checked, Undoing, LocalsTyped, Maybe
  <1>16. CASE PurgeDatabase
    BY <1>16 DEF PurgeDatabase, Maybe
  <1>17. CASE ResetRun
    BY <1>17, ResetRunDoes DEF ResetRun, Wrote, Maybe
  <1>18. CASE Load
    BY <1>18, LoadDoes DEF Load, Maybe
  <1>19. CASE DoStep
    BY <1>19, PerformTypes DEF DoStep
  <1>20. CASE Record
    BY <1>20, RecordDoes DEF Record, Wrote, Maybe
  <1>21. CASE Pack
    <2>1. CASE UNCHANGED state
      BY <1>21, <2>1 DEF Pack
    <2>2. ASSUME NEW n \in 1 .. MaxArchive, state' = [state EXCEPT !.backups = @ \cup {n}]
          PROVE  DiskTyped'
      <3>1. state \in State
        BY <1>21 DEF Pack, At, There, Packing, Maybe
      <3>2. state' \in State
        BY <2>2, <3>1 DEF State
      <3>3. QED
        BY <1>21, <3>2 DEF Pack, Maybe
    <2>3. QED
      BY <1>21, <2>1, <2>2 DEF Pack
  <1>22. CASE Stage \/ CutOver
    BY <1>22 DEF Stage, CutOver, Handy, Switching, Maybe
  <1>23. CASE Revert
    BY <1>23 DEF Revert, LocalsTyped, Maybe
  <1>24. CASE WriteManifest
    BY <1>24, WriteManifestDoes DEF WriteManifest, Wrote, Maybe
  <1>25. CASE Clear
    BY <1>25, ClearDoes DEF Clear, Maybe
  <1>26. CASE Fill
    BY <1>26, FillDoes DEF Fill, Maybe
  <1>27. CASE UndoClear \/ PurgeState
    BY <1>27 DEF UndoClear, PurgeState, Maybe
  <1>28. CASE UndoFill
    BY <1>28, UndoFillDoes DEF UndoFill, Maybe
  <1>29. CASE Forget
    BY <1>29, ForgetDoes DEF Forget, Maybe
  <1>30. CASE Preserve
    BY <1>30, PreserveDoes DEF Preserve, Wrote, Maybe
  <1>31. CASE RemoveUnits \/ PurgeUnits \/ RemoveCode \/ PurgeCode
    BY <1>31 DEF RemoveUnits, PurgeUnits, RemoveCode, PurgeCode, Maybe
  <1>32. CASE Work
    BY <1>32, WorkDoes, WorkLeaves DEF Wrote, Maybe, Db
  <1>33. QED
    BY <1>1, <1>2, <1>3, <1>4, <1>5, <1>6, <1>7, <1>8, <1>9, <1>10, <1>11, <1>12, <1>13, <1>14,
       <1>15, <1>16, <1>17, <1>18, <1>19, <1>20, <1>21, <1>22, <1>23, <1>24, <1>25, <1>26, <1>27,
       <1>28, <1>29, <1>30, <1>31, <1>32 DEF Next, InstallNext, BackupNext, UpdateNext, RestoreNext,
       UndoNext, RemovalNext

LEMMA KitTypes ==
  ASSUME Typed, Handy, There, Fresh, Next
  PROVE  KitTyped'
  <1> USE DEF Typed, KitTyped, Plainly, Begin, End, Stopped, disk, kit, locals, history
  <1>1. CASE (\E r \in Release : Install(r)) \/ Prepare \/ CopyId \/ CopyPort \/ ResetRun \/ Load \/
            Refuse \/ WritePort \/ WriteEnvFile \/ Record \/ Finish \/ StepFails
    BY <1>1 DEF Install, Prepare, CopyId, CopyPort, ResetRun, Load, Refuse, WritePort, WriteEnvFile,
       Record, Finish, StepFails
  <1>2. CASE (\E s \in BOOLEAN : Backup(s)) \/ CopyState \/ Dump \/ BackupFails \/ (\E r \in Release
            : Update(r)) \/ Stage \/ CutOver \/ WriteEnv \/ WriteManifest \/ Restart \/ Probe \/
            UpdateFails
    BY <1>2 DEF Backup, CopyState, Dump, BackupFails, Update, Stage, CutOver, WriteEnv,
       WriteManifest, Restart, Probe, UpdateFails
  <1>3. CASE Revert \/ (\E n \in 1 .. MaxArchive, replace \in BOOLEAN : Restore(n, replace)) \/
            Capture \/ Stop \/ Clear \/ Fill \/ DropConfig \/ FillConfig \/ LoadDatabase \/ Start \/
            Check \/ Report
    BY <1>3 DEF Revert, Restore, Capture, Stop, Clear, Fill, DropConfig, FillConfig, LoadDatabase,
       Start, Check, Report
  <1>4. CASE RestoreFails \/ CaptureFails \/ UndoFill \/ UndoDropConfig \/ UndoFillConfig \/
            UndoDatabase \/ UndoStart \/ UndoFails \/ Uninstall \/ Forget \/ Preserve \/ Halt
    BY <1>4 DEF RestoreFails, CaptureFails, UndoFill, UndoDropConfig, UndoFillConfig, UndoDatabase,
       UndoStart, UndoFails, Uninstall, Forget, Preserve, Halt
  <1>5. CASE RemoveUnits \/ RemoveCode \/ RemoveSomeConfig \/ RemoveConfig \/ Purge \/ PurgeStop \/
            PurgeDatabase \/ PurgeUnits \/ PurgeConfig \/ PurgeCode \/ Work \/ Kill
    BY <1>5 DEF RemoveUnits, RemoveCode, RemoveSomeConfig, RemoveConfig, Purge, PurgeStop,
       PurgeDatabase, PurgeUnits, PurgeConfig, PurgeCode, Work, Kill
  <1>6. CASE Reboot
    BY <1>6 DEF Reboot
  <1>7. CASE DoStep
    BY <1>7, PerformTypes DEF DoStep
  <1>8. CASE Pack
    <2>1. held \in Archive
      BY <1>8 DEF Pack, At, Handy, Packing, LocalsTyped, Maybe
    <2>2. PICK n \in 1 .. MaxArchive : /\ archives' = [archives EXCEPT ![n] = held]
                                      /\ vault' \in {vault, vault \cup {n}}
      BY <1>8 DEF Pack
    <2>3. QED
      BY <1>8, <2>1, <2>2 DEF Pack, Maybe
  <1>9. CASE UndoClear \/ PurgeState
    BY <1>9 DEF UndoClear, PurgeState, Outside, Maybe
  <1>10. QED
    BY <1>1, <1>2, <1>3, <1>4, <1>5, <1>6, <1>7, <1>8, <1>9 DEF Next, InstallNext, BackupNext,
       UpdateNext, RestoreNext, UndoNext, RemovalNext

LEMMA LocalsTypes ==
  ASSUME Typed, Handy, There, Next
  PROVE  LocalsTyped'
  <1> USE DEF Typed, LocalsTyped, Maybe, Steps, At, Goto, Plainly, Begin, End, Stopped, disk, kit,
     locals, history
  <1>1. CASE Prepare \/ CopyId \/ CopyPort \/ ResetRun \/ Load \/ Refuse \/ DoStep \/ WritePort \/
            WriteEnvFile \/ Record
    BY <1>1 DEF Prepare, CopyId, CopyPort, ResetRun, Load, Refuse, DoStep, WritePort, WriteEnvFile,
       Record
  <1>2. CASE Finish \/ StepFails \/ BackupFails \/ Stage \/ CutOver \/ WriteEnv \/ WriteManifest \/
            Restart \/ Probe \/ UpdateFails
    BY <1>2 DEF Finish, StepFails, BackupFails, Stage, CutOver, WriteEnv, WriteManifest, Restart,
       Probe, UpdateFails
  <1>3. CASE Revert \/ Stop \/ Clear \/ Fill \/ DropConfig \/ FillConfig \/ LoadDatabase \/ Start \/
            Check \/ Report
    BY <1>3 DEF Revert, Stop, Clear, Fill, DropConfig, FillConfig, LoadDatabase, Start, Check,
       Report
  <1>4. CASE RestoreFails \/ CaptureFails \/ UndoClear \/ UndoFill \/ UndoDropConfig \/
            UndoFillConfig \/ UndoDatabase \/ UndoStart \/ UndoFails \/ Uninstall
    BY <1>4 DEF RestoreFails, CaptureFails, UndoClear, UndoFill, UndoDropConfig, UndoFillConfig,
       UndoDatabase, UndoStart, UndoFails, Uninstall
  <1>5. CASE Forget \/ Preserve \/ Halt \/ RemoveUnits \/ RemoveCode \/ RemoveSomeConfig \/
            RemoveConfig \/ Purge \/ PurgeStop \/ PurgeDatabase
    BY <1>5 DEF Forget, Preserve, Halt, RemoveUnits, RemoveCode, RemoveSomeConfig, RemoveConfig,
       Purge, PurgeStop, PurgeDatabase
  <1>6. CASE PurgeUnits \/ PurgeConfig \/ PurgeState \/ PurgeCode \/ Kill \/ Reboot
    BY <1>6 DEF PurgeUnits, PurgeConfig, PurgeState, PurgeCode, Kill, Reboot
  <1>7. CASE Work
    BY <1>7, WorkLeaves
  <1>8. CASE \E r \in Release : Install(r)
    BY <1>8 DEF Install
  <1>9. CASE \E s \in BOOLEAN : Backup(s)
    <2>1. PICK s \in BOOLEAN : Backup(s)
      BY <1>9
    <2>2. held' \in Archive
      BY <2>1 DEF Backup, Archive, Db
    <2>3. QED
      BY <2>1, <2>2 DEF Backup
  <1>10. CASE \E r \in Release : Update(r)
    <2>1. PICK r \in Release : Update(r)
      BY <1>10
    <2>2. held' \in Archive
      BY <2>1 DEF Update, Archive, Db
    <2>3. QED
      BY <2>1, <2>2 DEF Update, DiskTyped
  <1>11. CASE \E n \in 1 .. MaxArchive, replace \in BOOLEAN : Restore(n, replace)
    BY <1>11 DEF Restore, KitTyped
  <1>12. CASE CopyState
    BY <1>12, CopyStateDoes DEF CopyState
  <1>13. CASE Dump
    BY <1>13, DumpDoes DEF Dump
  <1>14. CASE Capture
    BY <1>14, CaptureDoes DEF Capture
  <1>15. CASE Pack
    BY <1>15 DEF Pack
  <1>16. QED
    BY <1>1, <1>2, <1>3, <1>4, <1>5, <1>6, <1>7, <1>8, <1>9, <1>10, <1>11, <1>12, <1>13, <1>14,
       <1>15 DEF Next, InstallNext, BackupNext, UpdateNext, RestoreNext, UndoNext, RemovalNext

LEMMA HistoryTypes ==
  ASSUME Typed, Handy, There, Fresh, Next
  PROVE  HistoryTyped'
  <1> USE DEF Typed, HistoryTyped, Plainly, Begin, End, Stopped, disk, kit, locals, history
  <1>1. CASE (\E r \in Release : Install(r)) \/ Prepare \/ CopyId \/ CopyPort \/ ResetRun \/ Load \/
            Refuse \/ WritePort \/ WriteEnvFile \/ Record \/ Finish \/ (\E s \in BOOLEAN :
            Backup(s))
    BY <1>1 DEF Install, Prepare, CopyId, CopyPort, ResetRun, Load, Refuse, WritePort, WriteEnvFile,
       Record, Finish, Backup
  <1>2. CASE CopyState \/ Dump \/ Pack \/ (\E r \in Release : Update(r)) \/ Stage \/ CutOver \/
            WriteEnv \/ WriteManifest \/ Restart \/ Probe \/ Revert \/ (\E n \in 1 .. MaxArchive,
            replace \in BOOLEAN : Restore(n, replace))
    BY <1>2 DEF CopyState, Dump, Pack, Update, Stage, CutOver, WriteEnv, WriteManifest, Restart,
       Probe, Revert, Restore
  <1>3. CASE Capture \/ Stop \/ Clear \/ Fill \/ DropConfig \/ FillConfig \/ LoadDatabase \/ Start
            \/ Check \/ UndoClear \/ UndoFill \/ UndoDropConfig
    BY <1>3 DEF Capture, Stop, Clear, Fill, DropConfig, FillConfig, LoadDatabase, Start, Check,
       UndoClear, UndoFill, UndoDropConfig
  <1>4. CASE UndoFillConfig \/ UndoDatabase \/ UndoStart \/ Uninstall \/ Forget \/ Preserve \/ Halt
            \/ RemoveUnits \/ RemoveCode \/ RemoveSomeConfig \/ RemoveConfig \/ Purge
    BY <1>4 DEF UndoFillConfig, UndoDatabase, UndoStart, Uninstall, Forget, Preserve, Halt,
       RemoveUnits, RemoveCode, RemoveSomeConfig, RemoveConfig, Purge
  <1>5. CASE PurgeStop \/ PurgeDatabase \/ PurgeUnits \/ PurgeConfig \/ PurgeState
    BY <1>5 DEF PurgeStop, PurgeDatabase, PurgeUnits, PurgeConfig, PurgeState
  <1>6. CASE StepFails \/ BackupFails \/ UpdateFails \/ RestoreFails \/ CaptureFails \/ UndoFails \/
            Kill \/ Reboot
    BY <1>6, SpendTypes DEF StepFails, BackupFails, UpdateFails, RestoreFails, CaptureFails,
       UndoFails, Kill, Reboot
  <1>7. CASE DoStep
    BY <1>7, PerformTypes DEF DoStep
  <1>8. CASE Report
    BY <1>8, HeldFields DEF Report, At, Handy, Restoring, Refilled, LocalsTyped, Maybe
  <1>9. CASE PurgeCode
    BY <1>9 DEF PurgeCode, Maybe
  <1>10. CASE Work
    BY <1>10, WorkDoes, WorkLeaves
  <1>11. QED
    BY <1>1, <1>2, <1>3, <1>4, <1>5, <1>6, <1>7, <1>8, <1>9, <1>10 DEF Next, InstallNext,
       BackupNext, UpdateNext, RestoreNext, UndoNext, RemovalNext

-----------------------------------------------------------------------------
(* What a command has in hand, and finds on the disk.                      *)

\* The steps of a plan write the state only to finalize the manifest.
LEMMA PerformEffects ==
  ASSUME Perform(NextStep), ~FinalizeManifest
  PROVE  UNCHANGED state
  BY DEF Perform, CreateDirectories, StageRelease, WriteConfiguration, InstallUnits,
         ProvisionDatabase, StartCoreServices, disk

LEMMA DoStepDoes ==
  ASSUME Typed, Handy, There, DoStep
  PROVE  /\ At("step") /\ Left # {} /\ state # None /\ state.run # None
         /\ pc' = IF NextStep = "write_configuration" THEN "port" ELSE "record"
         /\ state' # None /\ state'.run = state.run /\ state'.preserved = state.preserved
         /\ (state.manifest # None => state'.manifest # None) /\ Wrote(state, state')
         /\ Left' = Left /\ NextStep' = NextStep
  <1>1. At("step") /\ Left # {} /\ Perform(NextStep) /\ state \in State /\ state.run # None
    BY DEF DoStep, There, Stepping, Typed, DiskTyped, Maybe, At
  <1>2. state' \in State /\ SameRun(state, state') /\ Wrote(state, state')
        /\ (state.manifest # None => state'.manifest # None)
    <2>1. CASE FinalizeManifest
      BY <1>1, <2>1, FinalizeDoes DEF Wrote
    <2>2. CASE UNCHANGED state
      BY <1>1, <2>2 DEF Wrote, SameRun
    <2>3. QED
      BY <1>1, <2>1, <2>2, PerformEffects
  <1>3. Left' = Left
    BY <1>2 DEF Left, SameRun
  <1>4. NextStep' = NextStep
    BY <1>3 DEF NextStep
  <1>5. QED
    BY <1>1, <1>2, <1>3, <1>4, NoneAssumption DEF DoStep, Goto, SameRun

LEMMA WorkRuns ==
  ASSUME Typed, Work
  PROVE  /\ state' # None /\ state'.run = state.run /\ state'.preserved = state.preserved
         /\ state'.manifest = state.manifest /\ Left' = Left /\ NextStep' = NextStep
  <1>1. state' # None /\ state'.preserved = state.preserved /\ state'.run = state.run
        /\ state'.manifest = state.manifest
    BY WorkDoes, NoneAssumption DEF SameRun, Wrote
  <1>2. Left' = Left
    BY <1>1 DEF Left
  <1>3. NextStep' = NextStep
    BY <1>2 DEF NextStep
  <1>4. QED
    BY <1>1, <1>2, <1>3

\* Each command keeps in hand what its next steps use.
LEMMA HandyStep ==
  ASSUME Typed, Handy, There, Stocked, Next
  PROVE  Handy'
  <1> USE DEF Handy, At, Goto, Plainly, Begin, End, Stopped, disk, kit, locals, history, Installing,
     Copying, Stepping, Packing, Switching, Restoring, Refilled, Checked, Undoing
  <1>1. CASE (\E r \in Release : Install(r)) \/ Prepare \/ CopyId \/ CopyPort \/ ResetRun \/ Load \/
            Refuse \/ WritePort
    BY <1>1 DEF Install, Prepare, CopyId, CopyPort, ResetRun, Load, Refuse, WritePort
  <1>2. CASE WriteEnvFile \/ Record \/ Finish \/ StepFails \/ Pack \/ BackupFails \/ Stage \/
            CutOver
    BY <1>2 DEF WriteEnvFile, Record, Finish, StepFails, Pack, BackupFails, Stage, CutOver
  <1>3. CASE WriteEnv \/ WriteManifest \/ Restart \/ Probe \/ UpdateFails \/ Revert \/ Stop \/ Clear
    BY <1>3 DEF WriteEnv, WriteManifest, Restart, Probe, UpdateFails, Revert, Stop, Clear
  <1>4. CASE Fill \/ DropConfig \/ FillConfig \/ LoadDatabase \/ Start \/ Check \/ Report \/
            RestoreFails
    BY <1>4 DEF Fill, DropConfig, FillConfig, LoadDatabase, Start, Check, Report, RestoreFails
  <1>5. CASE CaptureFails \/ UndoClear \/ UndoFill \/ UndoDropConfig \/ UndoFillConfig \/
            UndoDatabase \/ UndoStart \/ UndoFails
    BY <1>5 DEF CaptureFails, UndoClear, UndoFill, UndoDropConfig, UndoFillConfig, UndoDatabase,
       UndoStart, UndoFails
  <1>6. CASE Uninstall \/ Forget \/ Preserve \/ Halt \/ RemoveUnits \/ RemoveCode \/
            RemoveSomeConfig \/ RemoveConfig
    BY <1>6 DEF Uninstall, Forget, Preserve, Halt, RemoveUnits, RemoveCode, RemoveSomeConfig,
       RemoveConfig
  <1>7. CASE Purge \/ PurgeStop \/ PurgeDatabase \/ PurgeUnits \/ PurgeConfig \/ PurgeState \/
            PurgeCode \/ Kill
    BY <1>7 DEF Purge, PurgeStop, PurgeDatabase, PurgeUnits, PurgeConfig, PurgeState, PurgeCode,
       Kill
  <1>8. CASE Reboot
    BY <1>8 DEF Reboot
  <1>9. CASE DoStep
    BY <1>9 DEF DoStep
  <1>10. CASE Work
    BY <1>10, WorkLeaves
  <1>11. CASE \E s \in BOOLEAN : Backup(s)
    <2>1. PICK s \in BOOLEAN : Backup(s)
      BY <1>11
    <2>2. held' \in Archive
      BY <2>1 DEF Backup, Archive, Maybe, Db
    <2>3. QED
      BY <2>1, <2>2, NoneAssumption DEF Backup
  <1>12. CASE \E r \in Release : Update(r)
    <2>1. PICK r \in Release : Update(r)
      BY <1>12
    <2>2. held' \in Archive
      BY <2>1 DEF Update, Archive, Maybe, Db
    <2>3. QED
      BY <2>1, <2>2, NoneAssumption DEF Update
  <1>13. CASE \E n \in 1 .. MaxArchive, replace \in BOOLEAN : Restore(n, replace)
    BY <1>13 DEF Restore, Stocked
  <1>14. CASE CopyState
    BY <1>14, CopyStateDoes, NoneAssumption DEF CopyState
  <1>15. CASE Dump
    BY <1>15, DumpDoes, NoneAssumption DEF Dump
  <1>16. CASE Capture
    BY <1>16, CaptureDoes, NoneAssumption DEF Capture
  <1>17. QED
    BY <1>1, <1>2, <1>3, <1>4, <1>5, <1>6, <1>7, <1>8, <1>9, <1>10, <1>11, <1>12, <1>13, <1>14,
       <1>15, <1>16 DEF Next, InstallNext, BackupNext, UpdateNext, RestoreNext, UndoNext,
       RemovalNext

\* Each step leaves on the disk what the next one reads.
LEMMA ThereStep ==
  ASSUME Typed, Handy, There, Fresh, Stocked, Next
  PROVE  There'
  <1> USE DEF There, At, Goto, Plainly, Begin, End, Stopped, disk, kit, locals, history, Installing,
     Copying, Stepping, Packing, Switching, Restoring, Refilled, Checked, Undoing
  <1>1. CASE (\E r \in Release : Install(r)) \/ Refuse \/ Finish \/ StepFails \/ CopyState \/ Dump
            \/ BackupFails \/ Stage
    BY <1>1 DEF Install, Refuse, Finish, StepFails, CopyState, Dump, BackupFails, Stage
  <1>2. CASE CutOver \/ WriteEnv \/ Restart \/ Probe \/ UpdateFails \/ Revert \/ (\E n \in 1 ..
            MaxArchive, replace \in BOOLEAN : Restore(n, replace)) \/ Capture
    BY <1>2 DEF CutOver, WriteEnv, Restart, Probe, UpdateFails, Revert, Restore, Capture
  <1>3. CASE Stop \/ DropConfig \/ FillConfig \/ LoadDatabase \/ Start \/ Check \/ Report \/
            RestoreFails
    BY <1>3 DEF Stop, DropConfig, FillConfig, LoadDatabase, Start, Check, Report, RestoreFails
  <1>4. CASE CaptureFails \/ UndoClear \/ UndoDropConfig \/ UndoFillConfig \/ UndoDatabase \/
            UndoStart \/ UndoFails \/ Halt
    BY <1>4 DEF CaptureFails, UndoClear, UndoDropConfig, UndoFillConfig, UndoDatabase, UndoStart,
       UndoFails, Halt
  <1>5. CASE RemoveUnits \/ RemoveCode \/ RemoveSomeConfig \/ RemoveConfig \/ Purge \/ PurgeStop \/
            PurgeDatabase \/ PurgeUnits
    BY <1>5 DEF RemoveUnits, RemoveCode, RemoveSomeConfig, RemoveConfig, Purge, PurgeStop,
       PurgeDatabase, PurgeUnits
  <1>6. CASE PurgeConfig \/ PurgeState \/ PurgeCode \/ Kill \/ Reboot
    BY <1>6 DEF PurgeConfig, PurgeState, PurgeCode, Kill, Reboot
  <1>7. CASE Prepare
    BY <1>7, NoFilesTyped, NoneAssumption DEF Prepare
  <1>8. CASE CopyId
    <2>1. config \in Config /\ state.preserved \in Config
      BY <1>8 DEF CopyId, Typed, DiskTyped, Maybe, State
    <2>2. config' \in Config
      BY <1>8, <2>1 DEF CopyId, Config
    <2>3. QED
      BY <1>8, <2>2, NoneAssumption DEF CopyId
  <1>9. CASE CopyPort
    BY <1>9, CopyPortDoes, NoneAssumption DEF CopyPort
  <1>10. CASE ResetRun
    BY <1>10, ResetRunDoes, NoneAssumption DEF ResetRun, Wrote
  <1>11. CASE Load
    BY <1>11, LoadDoes, NoneAssumption DEF Load
  <1>12. CASE WritePort
    BY <1>12, WritePortDoes, NoneAssumption DEF WritePort, Left, NextStep
  <1>13. CASE WriteEnvFile
    BY <1>13, WriteEnvFileDoes DEF WriteEnvFile, Left, NextStep
  <1>14. CASE Record
    BY <1>14, RecordDoes, NoneAssumption DEF Record, Wrote
  <1>15. CASE DoStep
    <2>1. CASE NextStep = "write_configuration"
      <3>1. WriteConfiguration
        BY <1>15, <2>1 DEF DoStep, Perform
      <3>2. nextId <= MaxId
        BY <1>15, <2>1, NextStepIsLeft DEF DoStep, Fresh
      <3>3. config' # None
        BY <3>1, <3>2, WriteConfigurationDoes, NoneAssumption
      <3>4. QED
        BY <1>15, <2>1, <3>3, DoStepDoes
    <2>2. CASE NextStep # "write_configuration"
      BY <1>15, <2>2, DoStepDoes
    <2>3. QED
      BY <2>1, <2>2
  <1>16. CASE (\E s \in BOOLEAN : Backup(s)) \/ (\E r \in Release : Update(r))
    BY <1>16 DEF Backup, Update, Installed
  <1>17. CASE Uninstall
    BY <1>17 DEF Uninstall
  <1>18. CASE Pack
    <2>1. state \in State
      BY <1>18 DEF Pack, Typed, DiskTyped, Maybe
    <2>2. state' \in State
      BY <1>18, <2>1 DEF Pack, State
    <2>3. QED
      BY <1>18, <2>2, NoneAssumption DEF Pack
  <1>19. CASE WriteManifest
    BY <1>19, WriteManifestDoes, NoneAssumption DEF WriteManifest, Wrote
  <1>20. CASE Forget
    BY <1>20, ForgetDoes, NoneAssumption DEF Forget
  <1>21. CASE Preserve
    BY <1>21, PreserveDoes, NoneAssumption DEF Preserve, Wrote
  <1>22. CASE Clear
    BY <1>22, ClearDoes, NoneAssumption DEF Clear
  <1>23. CASE Fill
    BY <1>23, FillDoes, NoneAssumption DEF Fill
  <1>24. CASE UndoFill
    BY <1>24 DEF UndoFill
  <1>25. CASE Work
    BY <1>25, WorkRuns, WorkLeaves
  <1>26. QED
    BY <1>1, <1>2, <1>3, <1>4, <1>5, <1>6, <1>7, <1>8, <1>9, <1>10, <1>11, <1>12, <1>13, <1>14,
       <1>15, <1>16, <1>17, <1>18, <1>19, <1>20, <1>21, <1>22, <1>23, <1>24, <1>25 DEF Next,
       InstallNext, BackupNext, UpdateNext, RestoreNext, UndoNext, RemovalNext

\* The next id stays within its bound.
LEMMA FreshStep ==
  ASSUME Typed, Handy, There, Fresh, Next
  PROVE  Fresh'
  <1> USE DEF Fresh, At, Goto, Plainly, Begin, End, Stopped, disk, kit, locals, history, Installing,
     Copying, Stepping, Packing, Switching, Restoring, Refilled, Checked, Undoing
  <1>1. CASE Prepare \/ CopyId \/ CopyPort \/ ResetRun \/ Refuse \/ Finish \/ StepFails \/ (\E s \in
            BOOLEAN : Backup(s))
    BY <1>1 DEF Prepare, CopyId, CopyPort, ResetRun, Refuse, Finish, StepFails, Backup
  <1>2. CASE CopyState \/ Dump \/ Pack \/ BackupFails \/ (\E r \in Release : Update(r)) \/ Stage \/
            CutOver \/ WriteEnv
    BY <1>2 DEF CopyState, Dump, Pack, BackupFails, Update, Stage, CutOver, WriteEnv
  <1>3. CASE WriteManifest \/ Restart \/ Probe \/ UpdateFails \/ Revert \/ (\E n \in 1 ..
            MaxArchive, replace \in BOOLEAN : Restore(n, replace)) \/ Capture \/ Stop
    BY <1>3 DEF WriteManifest, Restart, Probe, UpdateFails, Revert, Restore, Capture, Stop
  <1>4. CASE Clear \/ Fill \/ DropConfig \/ FillConfig \/ LoadDatabase \/ Start \/ Check \/ Report
    BY <1>4 DEF Clear, Fill, DropConfig, FillConfig, LoadDatabase, Start, Check, Report
  <1>5. CASE RestoreFails \/ CaptureFails \/ UndoClear \/ UndoFill \/ UndoDropConfig \/
            UndoFillConfig \/ UndoDatabase \/ UndoStart
    BY <1>5 DEF RestoreFails, CaptureFails, UndoClear, UndoFill, UndoDropConfig, UndoFillConfig,
       UndoDatabase, UndoStart
  <1>6. CASE UndoFails \/ Uninstall \/ Forget \/ Preserve \/ Halt \/ RemoveUnits \/ RemoveCode \/
            RemoveSomeConfig
    BY <1>6 DEF UndoFails, Uninstall, Forget, Preserve, Halt, RemoveUnits, RemoveCode,
       RemoveSomeConfig
  <1>7. CASE RemoveConfig \/ Purge \/ PurgeStop \/ PurgeDatabase \/ PurgeUnits \/ PurgeConfig \/
            PurgeState \/ PurgeCode
    BY <1>7 DEF RemoveConfig, Purge, PurgeStop, PurgeDatabase, PurgeUnits, PurgeConfig, PurgeState,
       PurgeCode
  <1>8. CASE Kill \/ Reboot
    BY <1>8 DEF Kill, Reboot
  <1>9. CASE \E r \in Release : Install(r)
    BY <1>9 DEF Install
  <1>10. CASE Load
    BY <1>10 DEF Load
  <1>11. CASE WritePort
    BY <1>11 DEF WritePort
  <1>12. CASE WriteEnvFile
    <2>1. NextStep = "write_configuration" /\ state' = state /\ pc' = "record"
      BY <1>12 DEF WriteEnvFile, There
    <2>2. NextStep' = NextStep
      BY <2>1 DEF NextStep, Left
    <2>3. QED
      BY <2>1, <2>2
  <1>13. CASE DoStep
    <2>1. CASE NextStep = "write_configuration"
      BY <1>13, <2>1, DoStepDoes
    <2>2. CASE NextStep # "write_configuration"
      <3>1. nextId' = nextId
        BY <1>13, <2>2 DEF DoStep, Perform, CreateDirectories, StageRelease, InstallUnits,
           ProvisionDatabase, StartCoreServices, FinalizeManifest
      <3>2. QED
        BY <1>13, <2>2, <3>1, DoStepDoes
    <2>3. QED
      BY <2>1, <2>2
  <1>14. CASE Record
    <2>1. pc = "record" /\ pc' = "step" /\ nextId' = nextId
      BY <1>14 DEF Record
    <2>2. "write_configuration" \in Left'
             => "write_configuration" \in Left /\ NextStep # "write_configuration"
      BY <1>14, RecordDoes DEF Left
    <2>3. QED
      BY <2>1, <2>2
  <1>15. CASE Work
    BY <1>15, WorkRuns, WorkLeaves
  <1>16. QED
    BY <1>1, <1>2, <1>3, <1>4, <1>5, <1>6, <1>7, <1>8, <1>9, <1>10, <1>11, <1>12, <1>13, <1>14,
       <1>15 DEF Next, InstallNext, BackupNext, UpdateNext, RestoreNext, UndoNext, RemovalNext

\* Backups do not get lost where they are kept, unless the place itself does.
LEMMA StillStocked ==
  ASSUME Stocked, UNCHANGED <<archives, vault>>, check' \in {None, check},
         \/ state' = state \/ state' = None
         \/ state # None /\ state'.backups = state.backups
         \/ state'.backups = {}
  PROVE  Stocked'
  BY DEF Stocked, Stored

LEMMA StockedStep ==
  ASSUME Typed, Handy, There, Stocked, Next
  PROVE  Stocked'
  <1> USE DEF At, Plainly, Begin, End, Stopped, disk, kit, locals, history
  <1>1. CASE (\E r \in Release : Install(r)) \/ Prepare \/ CopyId \/ CopyPort \/ Refuse \/ WritePort
            \/ WriteEnvFile \/ Finish
    BY <1>1, StillStocked DEF Install, Prepare, CopyId, CopyPort, Refuse, WritePort, WriteEnvFile,
       Finish
  <1>2. CASE StepFails \/ (\E s \in BOOLEAN : Backup(s)) \/ CopyState \/ Dump \/ BackupFails \/ (\E
            r \in Release : Update(r)) \/ Stage \/ CutOver
    BY <1>2, StillStocked DEF StepFails, Backup, CopyState, Dump, BackupFails, Update, Stage,
       CutOver
  <1>3. CASE WriteEnv \/ Restart \/ Probe \/ UpdateFails \/ Revert \/ (\E n \in 1 .. MaxArchive,
            replace \in BOOLEAN : Restore(n, replace)) \/ Stop \/ DropConfig
    BY <1>3, StillStocked DEF WriteEnv, Restart, Probe, UpdateFails, Revert, Restore, Stop,
       DropConfig
  <1>4. CASE FillConfig \/ LoadDatabase \/ Start \/ Check \/ Report \/ RestoreFails \/ CaptureFails
            \/ UndoDropConfig
    BY <1>4, StillStocked DEF FillConfig, LoadDatabase, Start, Check, Report, RestoreFails,
       CaptureFails, UndoDropConfig
  <1>5. CASE UndoFillConfig \/ UndoDatabase \/ UndoStart \/ UndoFails \/ Uninstall \/ Halt \/
            RemoveUnits \/ RemoveCode
    BY <1>5, StillStocked DEF UndoFillConfig, UndoDatabase, UndoStart, UndoFails, Uninstall, Halt,
       RemoveUnits, RemoveCode
  <1>6. CASE RemoveSomeConfig \/ RemoveConfig \/ Purge \/ PurgeStop \/ PurgeDatabase \/ PurgeUnits
            \/ PurgeConfig \/ PurgeCode
    BY <1>6, StillStocked DEF RemoveSomeConfig, RemoveConfig, Purge, PurgeStop, PurgeDatabase,
       PurgeUnits, PurgeConfig, PurgeCode
  <1>7. CASE Kill \/ Reboot
    BY <1>7, StillStocked DEF Kill, Reboot
  <1>8. CASE ResetRun
    BY <1>8, StillStocked, ResetRunDoes DEF ResetRun, There, Wrote
  <1>9. CASE Load
    BY <1>9, StillStocked, LoadDoes DEF Load, Wrote
  <1>10. CASE Record
    BY <1>10, StillStocked, RecordDoes DEF Record, There, Stepping, Wrote
  <1>11. CASE WriteManifest
    BY <1>11, StillStocked, WriteManifestDoes DEF WriteManifest, There, Wrote
  <1>12. CASE Forget
    BY <1>12, StillStocked, ForgetDoes DEF Forget, Wrote
  <1>13. CASE Preserve
    BY <1>13, StillStocked, PreserveDoes DEF Preserve, There, Wrote
  <1>14. CASE Clear
    BY <1>14, StillStocked, ClearDoes DEF Clear
  <1>15. CASE Fill
    BY <1>15, StillStocked, FillDoes DEF Fill, There
  <1>16. CASE UndoFill
    BY <1>16, StillStocked, UndoFillDoes DEF UndoFill
  <1>17. CASE DoStep
    BY <1>17, StillStocked, DoStepDoes DEF DoStep, Wrote
  <1>18. CASE Work
    BY <1>18, WorkDoes, WorkLeaves, StillStocked DEF Wrote
  <1>19. CASE Capture
    <2>1. check' # None /\ check'.state # None => check'.state.backups = {}
      BY <1>19, CaptureDoes
    <2>2. UNCHANGED <<archives, vault, state>>
      BY <1>19 DEF Capture
    <2>3. QED
      BY <2>1, <2>2 DEF Stocked, Stored
  <1>20. CASE UndoClear \/ PurgeState
    <2>1. state' = None /\ archives' = Outside /\ UNCHANGED <<vault, check>>
      BY <1>20 DEF UndoClear, PurgeState
    <2>2. QED
      BY <2>1 DEF Stocked, Stored, Outside, Typed, KitTyped
  <1>21. CASE Pack
    <2>1. held \in Archive /\ held # None /\ held.state # None /\ state \in State
      BY <1>21 DEF Pack, Handy, There, Packing, Typed, DiskTyped, LocalsTyped, Maybe
    <2>2. PICK n \in (1 .. MaxArchive) \ Stored :
            /\ archives' = [archives EXCEPT ![n] = held]
            /\ \/ state' = [state EXCEPT !.backups = @ \cup {n}] /\ vault' = vault
               \/ state' = state /\ vault' = vault \cup {n}
      BY <1>21 DEF Pack
    <2>3. archives'[n] = held /\ \A m \in 1 .. MaxArchive : m # n => archives'[m] = archives[m]
      BY <2>2 DEF Typed, KitTyped
    <2>4. Stored = vault \cup state.backups /\ Stored \subseteq 1 .. MaxArchive
      BY <2>1, NoneAssumption DEF Stored, Typed, KitTyped, State
    <2>5. Stored' \subseteq Stored \cup {n}
      <3>1. CASE state' = [state EXCEPT !.backups = @ \cup {n}] /\ vault' = vault
        <4>1. state'.backups = state.backups \cup {n}
          BY <2>1, <3>1 DEF State
        <4>2. QED
          BY <2>4, <3>1, <4>1 DEF Stored
      <3>2. CASE state' = state /\ vault' = vault \cup {n}
        BY <2>4, <3>2 DEF Stored
      <3>3. QED
        BY <2>2, <3>1, <3>2
    <2>6. check' \in {None, check}
      BY <1>21 DEF Pack
    <2>7. QED
      BY <2>1, <2>2, <2>3, <2>4, <2>5, <2>6 DEF Stocked
  <1>22. QED
    BY <1>1, <1>2, <1>3, <1>4, <1>5, <1>6, <1>7, <1>8, <1>9, <1>10, <1>11, <1>12, <1>13, <1>14,
       <1>15, <1>16, <1>17, <1>18, <1>19, <1>20, <1>21 DEF Next, InstallNext, BackupNext,
       UpdateNext, RestoreNext, UndoNext, RemovalNext

-----------------------------------------------------------------------------
(* The services.                                                           *)

LEMMA StartedServes ==
  ASSUME Typed
  PROVE  Started # None => units /\ current # None /\ Started = current
  BY DEF Started, CanStart

LEMMA StartedStays ==
  ASSUME UNCHANGED <<config, units, current>>
  PROVE  Started' = Started
  BY DEF Started, CanStart

\* Services are stopped before what they need is taken away.
LEMMA ServingStep ==
  ASSUME Typed, Handy, Serving, Next
  PROVE  Serving'
  <1> USE DEF Serving, Silent, Quiet, Stripped, At, Goto, Plainly, Begin, End, Stopped, disk, kit,
     locals, history, Installing, Copying, Stepping, Packing, Switching, Restoring, Refilled,
     Checked, Undoing
  <1>1. CASE (\E r \in Release : Install(r)) \/ Prepare \/ CopyId \/ CopyPort \/ ResetRun \/ Load \/
            Refuse \/ WritePort
    BY <1>1 DEF Install, Prepare, CopyId, CopyPort, ResetRun, Load, Refuse, WritePort
  <1>2. CASE WriteEnvFile \/ Record \/ Finish \/ StepFails \/ (\E s \in BOOLEAN : Backup(s)) \/
            CopyState \/ Dump \/ Pack
    BY <1>2 DEF WriteEnvFile, Record, Finish, StepFails, Backup, CopyState, Dump, Pack
  <1>3. CASE BackupFails \/ WriteEnv \/ WriteManifest \/ Probe \/ UpdateFails \/ (\E n \in 1 ..
            MaxArchive, replace \in BOOLEAN : Restore(n, replace)) \/ Capture \/ Clear
    BY <1>3 DEF BackupFails, WriteEnv, WriteManifest, Probe, UpdateFails, Restore, Capture, Clear
  <1>4. CASE Fill \/ DropConfig \/ FillConfig \/ LoadDatabase \/ Report \/ RestoreFails \/
            CaptureFails \/ UndoClear
    BY <1>4 DEF Fill, DropConfig, FillConfig, LoadDatabase, Report, RestoreFails, CaptureFails,
       UndoClear
  <1>5. CASE UndoFill \/ UndoDropConfig \/ UndoFillConfig \/ UndoDatabase \/ UndoFails \/ Uninstall
            \/ Forget \/ Preserve
    BY <1>5 DEF UndoFill, UndoDropConfig, UndoFillConfig, UndoDatabase, UndoFails, Uninstall,
       Forget, Preserve
  <1>6. CASE Stop \/ Halt \/ PurgeStop
    BY <1>6 DEF Stop, Halt, PurgeStop
  <1>7. CASE Start
    BY <1>7, StartedServes, StartedStays DEF Start
  <1>8. CASE Restart \/ UndoStart
    BY <1>8, StartedServes DEF Restart, UndoStart
  <1>9. CASE Reboot
    BY <1>9, StartedServes DEF Reboot
  <1>10. CASE Kill
    BY <1>10 DEF Kill
  <1>11. CASE Check
    BY <1>11, StartedStays DEF Check
  <1>12. CASE (\E r \in Release : Update(r)) \/ Stage \/ CutOver
    BY <1>12, LifecycleAssumption DEF Update, Stage, CutOver, Typed, DiskTyped, LocalsTyped, Maybe,
       Handy
  <1>13. CASE Revert
    BY <1>13, LifecycleAssumption DEF Revert, Typed, DiskTyped
  <1>14. CASE RemoveUnits
    BY <1>14 DEF RemoveUnits
  <1>15. CASE RemoveCode
    BY <1>15 DEF RemoveCode
  <1>16. CASE PurgeUnits
    BY <1>16 DEF PurgeUnits
  <1>17. CASE PurgeCode
    BY <1>17 DEF PurgeCode
  <1>18. CASE RemoveSomeConfig
    BY <1>18 DEF RemoveSomeConfig
  <1>19. CASE RemoveConfig
    BY <1>19 DEF RemoveConfig
  <1>20. CASE Purge
    BY <1>20 DEF Purge
  <1>21. CASE PurgeDatabase
    BY <1>21 DEF PurgeDatabase
  <1>22. CASE PurgeConfig
    BY <1>22 DEF PurgeConfig
  <1>23. CASE PurgeState
    BY <1>23 DEF PurgeState
  <1>24. CASE DoStep
    <2>1. At("step") /\ Perform(NextStep) /\ pc' \in {"port", "record"} /\ rel # None
      BY <1>24, LifecycleAssumption DEF DoStep, Handy, Typed, LocalsTyped
    <2>2. /\ running' # None => units' /\ current' # None
          /\ current' # None => current' \in releases'
      BY <2>1, StartedServes
         DEF Perform, CreateDirectories, StageRelease, WriteConfiguration, InstallUnits,
         ProvisionDatabase, StartCoreServices, FinalizeManifest
    <2>3. QED
      BY <2>1, <2>2
  <1>25. CASE Work
    BY <1>25, WorkLeaves, StartedStays
  <1>26. QED
    BY <1>1, <1>2, <1>3, <1>4, <1>5, <1>6, <1>7, <1>8, <1>9, <1>10, <1>11, <1>12, <1>13, <1>14,
       <1>15, <1>16, <1>17, <1>18, <1>19, <1>20, <1>21, <1>22, <1>23, <1>24, <1>25 DEF Next,
       InstallNext, BackupNext, UpdateNext, RestoreNext, UndoNext, RemovalNext

-----------------------------------------------------------------------------
(* What a restore brings back.                                             *)

\* No step of a restore takes back what an earlier one has brought.
LEMMA RestoredStep ==
  ASSUME Typed, Handy, There, Stocked, Serving, Restored, Next
  PROVE  Restored'
  <1> USE DEF Restored, At, Goto, Plainly, Begin, End, Stopped, disk, kit, locals, history,
     Installing, Copying, Stepping, Packing, Switching, Restoring, Refilled, Checked, Undoing
  <1>1. CASE (\E r \in Release : Install(r)) \/ Refuse \/ Finish \/ StepFails \/ (\E s \in BOOLEAN :
            Backup(s)) \/ BackupFails \/ (\E r \in Release : Update(r)) \/ Stage
    BY <1>1 DEF Install, Refuse, Finish, StepFails, Backup, BackupFails, Update, Stage
  <1>2. CASE CutOver \/ Restart \/ Probe \/ UpdateFails \/ Revert \/ (\E n \in 1 .. MaxArchive,
            replace \in BOOLEAN : Restore(n, replace)) \/ Report \/ CaptureFails
    BY <1>2 DEF CutOver, Restart, Probe, UpdateFails, Revert, Restore, Report, CaptureFails
  <1>3. CASE UndoStart \/ UndoFails \/ Uninstall \/ Halt \/ RemoveUnits \/ RemoveCode \/
            RemoveConfig \/ Purge
    BY <1>3 DEF UndoStart, UndoFails, Uninstall, Halt, RemoveUnits, RemoveCode, RemoveConfig, Purge
  <1>4. CASE PurgeStop \/ PurgeDatabase \/ PurgeUnits \/ PurgeConfig \/ PurgeState \/ PurgeCode \/
            Kill \/ Reboot
    BY <1>4 DEF PurgeStop, PurgeDatabase, PurgeUnits, PurgeConfig, PurgeState, PurgeCode, Kill,
       Reboot
  <1>5. CASE WriteEnv
    BY <1>5 DEF WriteEnv
  <1>6. CASE WriteManifest
    BY <1>6 DEF WriteManifest
  <1>7. CASE CopyId
    BY <1>7 DEF CopyId
  <1>8. CASE CopyPort
    BY <1>8 DEF CopyPort
  <1>9. CASE WritePort
    BY <1>9 DEF WritePort
  <1>10. CASE WriteEnvFile
    BY <1>10 DEF WriteEnvFile
  <1>11. CASE Record
    BY <1>11 DEF Record
  <1>12. CASE ResetRun
    BY <1>12 DEF ResetRun
  <1>13. CASE CopyState
    BY <1>13 DEF CopyState
  <1>14. CASE Dump
    BY <1>14 DEF Dump
  <1>15. CASE Pack
    BY <1>15 DEF Pack
  <1>16. CASE Prepare
    BY <1>16 DEF Prepare
  <1>17. CASE Load
    BY <1>17 DEF Load
  <1>18. CASE Preserve
    BY <1>18 DEF Preserve
  <1>19. CASE Forget
    BY <1>19 DEF Forget
  <1>20. CASE RemoveSomeConfig
    BY <1>20 DEF RemoveSomeConfig
  <1>21. CASE DoStep
    BY <1>21 DEF DoStep
  <1>22. CASE Capture
    BY <1>22, CaptureDoes DEF Capture
  <1>23. CASE Stop
    BY <1>23 DEF Stop
  <1>24. CASE Clear
    BY <1>24 DEF Clear
  <1>25. CASE Fill
    BY <1>25, FillDoes DEF Fill
  <1>26. CASE DropConfig
    BY <1>26 DEF DropConfig
  <1>27. CASE FillConfig
    BY <1>27 DEF FillConfig
  <1>28. CASE LoadDatabase
    <2>1. held \in Archive
      BY <1>28 DEF LoadDatabase, Typed, LocalsTyped, Maybe, Handy
    <2>2. db' = held.db /\ db' # None
      BY <1>28, <2>1, HeldFields, NoneAssumption DEF LoadDatabase
    <2>3. QED
      BY <1>28, <2>2 DEF LoadDatabase
  <1>29. CASE Start
    BY <1>29 DEF Start
  <1>30. CASE Check
    <2>1. Healthy'
      BY <1>30 DEF Check, Healthy
    <2>2. QED
      BY <1>30, <2>1 DEF Check
  <1>31. CASE RestoreFails
    BY <1>31 DEF RestoreFails
  <1>32. CASE UndoClear
    BY <1>32 DEF UndoClear
  <1>33. CASE UndoFill
    BY <1>33, UndoFillDoes DEF UndoFill
  <1>34. CASE UndoDropConfig
    BY <1>34 DEF UndoDropConfig
  <1>35. CASE UndoFillConfig
    BY <1>35 DEF UndoFillConfig
  <1>36. CASE UndoDatabase
    <2>1. check \in Archive
      BY <1>36 DEF UndoDatabase, Typed, LocalsTyped, Maybe, Handy
    <2>2. db' # None
      BY <1>36, <2>1, HeldFields, NoneAssumption DEF UndoDatabase
    <2>3. QED
      BY <1>36, <2>2 DEF UndoDatabase
  <1>37. CASE Work
    <2>1. /\ UNCHANGED <<config, running, pc, held, check>> /\ running # None /\ pc \notin Quiet
          /\ db' \in {db, running} /\ db # None /\ owned
      BY <1>37, WorkDoes, WorkLeaves DEF Serving, Silent
    <2>2. /\ state'.run = state.run /\ state'.preserved = state.preserved
          /\ state'.manifest = state.manifest /\ state'.files \in {state.files, running}
      BY <1>37, WorkDoes DEF SameRun
    <2>3. Healthy => Healthy'
      BY <1>37, <2>1, WorkLeaves, WorkRuns DEF Healthy
    <2>4. QED
      BY <2>1, <2>2, <2>3 DEF Quiet
  <1>38. QED
    BY <1>1, <1>2, <1>3, <1>4, <1>5, <1>6, <1>7, <1>8, <1>9, <1>10, <1>11, <1>12, <1>13, <1>14,
       <1>15, <1>16, <1>17, <1>18, <1>19, <1>20, <1>21, <1>22, <1>23, <1>24, <1>25, <1>26, <1>27,
       <1>28, <1>29, <1>30, <1>31, <1>32, <1>33, <1>34, <1>35, <1>36, <1>37 DEF Next, InstallNext,
       BackupNext, UpdateNext, RestoreNext, UndoNext, RemovalNext

-----------------------------------------------------------------------------
(* Backups, checkpoints and the host, each in itself.                      *)

\* The state t has the run of s, and nothing that it had is gone.
Akin(s, t) ==
  /\ s # None /\ t # None
  /\ t.run = s.run /\ t.preserved = s.preserved
  /\ s.manifest # None => t.manifest # None

LEMMA AkinPairs ==
  ASSUME NEW s, NEW t, Akin(s, t)
  PROVE  /\ \A step : Done(t, step) <=> Done(s, step)
         /\ HasId(t) <=> HasId(s)
         /\ Evident(s) => Evident(t)
         /\ \A c : (Paired(s, c) => Paired(t, c)) /\ IdOf(t, c) = IdOf(s, c)
  <1>1. \A step : Done(t, step) <=> Done(s, step)
    BY DEF Akin, Done
  <1>2. HasId(t) <=> HasId(s)
    BY DEF Akin, HasId
  <1>3. Evident(s) => Evident(t)
    BY <1>1 DEF Akin, Evident
  <1>4. \A c : Paired(s, c) => Paired(t, c)
    BY <1>1, <1>2, <1>3 DEF Paired
  <1>5. \A c : IdOf(t, c) = IdOf(s, c)
    BY DEF Akin, IdOf
  <1>6. QED
    BY <1>1, <1>2, <1>3, <1>4, <1>5

LEMMA InstanceIdIs ==
  InstanceId = IdOf(state, config)
  BY DEF InstanceId, IdOf

\* A state that is only written to.
LEMMA WroteAkin ==
  ASSUME Typed, Handy, There, Work \/ DoStep \/ Pack \/ WriteManifest
  PROVE  Akin(state, state')
  <1>1. CASE Work
    BY <1>1, WorkRuns, WorkLeaves DEF Akin
  <1>2. CASE DoStep
    BY <1>2, DoStepDoes DEF Akin
  <1>3. CASE Pack
    <2>1. state \in State
      BY <1>3 DEF Pack, There, Packing, At, Typed, DiskTyped, Maybe
    <2>2. state' = state
          \/ (\E n \in 1 .. MaxArchive : state' = [state EXCEPT !.backups = @ \cup {n}])
      BY <1>3 DEF Pack
    <2>3. state' \in State /\ state'.run = state.run /\ state'.preserved = state.preserved
          /\ state'.manifest = state.manifest
      BY <2>1, <2>2 DEF State
    <2>4. QED
      BY <2>1, <2>3, NoneAssumption DEF Akin
  <1>4. CASE WriteManifest
    BY <1>4, WriteManifestDoes, NoneAssumption DEF Akin, Wrote, SameRun
  <1>5. QED
    BY <1>1, <1>2, <1>3, <1>4

\* What is stopped without harm.
LEMMA StoppedThere ==
  ASSUME Kill \/ Reboot, ~torn'
  PROVE  /\ pc \in Harmless \cup {"capture"} /\ pc' = "idle" /\ ~torn
         /\ UNCHANGED <<config, state, db, releases, current, units, owned>>
         /\ UNCHANGED <<archives, vault, nextId, owner, kept>> /\ check' = None
  BY DEF Kill, Reboot, Stopped, At, End, Goto, disk, kit

\* A host that was left half-way is never taken for another.
LEMMA TornStays ==
  ASSUME Next, ~torn'
  PROVE  ~torn
  <1> USE DEF Plainly, Begin, End, Stopped, disk, kit, locals, history
  <1>1. CASE (\E r \in Release : Install(r)) \/ Prepare \/ CopyId \/ CopyPort \/ ResetRun \/ Load
    BY <1>1 DEF Install, Prepare, CopyId, CopyPort, ResetRun, Load
  <1>2. CASE Refuse \/ WritePort \/ WriteEnvFile \/ Record \/ Finish \/ StepFails
    BY <1>2 DEF Refuse, WritePort, WriteEnvFile, Record, Finish, StepFails
  <1>3. CASE (\E s \in BOOLEAN : Backup(s)) \/ CopyState \/ Dump \/ Pack \/ BackupFails \/ (\E r \in
            Release : Update(r))
    BY <1>3 DEF Backup, CopyState, Dump, Pack, BackupFails, Update
  <1>4. CASE Stage \/ CutOver \/ WriteEnv \/ WriteManifest \/ Restart \/ Probe
    BY <1>4 DEF Stage, CutOver, WriteEnv, WriteManifest, Restart, Probe
  <1>5. CASE UpdateFails \/ Revert \/ (\E n \in 1 .. MaxArchive, replace \in BOOLEAN : Restore(n,
            replace)) \/ Capture \/ Stop \/ Clear
    BY <1>5 DEF UpdateFails, Revert, Restore, Capture, Stop, Clear
  <1>6. CASE Fill \/ DropConfig \/ FillConfig \/ LoadDatabase \/ Start \/ Check
    BY <1>6 DEF Fill, DropConfig, FillConfig, LoadDatabase, Start, Check
  <1>7. CASE Report \/ RestoreFails \/ CaptureFails \/ UndoClear \/ UndoFill \/ UndoDropConfig
    BY <1>7 DEF Report, RestoreFails, CaptureFails, UndoClear, UndoFill, UndoDropConfig
  <1>8. CASE UndoFillConfig \/ UndoDatabase \/ UndoStart \/ UndoFails \/ Uninstall \/ Forget
    BY <1>8 DEF UndoFillConfig, UndoDatabase, UndoStart, UndoFails, Uninstall, Forget
  <1>9. CASE Preserve \/ Halt \/ RemoveUnits \/ RemoveCode \/ RemoveSomeConfig \/ RemoveConfig
    BY <1>9 DEF Preserve, Halt, RemoveUnits, RemoveCode, RemoveSomeConfig, RemoveConfig
  <1>10. CASE Purge \/ PurgeStop \/ PurgeDatabase \/ PurgeUnits \/ PurgeConfig \/ PurgeState
    BY <1>10 DEF Purge, PurgeStop, PurgeDatabase, PurgeUnits, PurgeConfig, PurgeState
  <1>11. CASE PurgeCode
    BY <1>11 DEF PurgeCode
  <1>12. CASE Work
    BY <1>12, WorkLeaves
  <1>13. CASE DoStep
    BY <1>13 DEF DoStep
  <1>14. CASE Kill \/ Reboot
    BY <1>14, StoppedThere
  <1>15. QED
    BY <1>1, <1>2, <1>3, <1>4, <1>5, <1>6, <1>7, <1>8, <1>9, <1>10, <1>11, <1>12, <1>13, <1>14 DEF
       Next, InstallNext, BackupNext, UpdateNext, RestoreNext, UndoNext, RemovalNext

\* A backup is made of a host whose parts go together, and is not changed after that.
LEMMA PackedStep ==
  ASSUME Typed, Handy, There, Stocked, Packed, Matched, Next, ~torn'
  PROVE  Packed'
  <1> USE DEF Packed, At, Goto, Plainly, Begin, End, Stopped, disk, kit, locals, history,
     Installing, Copying, Stepping, Packing, Switching, Restoring, Refilled, Checked, Undoing
  <1>1. CASE (\E r \in Release : Install(r)) \/ Refuse \/ Finish \/ StepFails \/ BackupFails \/
            Stage \/ CutOver \/ Restart
    BY <1>1 DEF Install, Refuse, Finish, StepFails, BackupFails, Stage, CutOver, Restart
  <1>2. CASE Probe \/ UpdateFails \/ Revert \/ Capture \/ Stop \/ DropConfig \/ FillConfig \/
            LoadDatabase
    BY <1>2 DEF Probe, UpdateFails, Revert, Capture, Stop, DropConfig, FillConfig, LoadDatabase
  <1>3. CASE Start \/ Check \/ Report \/ RestoreFails \/ CaptureFails \/ UndoFill \/ UndoDropConfig
            \/ UndoFillConfig
    BY <1>3 DEF Start, Check, Report, RestoreFails, CaptureFails, UndoFill, UndoDropConfig,
       UndoFillConfig
  <1>4. CASE UndoDatabase \/ UndoStart \/ UndoFails \/ Uninstall \/ Halt \/ RemoveUnits \/
            RemoveCode \/ RemoveConfig
    BY <1>4 DEF UndoDatabase, UndoStart, UndoFails, Uninstall, Halt, RemoveUnits, RemoveCode,
       RemoveConfig
  <1>5. CASE Purge \/ PurgeStop \/ PurgeDatabase \/ PurgeUnits \/ PurgeConfig \/ PurgeCode
    BY <1>5 DEF Purge, PurgeStop, PurgeDatabase, PurgeUnits, PurgeConfig, PurgeCode
  <1>6. CASE (\E s \in BOOLEAN : Backup(s)) \/ (\E r \in Release : Update(r))
    BY <1>6 DEF Backup, Update
  <1>7. CASE WriteEnv
    BY <1>7 DEF WriteEnv
  <1>8. CASE WriteManifest
    BY <1>8 DEF WriteManifest
  <1>9. CASE CopyId
    BY <1>9 DEF CopyId
  <1>10. CASE CopyPort
    BY <1>10 DEF CopyPort
  <1>11. CASE WritePort
    BY <1>11 DEF WritePort
  <1>12. CASE WriteEnvFile
    BY <1>12 DEF WriteEnvFile
  <1>13. CASE Record
    BY <1>13 DEF Record
  <1>14. CASE ResetRun
    BY <1>14 DEF ResetRun
  <1>15. CASE Prepare
    BY <1>15 DEF Prepare
  <1>16. CASE Load
    BY <1>16 DEF Load
  <1>17. CASE Preserve
    BY <1>17 DEF Preserve
  <1>18. CASE Forget
    BY <1>18 DEF Forget
  <1>19. CASE RemoveSomeConfig
    BY <1>19 DEF RemoveSomeConfig
  <1>20. CASE Clear
    BY <1>20 DEF Clear
  <1>21. CASE Fill
    BY <1>21 DEF Fill
  <1>22. CASE Work
    BY <1>22, WorkLeaves
  <1>23. CASE DoStep
    BY <1>23 DEF DoStep
  <1>24. CASE Kill \/ Reboot
    BY <1>24, StoppedThere
  <1>25. CASE CopyState
    <2>1. Paired(state, config) /\ state \in State /\ state # None
      BY <1>25, NoneAssumption DEF CopyState, Matched, Apart, There, Typed, DiskTyped, Maybe
    <2>2. Akin(state, held'.state)
      BY <1>25, <2>1, CopyStateDoes, NoneAssumption DEF Akin
    <2>3. Paired(held'.state, config) /\ IdOf(held'.state, config) = IdOf(state, config)
      BY <2>1, <2>2, AkinPairs
    <2>4. held'.config = config /\ held'.id = IdOf(state, config)
      BY <1>25, CopyStateDoes, InstanceIdIs
    <2>5. Whole(held')
      BY <2>3, <2>4 DEF Whole
    <2>6. QED
      BY <1>25, <2>5 DEF CopyState
  <1>26. CASE Dump
    <2>1. Whole(held')
      BY <1>26, DumpDoes DEF Dump, Whole
    <2>2. QED
      BY <1>26, <2>1 DEF Dump
  <1>27. CASE \E n \in 1 .. MaxArchive, replace \in BOOLEAN : Restore(n, replace)
    <2>1. PICK n \in 1 .. MaxArchive, replace \in BOOLEAN : Restore(n, replace)
      BY <1>27
    <2>2. Whole(held')
      BY <2>1 DEF Restore, Stocked
    <2>3. QED
      BY <2>1, <2>2 DEF Restore
  <1>28. CASE UndoClear \/ PurgeState
    <2>1. archives' = Outside /\ held' = held /\ pc \in {"undo clear", "purge state"}
          /\ pc' \in {"undo fill", "purge code"}
      BY <1>28 DEF UndoClear, PurgeState
    <2>2. QED
      BY <2>1 DEF Outside, Typed, KitTyped
  <1>29. CASE Pack
    <2>1. PICK n \in 1 .. MaxArchive : archives' = [archives EXCEPT ![n] = held]
      BY <1>29 DEF Pack
    <2>2. Whole(held) /\ (pc' = "idle" \/ held' = held)
      BY <1>29 DEF Pack
    <2>3. \A m \in 1 .. MaxArchive : archives'[m] = IF m = n THEN held ELSE archives[m]
      BY <2>1 DEF Typed, KitTyped
    <2>4. \A m \in 1 .. MaxArchive : archives'[m] # None => Whole(archives'[m])
      BY <2>2, <2>3
    <2>5. QED
      BY <2>2, <2>4
  <1>30. QED
    BY <1>1, <1>2, <1>3, <1>4, <1>5, <1>6, <1>7, <1>8, <1>9, <1>10, <1>11, <1>12, <1>13, <1>14,
       <1>15, <1>16, <1>17, <1>18, <1>19, <1>20, <1>21, <1>22, <1>23, <1>24, <1>25, <1>26, <1>27,
       <1>28, <1>29 DEF Next, InstallNext, BackupNext, UpdateNext, RestoreNext, UndoNext,
       RemovalNext

\* The checkpoint is of the host as it is when it is made.
LEMMA CaptureTakes ==
  ASSUME Typed, Matched, Capture
  PROVE  Whole(check') /\ Backed(check'.state, check'.config)
         /\ check'.id = IdOf(state, config) /\ UNCHANGED <<units, current>>
  <1>1. Paired(state, config) /\ Backed(state, config) /\ UNCHANGED <<units, current>>
    BY DEF Capture, Matched, Apart, Stripped, Refilled, Undoing, Copying, At, disk
  <1>2. /\ Paired(check'.state, config) /\ IdOf(check'.state, config) = IdOf(state, config)
        /\ Done(check'.state, "verify_local_core") => Done(state, "verify_local_core")
    <2>1. CASE state = None
      BY <1>1, <2>1, CaptureDoes
    <2>2. CASE state # None
      <3>1. Akin(state, check'.state)
        BY <2>2, CaptureDoes, NoneAssumption DEF Akin
      <3>2. QED
        BY <1>1, <3>1, AkinPairs
    <2>3. QED
      BY <2>1, <2>2
  <1>3. check'.config = config /\ check'.id = IdOf(state, config)
    BY CaptureDoes, InstanceIdIs
  <1>4. QED
    BY <1>1, <1>2, <1>3 DEF Whole, Backed

\* The checkpoint stays what it was, and so do units and link that it goes with.
LEMMA PinnedStep ==
  ASSUME Typed, Handy, There, Matched, Pinned, Next, ~torn'
  PROVE  Pinned'
  <1> USE DEF Pinned, Backed, At, Goto, Plainly, Begin, End, Stopped, disk, kit, locals, history,
     Installing, Copying, Stepping, Packing, Switching, Restoring, Refilled, Checked, Undoing
  <1>1. CASE (\E r \in Release : Install(r)) \/ Refuse \/ Finish \/ StepFails \/ BackupFails \/
            Stage
    BY <1>1 DEF Install, Refuse, Finish, StepFails, BackupFails, Stage
  <1>2. CASE CutOver \/ Restart \/ Probe \/ UpdateFails \/ Revert \/ (\E n \in 1 .. MaxArchive,
            replace \in BOOLEAN : Restore(n, replace))
    BY <1>2 DEF CutOver, Restart, Probe, UpdateFails, Revert, Restore
  <1>3. CASE Stop \/ DropConfig \/ FillConfig \/ LoadDatabase \/ Start \/ Check
    BY <1>3 DEF Stop, DropConfig, FillConfig, LoadDatabase, Start, Check
  <1>4. CASE Report \/ RestoreFails \/ CaptureFails \/ UndoClear \/ UndoFill \/ UndoDropConfig
    BY <1>4 DEF Report, RestoreFails, CaptureFails, UndoClear, UndoFill, UndoDropConfig
  <1>5. CASE UndoFillConfig \/ UndoDatabase \/ UndoStart \/ UndoFails \/ Uninstall \/ Halt
    BY <1>5 DEF UndoFillConfig, UndoDatabase, UndoStart, UndoFails, Uninstall, Halt
  <1>6. CASE RemoveUnits \/ RemoveCode \/ RemoveConfig \/ Purge \/ PurgeStop \/ PurgeDatabase
    BY <1>6 DEF RemoveUnits, RemoveCode, RemoveConfig, Purge, PurgeStop, PurgeDatabase
  <1>7. CASE PurgeUnits \/ PurgeConfig \/ PurgeState \/ PurgeCode
    BY <1>7 DEF PurgeUnits, PurgeConfig, PurgeState, PurgeCode
  <1>8. CASE CopyState
    BY <1>8 DEF CopyState
  <1>9. CASE Dump
    BY <1>9 DEF Dump
  <1>10. CASE WriteEnv
    BY <1>10 DEF WriteEnv
  <1>11. CASE WriteManifest
    BY <1>11 DEF WriteManifest
  <1>12. CASE CopyId
    BY <1>12 DEF CopyId
  <1>13. CASE CopyPort
    BY <1>13 DEF CopyPort
  <1>14. CASE WritePort
    BY <1>14 DEF WritePort
  <1>15. CASE WriteEnvFile
    BY <1>15 DEF WriteEnvFile
  <1>16. CASE Record
    BY <1>16 DEF Record
  <1>17. CASE ResetRun
    BY <1>17 DEF ResetRun
  <1>18. CASE Prepare
    BY <1>18 DEF Prepare
  <1>19. CASE Load
    BY <1>19 DEF Load
  <1>20. CASE Preserve
    BY <1>20 DEF Preserve
  <1>21. CASE Forget
    BY <1>21 DEF Forget
  <1>22. CASE RemoveSomeConfig
    BY <1>22 DEF RemoveSomeConfig
  <1>23. CASE Clear
    BY <1>23 DEF Clear
  <1>24. CASE Fill
    BY <1>24 DEF Fill
  <1>25. CASE \E s \in BOOLEAN : Backup(s)
    BY <1>25 DEF Backup
  <1>26. CASE \E r \in Release : Update(r)
    BY <1>26 DEF Update
  <1>27. CASE Pack
    BY <1>27 DEF Pack
  <1>28. CASE Work
    BY <1>28, WorkLeaves
  <1>29. CASE DoStep
    BY <1>29, DoStepDoes
  <1>30. CASE Kill \/ Reboot
    BY <1>30, StoppedThere
  <1>31. CASE Capture
    <2>1. Whole(check') /\ Backed(check'.state, check'.config) /\ UNCHANGED <<units, current>>
      BY <1>31, CaptureTakes
    <2>2. QED
      BY <2>1
  <1>32. QED
    BY <1>1, <1>2, <1>3, <1>4, <1>5, <1>6, <1>7, <1>8, <1>9, <1>10, <1>11, <1>12, <1>13, <1>14,
       <1>15, <1>16, <1>17, <1>18, <1>19, <1>20, <1>21, <1>22, <1>23, <1>24, <1>25, <1>26, <1>27,
       <1>28, <1>29, <1>30, <1>31 DEF Next, InstallNext, BackupNext, UpdateNext, RestoreNext,
       UndoNext, RemovalNext

-----------------------------------------------------------------------------
(* The host's state and configuration go together.                         *)

\* The evidence of a run.
LEMMA DoneIsNotLeft ==
  ASSUME state # None, state.run # None, NEW step \in Plan
  PROVE  Done(state, step) <=> step \notin Left
  BY DEF Done, Left

\* The configuration is written before the units are, and before the core is verified.
LEMMA WrittenBefore ==
  ASSUME state # None, state.run # None, Left # {},
         NextStep \in {"install_systemd_units", "verify_local_core"}
  PROVE  Done(state, "write_configuration")
  <1>1. /\ Order["write_configuration"] = 3 /\ Order["install_systemd_units"] = 4
        /\ Order["verify_local_core"] = 7 /\ "write_configuration" \in Plan
    BY DEF Order, Plan
  <1>2. ~(Order[NextStep] <= Order["write_configuration"])
    BY <1>1
  <1>3. "write_configuration" \notin Left
    BY <1>2, NextStepIsLeft
  <1>4. QED
    BY <1>1, <1>3, DoneIsNotLeft

\* What is known of the host while a plan is carried out.
LEMMA SteppingHas ==
  ASSUME Matched, Stepped, pc \in {"load"} \cup Stepping
  PROVE  /\ Paired(state, config) /\ Backed(state, config)
         /\ Done(state, "write_configuration") => Complete(config)
         /\ Done(state, "verify_local_core") => Complete(config)
         /\ config = None => ~HasId(state)
  <1>1. pc \notin Apart \cup Stripped
    BY DEF Stepping, Apart, Stripped, Copying, Undoing, Refilled
  <1>2. QED
    BY <1>1 DEF Matched, Stepped, Paired, Evident

\* The configuration of a plan's step.
LEMMA WriteConfigurationFits ==
  ASSUME Typed, Handy, There, Fresh, Matched, Stepped, At("step"), Left # {},
         NextStep = "write_configuration", WriteConfiguration
  PROVE  /\ Paired(state, config') /\ config'.id # None /\ config' # None
         /\ units => Complete(config')
         /\ ~Done(state, "write_configuration") /\ ~Done(state, "verify_local_core")
  <1>1. nextId <= MaxId
    BY NextStepIsLeft DEF Fresh, At
  <1>2. state # None /\ state.run # None /\ pc \in Stepping
    BY DEF There, Stepping, At
  <1>3. "write_configuration" \in Left /\ "write_configuration" \in Plan
    BY NextStepIsLeft
  <1>4. ~Done(state, "write_configuration")
    BY <1>2, <1>3, DoneIsNotLeft
  <1>5. Paired(state, config) /\ Backed(state, config)
    BY <1>2, SteppingHas
  <1>6. ~Done(state, "verify_local_core")
    BY <1>4, <1>5 DEF Paired, Evident
  <1>7. config' # None /\ config'.id # None /\ config'.port = Directory.port
        /\ config'.sha = Directory.sha
    BY <1>1, WriteConfigurationDoes, NoneAssumption
  <1>8. Paired(state, config')
    BY <1>4, <1>5, <1>7 DEF Paired, Ordered
  <1>9. units => Complete(config')
    BY <1>5, <1>7, DirectoryIs DEF Backed, Complete
  <1>10. QED
    BY <1>4, <1>6, <1>7, <1>8, <1>9

\* A step of a plan keeps state and configuration together.
LEMMA DoStepFits ==
  ASSUME Typed, Handy, There, Fresh, Matched, Stepped, DoStep
  PROVE  Paired(state', config') /\ Backed(state, config)'
  <1>1. /\ At("step") /\ Left # {} /\ Perform(NextStep) /\ state # None /\ state.run # None
        /\ pc \in Stepping
    BY DoStepDoes DEF DoStep, At, Stepping
  <1>2. /\ Paired(state, config) /\ Backed(state, config)
        /\ Done(state, "write_configuration") => Complete(config)
        /\ Done(state, "verify_local_core") => Complete(config)
        /\ config = None => ~HasId(state)
    BY <1>1, SteppingHas
  <1>3. Akin(state, state')
    BY WroteAkin
  <1>4. /\ \A step : Done(state', step) <=> Done(state, step)
        /\ \A c : Paired(state, c) => Paired(state', c)
    BY <1>3, AkinPairs
  <1>5. CASE CreateDirectories
    <2>1. config' = Directory /\ UNCHANGED <<units, current>>
      BY <1>5 DEF CreateDirectories
    <2>2. CASE config # None
      BY <1>2, <1>4, <2>1, <2>2 DEF Backed, Directory
    <2>3. CASE config = None
      <3>1. ~units /\ ~Done(state, "write_configuration") /\ ~Done(state, "verify_local_core")
        BY <1>2, <2>3 DEF Backed, Complete
      <3>2. Paired(state, config')
        BY <1>2, <2>1, <2>3, <3>1, DirectoryIs DEF Paired, Ordered
      <3>3. QED
        BY <1>4, <2>1, <3>1, <3>2 DEF Backed
    <2>4. QED
      BY <2>2, <2>3
  <1>6. CASE StageRelease
    <2>1. rel # None
      BY <1>1, LifecycleAssumption DEF Handy, Installing, Typed, LocalsTyped
    <2>2. QED
      BY <1>2, <1>4, <1>6, <2>1 DEF StageRelease, Backed
  <1>7. CASE NextStep = "write_configuration" /\ WriteConfiguration
    <2>1. /\ Paired(state, config') /\ (units => Complete(config'))
          /\ ~Done(state, "verify_local_core")
      BY <1>1, <1>7, WriteConfigurationFits
    <2>2. units' = units
      BY <1>7 DEF WriteConfiguration
    <2>3. QED
      BY <1>4, <2>1, <2>2 DEF Backed
  <1>8. CASE NextStep = "install_systemd_units" /\ InstallUnits
    <2>1. Complete(config)
      BY <1>1, <1>2, <1>8, WrittenBefore
    <2>2. UNCHANGED <<config, current>>
      BY <1>8 DEF InstallUnits
    <2>3. units'
      BY <1>8 DEF InstallUnits
    <2>4. QED
      BY <1>2, <1>4, <2>1, <2>2, <2>3 DEF Backed
  <1>9. CASE UNCHANGED <<config, units, current>>
    BY <1>2, <1>4, <1>9 DEF Backed
  <1>10. QED
    BY <1>1, <1>5, <1>6, <1>7, <1>8, <1>9
       DEF Perform, ProvisionDatabase, StartCoreServices, FinalizeManifest, disk

\* Evidence is recorded of what is there.
LEMMA RecordFits ==
  ASSUME Typed, There, Matched, Stepped, Record
  PROVE  /\ Paired(state', config) /\ UNCHANGED <<config, units, current, db>>
         /\ Backed(state, config)'
         /\ Done(state', "write_configuration") => Complete(config)
         /\ Done(state', "provision_database") =>
              Done(state, "provision_database") \/ NextStep = "provision_database"
         /\ HasId(state') <=> HasId(state)
  <1>1. /\ pc = "record" /\ pc \in Stepping /\ state # None /\ state.run # None /\ Left # {}
        /\ UNCHANGED <<config, units, current, db>>
    BY DEF Record, At, Stepping, There
  <1>2. /\ Paired(state, config) /\ Backed(state, config)
        /\ Done(state, "write_configuration") => Complete(config)
        /\ config = None => ~HasId(state)
    BY <1>1, SteppingHas
  <1>3. /\ NextStep = "write_configuration" => Complete(config)
        /\ NextStep = "verify_local_core" => units /\ current # None
        /\ NextStep = "finalize_manifest" => state.manifest # None
    BY <1>1 DEF Stepped
  <1>4. /\ state' # None /\ state'.preserved = state.preserved /\ state'.run # None
        /\ state'.manifest = state.manifest
        /\ state'.run.done = state.run.done \cup {NextStep}
    BY RecordDoes, NoneAssumption DEF Wrote
  <1>5. /\ HasId(state') <=> HasId(state)
        /\ \A step : Done(state', step) <=> Done(state, step) \/ step = NextStep
    BY <1>1, <1>4 DEF HasId, Done
  <1>6. Done(state', "write_configuration") => Complete(config)
    BY <1>2, <1>3, <1>5
  <1>7. NextStep = "verify_local_core" => Done(state, "write_configuration")
    BY <1>1, WrittenBefore
  <1>8. Evident(state')
    BY <1>1, <1>2, <1>3, <1>4, <1>5, <1>7 DEF Paired, Evident
  <1>9. Paired(state', config)
    BY <1>2, <1>5, <1>6, <1>8 DEF Paired
  <1>10. Backed(state, config)'
    BY <1>1, <1>2, <1>3, <1>5 DEF Backed
  <1>11. QED
    BY <1>1, <1>5, <1>6, <1>9, <1>10

\* The old run is reset, or there was none to reset.
LEMMA CopyPortFits ==
  ASSUME Typed, There, Copied, CopyPort
  PROVE  /\ Ordered(config') /\ config'.id = state.preserved.id /\ config' # None
         /\ UNCHANGED <<state, units, current>>
         /\ pc' = "load" => /\ Paired(state, config') /\ Backed(state, config)'
                            /\ ~Done(state, "write_configuration")
  <1>1. /\ pc = "copy port" /\ state # None /\ state.preserved # None
        /\ UNCHANGED <<state, units, current>>
    BY DEF CopyPort, At, There, Copying
  <1>2. /\ ~units /\ Evident(state) /\ (Done(state, "write_configuration") => HasId(state))
        /\ config = [NoFiles EXCEPT !.id = state.preserved.id]
    BY <1>1 DEF Copied, Copying
  <1>3. config.id = state.preserved.id /\ config.sha = None
    BY <1>2 DEF NoFiles
  <1>4. /\ config' # None /\ config'.id = state.preserved.id /\ config'.sha = None
        /\ config'.port = state.preserved.port
    BY <1>3, CopyPortDoes, NoneAssumption
  <1>5. Ordered(config')
    BY <1>1, <1>2, <1>4 DEF Evident, Ordered
  <1>6. ASSUME pc' = "load"
        PROVE  /\ Paired(state, config') /\ Backed(state, config)'
               /\ ~Done(state, "write_configuration")
    <2>1. state.preserved.id = None
      BY <1>3, <1>6 DEF CopyPort, Goto
    <2>2. ~HasId(state) /\ ~Done(state, "write_configuration")
      BY <1>2, <2>1 DEF HasId
    <2>3. ~Done(state, "verify_local_core")
      BY <1>2, <2>2 DEF Evident
    <2>4. QED
      BY <1>1, <1>2, <1>5, <2>2, <2>3 DEF Paired, Backed
  <1>7. QED
    BY <1>1, <1>4, <1>5, <1>6

\* A run is resumed or made anew; in both cases there is no evidence that was not there.
LEMMA LoadFits ==
  ASSUME Typed, Handy, Matched, Load
  PROVE  /\ Paired(state', config) /\ UNCHANGED <<config, units, current, db>>
         /\ \A step : Done(state', step) => Done(state, step)
         /\ HasId(state') <=> HasId(state)
         /\ IdOf(state', config) = IdOf(state, config)
  <1>1. Paired(state, config) /\ UNCHANGED <<config, units, current, db>>
    BY DEF Load, At, Matched, Apart, Copying, Undoing, Refilled
  <1>2. /\ state' # None /\ state'.run # None
        /\ IF state # None THEN /\ state'.preserved = state.preserved
                                /\ state'.manifest = state.manifest
           ELSE state'.preserved = None
        /\ state' = state \/ state'.run.done = {}
    BY LoadDoes, NoneAssumption
  <1>3. \A step : Done(state', step) => Done(state, step)
    BY <1>2 DEF Done
  <1>4. (HasId(state') <=> HasId(state)) /\ IdOf(state', config) = IdOf(state, config)
    BY <1>2 DEF HasId, IdOf
  <1>5. Evident(state')
    <2>1. CASE state' = state
      BY <1>1, <2>1 DEF Paired
    <2>2. CASE state'.run.done = {}
      <3>1. Ordered(state'.preserved)
        BY <1>1, <1>2 DEF Paired, Evident, Ordered
      <3>2. QED
        BY <2>2, <3>1 DEF Evident, Done
    <2>3. QED
      BY <1>2, <2>1, <2>2
  <1>6. Paired(state', config)
    BY <1>1, <1>3, <1>4, <1>5 DEF Paired
  <1>7. QED
    BY <1>1, <1>3, <1>4, <1>6

\* What a restore has brought back is the backup, under a configuration that is whole.
LEMMA CheckFits ==
  ASSUME Typed, Handy, There, Serving, Restored, Packed, Pinned, Check
  PROVE  /\ Paired(state, config) /\ Backed(state, config) /\ Complete(config)
         /\ UNCHANGED <<state, config, units, current>>
  <1>1. /\ pc = "check" /\ Healthy /\ UNCHANGED <<state, config, units, current>>
        /\ pc \in Refilled /\ pc \in Restoring /\ pc \in Checked /\ pc \notin Undoing
    BY DEF Check, At, disk, Refilled, Restoring, Checked, Undoing
  <1>2. /\ Whole(held) /\ Whole(check) /\ held.state # None
    BY <1>1 DEF Packed, Pinned, Handy, Packing
  <1>3. /\ held.config \in {config, None} /\ (held.config = None => config = check.config)
        /\ state.run = held.state.run /\ state.preserved = held.state.preserved
        /\ state.manifest = held.state.manifest
    BY <1>1 DEF Restored
  <1>4. /\ config # None /\ config.port /\ state # None /\ running # None /\ running = Started
    BY <1>1 DEF Healthy, Serving
  <1>5. Ordered(config)
    BY <1>2, <1>3 DEF Whole, Paired
  <1>6. Complete(config)
    BY <1>4, <1>5 DEF Started, CanStart, Complete, Ordered
  <1>7. Akin(held.state, state)
    BY <1>2, <1>3, <1>4 DEF Akin
  <1>8. Evident(state)
    BY <1>2, <1>7, AkinPairs DEF Whole, Paired
  <1>9. Paired(state, config)
    BY <1>5, <1>6, <1>8 DEF Paired, Complete
  <1>10. Backed(state, config)
    BY <1>4, <1>6 DEF Backed, Serving
  <1>11. QED
    BY <1>1, <1>6, <1>9, <1>10

\* The configuration is what is left to tell the instance while its copy is made.
LEMMA ForgetFits ==
  ASSUME Typed, There, Matched, Forget
  PROVE  /\ Paired(state', config) /\ UNCHANGED <<config, units, current, db>>
         /\ Backed(state, config)'
         /\ \A step : Done(state', step) => Done(state, step)
         /\ InstanceId # None => config.id = InstanceId
  <1>1. /\ pc = "forget" /\ config # None /\ UNCHANGED <<config, units, current, db>>
    BY DEF Forget, At, There
  <1>2. Paired(state, config) /\ Backed(state, config)
    BY <1>1 DEF Matched, Apart, Stripped, Copying, Undoing, Refilled
  <1>3. /\ state' # None /\ state'.preserved = None
        /\ IF state # None THEN state'.run = state.run /\ state'.manifest = state.manifest
           ELSE state'.run = None
    BY ForgetDoes, NoneAssumption
  <1>4. \A step : Done(state', step) => Done(state, step)
    BY <1>3 DEF Done
  <1>5. ~HasId(state')
    BY <1>3 DEF HasId
  <1>6. Evident(state')
    <2>1. Done(state', "finalize_manifest") => state'.manifest # None
      BY <1>2, <1>3, <1>4 DEF Paired, Evident, Done
    <2>2. Done(state', "verify_local_core") => Done(state', "write_configuration")
      BY <1>2, <1>3 DEF Paired, Evident, Done
    <2>3. QED
      BY <1>3, <2>1, <2>2 DEF Evident, Ordered
  <1>7. Paired(state', config)
    BY <1>1, <1>2, <1>4, <1>5, <1>6 DEF Paired
  <1>8. Backed(state, config)'
    BY <1>1, <1>2, <1>4 DEF Backed
  <1>9. InstanceId # None => config.id = InstanceId
    BY <1>1, <1>2, InstanceIdIs DEF Paired, IdOf, HasId
  <1>10. QED
    BY <1>1, <1>4, <1>7, <1>8, <1>9

\* The copy that uninstall preserves names the instance.
LEMMA PreserveFits ==
  ASSUME Typed, There, Matched, Preserve
  PROVE  /\ Paired(state', config) /\ UNCHANGED <<config, units, current, db>>
         /\ Backed(state, config)' /\ state' # None /\ state'.preserved = config /\ config # None
         /\ \A step : Done(state', step) <=> Done(state, step)
         /\ Evident(state') /\ (Done(state', "write_configuration") => HasId(state'))
  <1>1. /\ pc = "preserve" /\ config # None /\ UNCHANGED <<config, units, current, db>>
        /\ state # None
    BY DEF Preserve, At, There
  <1>2. Paired(state, config) /\ Backed(state, config)
    BY <1>1 DEF Matched, Apart, Stripped, Copying, Undoing, Refilled
  <1>3. /\ state' # None /\ state'.preserved = config /\ state'.run = state.run
        /\ state'.manifest = state.manifest
    BY PreserveDoes, NoneAssumption DEF Wrote
  <1>4. \A step : Done(state', step) <=> Done(state, step)
    BY <1>1, <1>3 DEF Done
  <1>5. Evident(state')
    BY <1>2, <1>3, <1>4 DEF Paired, Evident
  <1>6. Done(state', "write_configuration") => HasId(state')
    BY <1>1, <1>2, <1>3, <1>4 DEF Paired, Complete, HasId
  <1>7. Paired(state', config)
    BY <1>1, <1>2, <1>3, <1>4, <1>5 DEF Paired, HasId
  <1>8. Backed(state, config)'
    BY <1>1, <1>2, <1>4 DEF Backed
  <1>9. QED
    BY <1>1, <1>3, <1>4, <1>5, <1>6, <1>7, <1>8

\* What a rollback leaves is the checkpoint.
LEMMA UndoStartFits ==
  ASSUME Restored, Pinned, Handy, UndoStart
  PROVE  /\ Paired(state, config) /\ Backed(state, config)
         /\ UNCHANGED <<state, config, units, current>>
         /\ check.id = IdOf(state, config) /\ (check.state # None => state = check.state)
  <1>1. /\ pc = "undo start" /\ pc \in Checked /\ UNCHANGED <<state, config, units, current>>
    BY DEF UndoStart, At, disk, Checked, Undoing
  <1>2. /\ state = IF check.state = None THEN NoState ELSE check.state
        /\ config = check.config
    BY <1>1 DEF Restored
  <1>3. Whole(check) /\ Backed(check.state, check.config)
    BY <1>1 DEF Pinned
  <1>4. CASE check.state # None
    BY <1>1, <1>2, <1>3, <1>4 DEF Whole
  <1>5. CASE check.state = None
    <2>1. state.run = None /\ state.preserved = None /\ state = NoState
      BY <1>2, <1>5 DEF NoState
    <2>2. Evident(state) /\ ~HasId(state)
          /\ ~Done(state, "write_configuration") /\ ~Done(state, "verify_local_core")
      BY <2>1 DEF Evident, HasId, Done, Ordered
    <2>3. IdOf(state, config) = IdOf(check.state, config)
      BY <1>5, <2>1 DEF IdOf
    <2>4. QED
      BY <1>1, <1>2, <1>3, <1>5, <2>2, <2>3 DEF Whole, Paired, Backed
  <1>6. QED
    BY <1>4, <1>5

\* Nothing is moved, or files are on their way.
LEMMA StillMatched ==
  ASSUME Matched,
         \/ pc' \in Apart
         \/ /\ UNCHANGED <<state, config, units, current>> /\ pc \notin Apart
            /\ pc \notin Stripped \/ pc' \in Stripped
  PROVE  Matched'
  BY DEF Matched, Backed

LEMMA MatchedFits ==
  ASSUME Paired(state', config'), Backed(state, config)'
  PROVE  Matched'
  BY DEF Matched

\* Whatever a command does, state and configuration go together when it has done it.
LEMMA MatchedStep ==
  ASSUME Typed, Handy, There, Fresh, Serving, Restored, Packed, Pinned, Matched, Copied, Stepped,
         Cleared, Next, ~torn'
  PROVE  Matched'
  <1> USE DEF Apart, Stripped, At, Goto, Plainly, Begin, End, Stopped, disk, kit, locals, history,
     Installing, Copying, Stepping, Packing, Switching, Restoring, Refilled, Checked, Undoing
  <1>1. CASE (\E r \in Release : Install(r)) \/ Refuse \/ Finish \/ StepFails \/ BackupFails \/
            Stage
    BY <1>1, StillMatched DEF Install, Refuse, Finish, StepFails, BackupFails, Stage
  <1>2. CASE Restart \/ Probe \/ UpdateFails \/ Stop \/ Report \/ RestoreFails
    BY <1>2, StillMatched DEF Restart, Probe, UpdateFails, Stop, Report, RestoreFails
  <1>3. CASE CaptureFails \/ UndoFails \/ Uninstall \/ Halt \/ Purge \/ PurgeStop
    BY <1>3, StillMatched DEF CaptureFails, UndoFails, Uninstall, Halt, Purge, PurgeStop
  <1>4. CASE PurgeDatabase
    BY <1>4, StillMatched DEF PurgeDatabase
  <1>5. CASE CopyId
    BY <1>5, StillMatched DEF CopyId
  <1>6. CASE Clear
    BY <1>6, StillMatched DEF Clear
  <1>7. CASE Fill
    BY <1>7, StillMatched DEF Fill
  <1>8. CASE Prepare
    BY <1>8, StillMatched DEF Prepare
  <1>9. CASE UndoFill
    BY <1>9, StillMatched DEF UndoFill
  <1>10. CASE UndoFillConfig
    BY <1>10, StillMatched DEF UndoFillConfig
  <1>11. CASE UndoDatabase
    BY <1>11, StillMatched DEF UndoDatabase
  <1>12. CASE DropConfig
    BY <1>12, StillMatched DEF DropConfig
  <1>13. CASE FillConfig
    BY <1>13, StillMatched DEF FillConfig
  <1>14. CASE UndoClear
    BY <1>14, StillMatched DEF UndoClear
  <1>15. CASE UndoDropConfig
    BY <1>15, StillMatched DEF UndoDropConfig
  <1>16. CASE LoadDatabase
    BY <1>16, StillMatched DEF LoadDatabase
  <1>17. CASE Start
    BY <1>17, StillMatched DEF Start
  <1>18. CASE CopyState
    BY <1>18, StillMatched DEF CopyState
  <1>19. CASE Dump
    BY <1>19, StillMatched DEF Dump
  <1>20. CASE Capture
    BY <1>20, StillMatched DEF Capture
  <1>21. CASE RemoveSomeConfig
    BY <1>21, StillMatched DEF RemoveSomeConfig
  <1>22. CASE \E s \in BOOLEAN : Backup(s)
    BY <1>22, StillMatched DEF Backup
  <1>23. CASE \E r \in Release : Update(r)
    BY <1>23, StillMatched DEF Update
  <1>24. CASE \E n \in 1 .. MaxArchive, replace \in BOOLEAN : Restore(n, replace)
    BY <1>24, StillMatched DEF Restore
  <1>25. CASE DoStep
    BY <1>25, DoStepFits, MatchedFits
  <1>26. CASE Record
    BY <1>26, RecordFits, MatchedFits
  <1>27. CASE CopyPort
    <2>1. pc' = "load" \/ pc' = "reset run"
      BY <1>27 DEF CopyPort
    <2>2. CASE pc' = "load"
      BY <1>27, <2>2, CopyPortFits, MatchedFits
    <2>3. CASE pc' = "reset run"
      BY <2>3, StillMatched
    <2>4. QED
      BY <2>1, <2>2, <2>3
  <1>28. CASE Load
    <2>1. pc = "load" /\ Paired(state', config') /\ UNCHANGED <<config, units, current>>
          /\ (Done(state', "verify_local_core") => Done(state, "verify_local_core"))
      BY <1>28, LoadFits DEF Load
    <2>2. QED
      BY <2>1 DEF Matched, Backed
  <1>29. CASE Check
    BY <1>29, CheckFits, MatchedFits DEF Backed
  <1>30. CASE Forget
    BY <1>30, ForgetFits, MatchedFits
  <1>31. CASE Preserve
    BY <1>31, PreserveFits, MatchedFits
  <1>32. CASE UndoStart
    BY <1>32, UndoStartFits, MatchedFits DEF Backed
  <1>33. CASE Kill \/ Reboot
    BY <1>33, StoppedThere, StillMatched DEF Harmless
  <1>34. CASE Work
    <2>1. Akin(state, state') /\ UNCHANGED <<config, units, current, pc>>
      BY <1>34, WroteAkin, WorkLeaves
    <2>2. QED
      BY <2>1, AkinPairs DEF Matched, Backed
  <1>35. CASE Pack
    <2>1. Akin(state, state') /\ UNCHANGED <<config, units, current>> /\ pc = "pack"
      BY <1>35, WroteAkin DEF Pack
    <2>2. QED
      BY <2>1, AkinPairs DEF Matched, Backed
  <1>36. CASE WriteManifest
    <2>1. Akin(state, state') /\ UNCHANGED <<config, units, current>> /\ pc = "manifest"
      BY <1>36, WroteAkin DEF WriteManifest
    <2>2. QED
      BY <2>1, AkinPairs DEF Matched, Backed
  <1>37. CASE WritePort
    <2>1. Paired(state, config) /\ Backed(state, config) /\ UNCHANGED <<state, units, current>>
          /\ pc = "port" /\ config.id # None /\ config # None /\ pc' = "env file"
      BY <1>37 DEF Matched, WritePort, Stepped, There
    <2>2. config' # None /\ config'.id = config.id /\ config'.sha = config.sha /\ config'.port
      BY <1>37, WritePortDoes, NoneAssumption
    <2>3. QED
      BY <2>1, <2>2 DEF Matched, Backed, Paired, Complete, Ordered
  <1>38. CASE WriteEnvFile
    <2>1. Paired(state, config) /\ Backed(state, config) /\ UNCHANGED <<state, units, current>>
          /\ pc = "env file" /\ config.id # None /\ config # None /\ pc' = "record"
      BY <1>38 DEF Matched, WriteEnvFile, Stepped, There
    <2>2. config' # None /\ config'.id = config.id /\ config'.port = config.port
          /\ config'.sha # None
      BY <1>38, WriteEnvFileDoes, NoneAssumption
    <2>3. QED
      BY <2>1, <2>2 DEF Matched, Backed, Paired, Complete, Ordered
  <1>39. CASE WriteEnv
    <2>1. Paired(state, config) /\ Backed(state, config) /\ UNCHANGED <<state, units, current>>
          /\ pc = "env" /\ pc' = "manifest"
      BY <1>39 DEF Matched, WriteEnv
    <2>2. config' # None /\ config'.id = config.id /\ config'.port = config.port
          /\ config'.sha # None /\ config # None /\ config.sha # None
      BY <1>39, WriteEnvDoes, NoneAssumption
    <2>3. QED
      BY <2>1, <2>2 DEF Matched, Backed, Paired, Complete, Ordered
  <1>40. CASE ResetRun
    <2>1. /\ ~units /\ Evident(state) /\ Ordered(config) /\ (config.id = None => ~HasId(state))
          /\ UNCHANGED <<config, units, current>> /\ config # None /\ pc' = "load"
      BY <1>40 DEF ResetRun, Copied, There
    <2>2. state'.run = None /\ state'.preserved = state.preserved /\ state # None
      BY <1>40, ResetRunDoes DEF There, ResetRun
    <2>3. /\ \A step : ~Done(state', step)
          /\ HasId(state') => HasId(state)
      BY <2>2 DEF Done, HasId
    <2>4. Evident(state')
      BY <2>1, <2>2, <2>3 DEF Evident
    <2>5. QED
      BY <2>1, <2>3, <2>4 DEF Matched, Backed, Paired
  <1>41. CASE RemoveConfig
    <2>1. /\ pc = "rest of config" /\ config' = None /\ UNCHANGED <<state, units, current>>
          /\ Evident(state) /\ (Done(state, "write_configuration") => HasId(state))
          /\ ~units
      BY <1>41 DEF RemoveConfig, Cleared, Removing, Serving, Stripped
    <2>2. QED
      BY <2>1 DEF Matched, Backed, Paired, Ordered
  <1>42. CASE PurgeState
    <2>1. state' = None /\ config' = None /\ pc' = "purge code"
      BY <1>42 DEF PurgeState, There
    <2>2. QED
      BY <2>1 DEF Matched, Backed, Paired, Ordered, Evident, Done, Stripped
  <1>43. CASE PurgeConfig
    BY <1>43, StillMatched DEF PurgeConfig
  <1>44. CASE PurgeUnits \/ RemoveUnits \/ RemoveCode
    BY <1>44 DEF PurgeUnits, RemoveUnits, RemoveCode, Matched
  <1>45. CASE PurgeCode
    <2>1. /\ pc = "purge code" /\ state = None /\ config = None /\ ~units
          /\ UNCHANGED <<state, config, units>>
      BY <1>45 DEF PurgeCode, There, Serving, Stripped
    <2>2. QED
      BY <2>1 DEF Matched, Backed, Paired, Ordered, Evident, Done
  <1>46. CASE Revert \/ CutOver
    <2>1. /\ UNCHANGED <<state, config, units>> /\ pc \in {"revert", "cut over"}
          /\ current # None => current' # None
      BY <1>46, LifecycleAssumption
         DEF Revert, CutOver, Typed, DiskTyped, LocalsTyped, Handy, Switching
    <2>2. QED
      BY <2>1 DEF Matched, Backed
  <1>47. QED
    BY <1>1, <1>2, <1>3, <1>4, <1>5, <1>6, <1>7, <1>8, <1>9, <1>10, <1>11, <1>12, <1>13, <1>14,
       <1>15, <1>16, <1>17, <1>18, <1>19, <1>20, <1>21, <1>22, <1>23, <1>24, <1>25, <1>26, <1>27,
       <1>28, <1>29, <1>30, <1>31, <1>32, <1>33, <1>34, <1>35, <1>36, <1>37, <1>38, <1>39, <1>40,
       <1>41, <1>42, <1>43, <1>44, <1>45, <1>46 DEF Next, InstallNext, BackupNext, UpdateNext,
       RestoreNext, UndoNext, RemovalNext

-----------------------------------------------------------------------------
(* Installations and removals under way.                                   *)

LEMMA NotCopying ==
  ASSUME pc' \notin Copying \cup {"reset run"}
  PROVE  Copied'
  BY DEF Copied, Copying

\* The reinstallation: files first, then the reset of the run.
LEMMA CopiedStep ==
  ASSUME Typed, Handy, There, Matched, Copied, Next, ~torn'
  PROVE  Copied'
  <1> USE DEF At, Goto, Plainly, Begin, End, Stopped, disk, kit, locals, history, Installing,
     Copying, Stepping, Packing, Switching, Restoring, Refilled, Checked, Undoing
  <1>1. CASE (\E r \in Release : Install(r)) \/ Refuse \/ Finish \/ StepFails \/ BackupFails \/
            Stage \/ CutOver \/ Restart
    BY <1>1, NotCopying DEF Install, Refuse, Finish, StepFails, BackupFails, Stage, CutOver, Restart
  <1>2. CASE Probe \/ UpdateFails \/ Revert \/ (\E n \in 1 .. MaxArchive, replace \in BOOLEAN :
            Restore(n, replace)) \/ Stop \/ DropConfig \/ FillConfig \/ LoadDatabase
    BY <1>2, NotCopying DEF Probe, UpdateFails, Revert, Restore, Stop, DropConfig, FillConfig,
       LoadDatabase
  <1>3. CASE Start \/ Check \/ Report \/ RestoreFails \/ CaptureFails \/ UndoClear \/ UndoFill \/
            UndoDropConfig
    BY <1>3, NotCopying DEF Start, Check, Report, RestoreFails, CaptureFails, UndoClear, UndoFill,
       UndoDropConfig
  <1>4. CASE UndoFillConfig \/ UndoDatabase \/ UndoStart \/ UndoFails \/ Uninstall \/ Halt \/
            RemoveUnits \/ RemoveCode
    BY <1>4, NotCopying DEF UndoFillConfig, UndoDatabase, UndoStart, UndoFails, Uninstall, Halt,
       RemoveUnits, RemoveCode
  <1>5. CASE RemoveConfig \/ Purge \/ PurgeStop \/ PurgeDatabase \/ PurgeUnits \/ PurgeConfig \/
            PurgeState \/ PurgeCode
    BY <1>5, NotCopying DEF RemoveConfig, Purge, PurgeStop, PurgeDatabase, PurgeUnits, PurgeConfig,
       PurgeState, PurgeCode
  <1>6. CASE Kill \/ Reboot
    BY <1>6, NotCopying DEF Kill, Reboot
  <1>7. CASE WriteEnv
    BY <1>7, NotCopying DEF WriteEnv
  <1>8. CASE WriteManifest
    BY <1>8, NotCopying DEF WriteManifest
  <1>9. CASE WritePort
    BY <1>9, NotCopying DEF WritePort
  <1>10. CASE WriteEnvFile
    BY <1>10, NotCopying DEF WriteEnvFile
  <1>11. CASE Record
    BY <1>11, NotCopying DEF Record
  <1>12. CASE ResetRun
    BY <1>12, NotCopying DEF ResetRun
  <1>13. CASE Load
    BY <1>13, NotCopying DEF Load
  <1>14. CASE Preserve
    BY <1>14, NotCopying DEF Preserve
  <1>15. CASE Forget
    BY <1>15, NotCopying DEF Forget
  <1>16. CASE RemoveSomeConfig
    BY <1>16, NotCopying DEF RemoveSomeConfig
  <1>17. CASE Clear
    BY <1>17, NotCopying DEF Clear
  <1>18. CASE Fill
    BY <1>18, NotCopying DEF Fill
  <1>19. CASE CopyState
    BY <1>19, NotCopying DEF CopyState
  <1>20. CASE Dump
    BY <1>20, NotCopying DEF Dump
  <1>21. CASE Capture
    BY <1>21, NotCopying DEF Capture
  <1>22. CASE \E s \in BOOLEAN : Backup(s)
    BY <1>22, NotCopying DEF Backup
  <1>23. CASE \E r \in Release : Update(r)
    BY <1>23, NotCopying DEF Update
  <1>24. CASE Pack
    BY <1>24, NotCopying DEF Pack
  <1>25. CASE DoStep
    <2>1. pc' \in {"port", "record"}
      BY <1>25, DoStepDoes
    <2>2. QED
      BY <2>1, NotCopying
  <1>26. CASE Prepare
    <2>1. CASE config = None /\ state # None /\ state.preserved # None
      <3>1. /\ config' = NoFiles /\ pc' = "copy id" /\ pc = "prepare"
            /\ UNCHANGED <<state, units>>
        BY <1>26, <2>1 DEF Prepare
      <3>2. Paired(state, config) /\ Backed(state, config)
        BY <3>1 DEF Matched, Apart, Stripped
      <3>3. ~units /\ Evident(state) /\ (Done(state, "write_configuration") => HasId(state))
        BY <2>1, <3>2 DEF Paired, Backed, Complete
      <3>4. Ordered(NoFiles)
        BY DEF Ordered, NoFiles
      <3>5. QED
        BY <3>1, <3>3, <3>4 DEF Copied
    <2>2. CASE ~(config = None /\ state # None /\ state.preserved # None)
      <3>1. pc' = "load"
        BY <1>26, <2>2 DEF Prepare
      <3>2. QED
        BY <3>1, NotCopying
    <2>3. QED
      BY <2>1, <2>2
  <1>27. CASE CopyId
    <2>1. /\ pc = "copy id" /\ pc' = "copy port" /\ UNCHANGED <<state, units>>
      BY <1>27 DEF CopyId
    <2>2. /\ ~units /\ Evident(state) /\ (Done(state, "write_configuration") => HasId(state))
          /\ config = NoFiles
      BY <2>1 DEF Copied
    <2>3. config' = [NoFiles EXCEPT !.id = state.preserved.id]
      BY <1>27, <2>2, CopyIdDoes
    <2>4. config'.port = FALSE /\ config'.sha = None
      BY <2>3 DEF NoFiles
    <2>5. Ordered(config')
      BY <2>4 DEF Ordered
    <2>6. QED
      BY <2>1, <2>2, <2>3, <2>5 DEF Copied
  <1>28. CASE CopyPort
    <2>1. /\ pc = "copy port" /\ pc' \in {"load", "reset run"} /\ UNCHANGED <<state, units>>
      BY <1>28 DEF CopyPort
    <2>2. ~units /\ Evident(state) /\ (Done(state, "write_configuration") => HasId(state))
      BY <2>1 DEF Copied
    <2>3. Ordered(config') /\ config'.id = state.preserved.id
      BY <1>28, CopyPortFits
    <2>4. QED
      BY <2>1, <2>2, <2>3 DEF Copied, HasId
  <1>29. CASE Work
    <2>1. Akin(state, state') /\ UNCHANGED <<config, units, pc>>
          /\ state'.preserved = state.preserved
      BY <1>29, WroteAkin, WorkLeaves, WorkRuns
    <2>2. /\ Evident(state) => Evident(state')
          /\ HasId(state') <=> HasId(state)
          /\ Done(state', "write_configuration") <=> Done(state, "write_configuration")
      BY <2>1, AkinPairs
    <2>3. QED
      BY <2>1, <2>2 DEF Copied
  <1>30. QED
    BY <1>1, <1>2, <1>3, <1>4, <1>5, <1>6, <1>7, <1>8, <1>9, <1>10, <1>11, <1>12, <1>13, <1>14,
       <1>15, <1>16, <1>17, <1>18, <1>19, <1>20, <1>21, <1>22, <1>23, <1>24, <1>25, <1>26, <1>27,
       <1>28, <1>29 DEF Next, InstallNext, BackupNext, UpdateNext, RestoreNext, UndoNext,
       RemovalNext

LEMMA NotStepping ==
  ASSUME pc' \notin {"load"} \cup Stepping
  PROVE  Stepped'
  BY DEF Stepped, Stepping

\* What a step leaves is what its record will say.
LEMMA DoStepLeaves ==
  ASSUME Typed, Handy, There, Fresh, Serving, Matched, Stepped, DoStep
  PROVE  Stepped'
  <1>1. /\ At("step") /\ Left # {} /\ Perform(NextStep) /\ state # None /\ state.run # None
        /\ pc \in Stepping /\ NextStep' = NextStep
        /\ pc' = IF NextStep = "write_configuration" THEN "port" ELSE "record"
    BY DoStepDoes DEF DoStep, At, Stepping
  <1>2. /\ Done(state, "write_configuration") => Complete(config)
        /\ config = None => ~HasId(state)
    BY <1>1, SteppingHas
  <1>3. /\ Done(state', "write_configuration") <=> Done(state, "write_configuration")
        /\ HasId(state') <=> HasId(state)
    BY WroteAkin, AkinPairs
  <1>4. CASE NextStep = "write_configuration"
    <2>1. WriteConfiguration
      BY <1>1, <1>4 DEF Perform
    <2>2. config' # None /\ config'.id # None /\ ~Done(state, "write_configuration")
      BY <1>1, <1>4, <2>1, WriteConfigurationFits
    <2>3. QED
      BY <1>1, <1>3, <1>4, <2>2 DEF Stepped
  <1>5. CASE NextStep # "write_configuration"
    <2>1. config' = config \/ (config' = Directory /\ config' # None)
      BY <1>1, <1>5, DirectoryIs, NoneAssumption
         DEF Perform, CreateDirectories, StageRelease, InstallUnits, ProvisionDatabase,
         StartCoreServices, FinalizeManifest, disk
    <2>2. /\ Done(state', "write_configuration") => Complete(config')
          /\ config' = None => ~HasId(state')
      BY <1>2, <1>3, <2>1 DEF Directory, Complete
    <2>3. NextStep = "provision_database" => db' # None
      BY <1>1, NoneAssumption DEF Perform, ProvisionDatabase, Db
    <2>4. NextStep = "verify_local_core" => units' /\ current' # None
      <3>1. HAVE NextStep = "verify_local_core"
      <3>2. Healthy /\ UNCHANGED <<disk, running, nextId, owner>>
        BY <1>1, <3>1 DEF Perform
      <3>3. QED
        BY <3>2 DEF Healthy, disk, Serving
    <2>5. NextStep = "finalize_manifest" => state'.manifest # None
      BY <1>1, FinalizeDoes DEF Perform
    <2>6. QED
      BY <1>1, <1>5, <2>2, <2>3, <2>4, <2>5 DEF Stepped
  <1>6. QED
    BY <1>4, <1>5

\* The installation, step by step.
LEMMA SteppedStep ==
  ASSUME Typed, Handy, There, Fresh, Serving, Matched, Copied, Stepped, Next, ~torn'
  PROVE  Stepped'
  <1> USE DEF At, Goto, Plainly, Begin, End, Stopped, disk, kit, locals, history, Installing,
     Copying, Stepping, Packing, Switching, Restoring, Refilled, Checked, Undoing
  <1>1. CASE (\E r \in Release : Install(r)) \/ Refuse \/ Finish \/ StepFails \/ BackupFails \/
            Stage \/ CutOver \/ Restart
    BY <1>1, NotStepping DEF Install, Refuse, Finish, StepFails, BackupFails, Stage, CutOver,
       Restart
  <1>2. CASE Probe \/ UpdateFails \/ Revert \/ (\E n \in 1 .. MaxArchive, replace \in BOOLEAN :
            Restore(n, replace)) \/ Stop \/ DropConfig \/ FillConfig \/ LoadDatabase
    BY <1>2, NotStepping DEF Probe, UpdateFails, Revert, Restore, Stop, DropConfig, FillConfig,
       LoadDatabase
  <1>3. CASE Start \/ Check \/ Report \/ RestoreFails \/ CaptureFails \/ UndoClear \/ UndoFill \/
            UndoDropConfig
    BY <1>3, NotStepping DEF Start, Check, Report, RestoreFails, CaptureFails, UndoClear, UndoFill,
       UndoDropConfig
  <1>4. CASE UndoFillConfig \/ UndoDatabase \/ UndoStart \/ UndoFails \/ Uninstall \/ Halt \/
            RemoveUnits \/ RemoveCode
    BY <1>4, NotStepping DEF UndoFillConfig, UndoDatabase, UndoStart, UndoFails, Uninstall, Halt,
       RemoveUnits, RemoveCode
  <1>5. CASE RemoveConfig \/ Purge \/ PurgeStop \/ PurgeDatabase \/ PurgeUnits \/ PurgeConfig \/
            PurgeState \/ PurgeCode
    BY <1>5, NotStepping DEF RemoveConfig, Purge, PurgeStop, PurgeDatabase, PurgeUnits, PurgeConfig,
       PurgeState, PurgeCode
  <1>6. CASE Kill \/ Reboot
    BY <1>6, NotStepping DEF Kill, Reboot
  <1>7. CASE WriteEnv
    BY <1>7, NotStepping DEF WriteEnv
  <1>8. CASE WriteManifest
    BY <1>8, NotStepping DEF WriteManifest
  <1>9. CASE CopyId
    BY <1>9, NotStepping DEF CopyId
  <1>10. CASE Preserve
    BY <1>10, NotStepping DEF Preserve
  <1>11. CASE Forget
    BY <1>11, NotStepping DEF Forget
  <1>12. CASE RemoveSomeConfig
    BY <1>12, NotStepping DEF RemoveSomeConfig
  <1>13. CASE Clear
    BY <1>13, NotStepping DEF Clear
  <1>14. CASE Fill
    BY <1>14, NotStepping DEF Fill
  <1>15. CASE CopyState
    BY <1>15, NotStepping DEF CopyState
  <1>16. CASE Dump
    BY <1>16, NotStepping DEF Dump
  <1>17. CASE Capture
    BY <1>17, NotStepping DEF Capture
  <1>18. CASE \E s \in BOOLEAN : Backup(s)
    BY <1>18, NotStepping DEF Backup
  <1>19. CASE \E r \in Release : Update(r)
    BY <1>19, NotStepping DEF Update
  <1>20. CASE Pack
    BY <1>20, NotStepping DEF Pack
  <1>21. CASE DoStep
    BY <1>21, DoStepLeaves
  <1>22. CASE Prepare
    <2>1. CASE config = None /\ state # None /\ state.preserved # None
      <3>1. pc' = "copy id"
        BY <1>22, <2>1 DEF Prepare
      <3>2. QED
        BY <3>1, NotStepping
    <2>2. CASE ~(config = None /\ state # None /\ state.preserved # None)
      <3>1. pc = "prepare" /\ pc' = "load" /\ UNCHANGED <<config, state>>
        BY <1>22, <2>2 DEF Prepare
      <3>2. Paired(state, config)
        BY <3>1 DEF Matched, Apart
      <3>3. /\ Done(state, "write_configuration") => Complete(config)
            /\ config = None => ~HasId(state)
        BY <2>2, <3>2 DEF Paired, HasId
      <3>4. QED
        BY <3>1, <3>3 DEF Stepped
    <2>3. QED
      BY <2>1, <2>2
  <1>23. CASE CopyPort
    <2>1. /\ pc' \in {"load", "reset run"} /\ state' = state /\ config' # None
          /\ (pc' = "load" => ~Done(state, "write_configuration"))
      BY <1>23, CopyPortFits DEF CopyPort
    <2>2. QED
      BY <2>1 DEF Stepped
  <1>24. CASE ResetRun
    <2>1. pc' = "load" /\ config' = config /\ config # None
      BY <1>24 DEF ResetRun, There
    <2>2. state'.run = None
      BY <1>24, ResetRunDoes
    <2>3. ~Done(state', "write_configuration")
      BY <2>2 DEF Done
    <2>4. QED
      BY <2>1, <2>3 DEF Stepped
  <1>25. CASE Load
    <2>1. pc = "load" /\ pc' = "step"
      BY <1>25 DEF Load
    <2>2. /\ config' = config
          /\ Done(state', "write_configuration") => Done(state, "write_configuration")
          /\ HasId(state') <=> HasId(state)
      BY <1>25, LoadFits
    <2>3. QED
      BY <2>1, <2>2 DEF Stepped
  <1>26. CASE WritePort
    <2>1. /\ pc = "port" /\ pc' = "env file" /\ UNCHANGED state /\ config # None
          /\ config.id # None /\ (Done(state, "write_configuration") => Complete(config))
      BY <1>26 DEF WritePort, Stepped, There
    <2>2. config' # None /\ config'.id = config.id /\ config'.sha = config.sha /\ config'.port
      BY <1>26, WritePortDoes, NoneAssumption
    <2>3. QED
      BY <2>1, <2>2 DEF Stepped, Complete
  <1>27. CASE WriteEnvFile
    <2>1. /\ pc = "env file" /\ pc' = "record" /\ UNCHANGED state /\ config # None
          /\ config.id # None /\ config.port /\ NextStep = "write_configuration"
      BY <1>27 DEF WriteEnvFile, Stepped, There
    <2>2. config' # None /\ config'.id = config.id /\ config'.port = config.port
          /\ config'.sha # None
      BY <1>27, WriteEnvFileDoes, NoneAssumption
    <2>3. Complete(config')
      BY <2>1, <2>2 DEF Complete
    <2>4. NextStep' = NextStep
      BY <2>1 DEF NextStep, Left
    <2>5. QED
      BY <2>1, <2>2, <2>3, <2>4 DEF Stepped
  <1>28. CASE Record
    <2>1. pc = "record" /\ pc' = "step"
      BY <1>28 DEF Record
    <2>2. /\ config' = config /\ (HasId(state') <=> HasId(state))
          /\ Done(state', "write_configuration") => Complete(config)
      BY <1>28, RecordFits
    <2>3. QED
      BY <2>1, <2>2 DEF Stepped
  <1>29. CASE Work
    <2>1. Akin(state, state') /\ UNCHANGED <<config, units, pc, current>>
          /\ NextStep' = NextStep /\ state'.manifest = state.manifest
      BY <1>29, WroteAkin, WorkLeaves, WorkRuns
    <2>2. /\ HasId(state') <=> HasId(state)
          /\ Done(state', "write_configuration") <=> Done(state, "write_configuration")
      BY <2>1, AkinPairs
    <2>3. db' # None
      BY <1>29, WorkDoes, WorkLeaves
    <2>4. QED
      BY <2>1, <2>2, <2>3 DEF Stepped
  <1>30. QED
    BY <1>1, <1>2, <1>3, <1>4, <1>5, <1>6, <1>7, <1>8, <1>9, <1>10, <1>11, <1>12, <1>13, <1>14,
       <1>15, <1>16, <1>17, <1>18, <1>19, <1>20, <1>21, <1>22, <1>23, <1>24, <1>25, <1>26, <1>27,
       <1>28, <1>29 DEF Next, InstallNext, BackupNext, UpdateNext, RestoreNext, UndoNext,
       RemovalNext

LEMMA NotRemoving ==
  ASSUME pc' \notin Removing
  PROVE  Cleared'
  BY DEF Cleared, Removing

LEMMA StillRemoving ==
  ASSUME Cleared, pc \in Removing, UNCHANGED state
  PROVE  Cleared'
  BY DEF Cleared

\* The removal: nothing is taken away before there is a copy of the identity.
LEMMA ClearedStep ==
  ASSUME Typed, Handy, There, Matched, Cleared, Next, ~torn'
  PROVE  Cleared'
  <1> USE DEF At, Goto, Plainly, Begin, End, Stopped, disk, kit, locals, history, Installing,
     Copying, Stepping, Packing, Switching, Restoring, Refilled, Checked, Undoing
  <1>1. CASE (\E r \in Release : Install(r)) \/ Refuse \/ Finish \/ StepFails \/ BackupFails \/
            Stage \/ CutOver \/ Restart
    BY <1>1, NotRemoving DEF Install, Refuse, Finish, StepFails, BackupFails, Stage, CutOver,
       Restart, Removing
  <1>2. CASE Probe \/ UpdateFails \/ Revert \/ (\E n \in 1 .. MaxArchive, replace \in BOOLEAN :
            Restore(n, replace)) \/ Stop \/ DropConfig \/ FillConfig \/ LoadDatabase
    BY <1>2, NotRemoving DEF Probe, UpdateFails, Revert, Restore, Stop, DropConfig, FillConfig,
       LoadDatabase, Removing
  <1>3. CASE Start \/ Check \/ Report \/ RestoreFails \/ CaptureFails \/ UndoClear \/ UndoFill \/
            UndoDropConfig
    BY <1>3, NotRemoving DEF Start, Check, Report, RestoreFails, CaptureFails, UndoClear, UndoFill,
       UndoDropConfig, Removing
  <1>4. CASE UndoFillConfig \/ UndoDatabase \/ UndoStart \/ UndoFails \/ RemoveConfig \/ Purge \/
            PurgeStop \/ PurgeDatabase
    BY <1>4, NotRemoving DEF UndoFillConfig, UndoDatabase, UndoStart, UndoFails, RemoveConfig,
       Purge, PurgeStop, PurgeDatabase, Removing
  <1>5. CASE PurgeUnits \/ PurgeConfig \/ PurgeState \/ PurgeCode \/ Kill \/ Reboot
    BY <1>5, NotRemoving DEF PurgeUnits, PurgeConfig, PurgeState, PurgeCode, Kill, Reboot, Removing
  <1>6. CASE Prepare
    BY <1>6, NotRemoving DEF Prepare, Removing
  <1>7. CASE CopyPort
    BY <1>7, NotRemoving DEF CopyPort, Removing
  <1>8. CASE ResetRun
    BY <1>8, NotRemoving DEF ResetRun, Removing
  <1>9. CASE Load
    BY <1>9, NotRemoving DEF Load, Removing
  <1>10. CASE WritePort
    BY <1>10, NotRemoving DEF WritePort, Removing
  <1>11. CASE WriteEnvFile
    BY <1>11, NotRemoving DEF WriteEnvFile, Removing
  <1>12. CASE Record
    BY <1>12, NotRemoving DEF Record, Removing
  <1>13. CASE WriteEnv
    BY <1>13, NotRemoving DEF WriteEnv, Removing
  <1>14. CASE WriteManifest
    BY <1>14, NotRemoving DEF WriteManifest, Removing
  <1>15. CASE CopyId
    BY <1>15, NotRemoving DEF CopyId, Removing
  <1>16. CASE Forget
    BY <1>16, NotRemoving DEF Forget, Removing
  <1>17. CASE Clear
    BY <1>17, NotRemoving DEF Clear, Removing
  <1>18. CASE Fill
    BY <1>18, NotRemoving DEF Fill, Removing
  <1>19. CASE CopyState
    BY <1>19, NotRemoving DEF CopyState, Removing
  <1>20. CASE Dump
    BY <1>20, NotRemoving DEF Dump, Removing
  <1>21. CASE Capture
    BY <1>21, NotRemoving DEF Capture, Removing
  <1>22. CASE \E s \in BOOLEAN : Backup(s)
    BY <1>22, NotRemoving DEF Backup, Removing
  <1>23. CASE \E r \in Release : Update(r)
    BY <1>23, NotRemoving DEF Update, Removing
  <1>24. CASE Pack
    BY <1>24, NotRemoving DEF Pack, Removing
  <1>25. CASE DoStep
    <2>1. pc' \in {"port", "record"}
      BY <1>25, DoStepDoes
    <2>2. QED
      BY <2>1, NotRemoving DEF Removing
  <1>26. CASE Halt \/ RemoveUnits \/ RemoveCode \/ RemoveSomeConfig
    BY <1>26, StillRemoving DEF Halt, RemoveUnits, RemoveCode, RemoveSomeConfig, Removing
  <1>27. CASE Preserve
    <2>1. Evident(state') /\ (Done(state', "write_configuration") => HasId(state'))
      BY <1>27, PreserveFits
    <2>2. QED
      BY <2>1 DEF Cleared
  <1>28. CASE Uninstall
    <2>1. /\ pc = "idle" /\ UNCHANGED <<state, config>>
          /\ pc' = IF config = None THEN "halt" ELSE "forget"
      BY <1>28 DEF Uninstall
    <2>2. Paired(state, config)
      BY <2>1 DEF Matched, Apart
    <2>3. Evident(state)
          /\ (config = None /\ Done(state, "write_configuration") => HasId(state))
      BY <2>2 DEF Paired, Complete
    <2>4. QED
      BY <2>1, <2>3 DEF Cleared, Removing
  <1>29. CASE Work
    <2>1. Akin(state, state') /\ pc' = pc
      BY <1>29, WroteAkin, WorkLeaves
    <2>2. /\ Evident(state) => Evident(state')
          /\ HasId(state') <=> HasId(state)
          /\ Done(state', "write_configuration") <=> Done(state, "write_configuration")
      BY <2>1, AkinPairs
    <2>3. QED
      BY <2>1, <2>2 DEF Cleared
  <1>30. QED
    BY <1>1, <1>2, <1>3, <1>4, <1>5, <1>6, <1>7, <1>8, <1>9, <1>10, <1>11, <1>12, <1>13, <1>14,
       <1>15, <1>16, <1>17, <1>18, <1>19, <1>20, <1>21, <1>22, <1>23, <1>24, <1>25, <1>26, <1>27,
       <1>28, <1>29 DEF Next, InstallNext, BackupNext, UpdateNext, RestoreNext, UndoNext,
       RemovalNext

LEMMA StillProvided ==
  ASSUME Provided,
         \/ UNCHANGED state
            /\ (db' = db \/ db' # None \/ pc' \in {"purge units", "purge config", "purge state"})
            /\ pc \notin {"purge units", "purge config", "purge state"}
         \/ UNCHANGED state /\ db' = db
            /\ pc' \in {"purge units", "purge config", "purge state"}
         \/ pc' \in Checked /\ Restored'
         \/ state' = None
  PROVE  Provided'
  BY DEF Provided, Done, Restored

\* The database outlives every command but purge, which removes the run with it.
LEMMA ProvidedStep ==
  ASSUME Typed, Handy, There, Fresh, Serving, Restored, Restored', Matched, Stepped, Provided, Next,
         ~torn'
  PROVE  Provided'
  <1> USE DEF At, Goto, Plainly, Begin, End, Stopped, disk, kit, locals, history, Installing,
     Copying, Stepping, Packing, Switching, Restoring, Refilled, Checked, Undoing
  <1>1. CASE (\E r \in Release : Install(r)) \/ Refuse \/ Finish \/ StepFails \/ BackupFails \/
            Stage
    BY <1>1, StillProvided DEF Install, Refuse, Finish, StepFails, BackupFails, Stage
  <1>2. CASE CutOver \/ Restart \/ Probe \/ UpdateFails \/ Revert \/ (\E n \in 1 .. MaxArchive,
            replace \in BOOLEAN : Restore(n, replace))
    BY <1>2, StillProvided DEF CutOver, Restart, Probe, UpdateFails, Revert, Restore
  <1>3. CASE Stop \/ DropConfig \/ FillConfig \/ LoadDatabase \/ Start \/ Check
    BY <1>3, StillProvided DEF Stop, DropConfig, FillConfig, LoadDatabase, Start, Check
  <1>4. CASE Report \/ RestoreFails \/ CaptureFails \/ UndoClear \/ UndoFill \/ UndoDropConfig
    BY <1>4, StillProvided DEF Report, RestoreFails, CaptureFails, UndoClear, UndoFill,
       UndoDropConfig
  <1>5. CASE UndoFillConfig \/ UndoDatabase \/ Uninstall \/ Halt \/ RemoveUnits \/ RemoveCode
    BY <1>5, StillProvided DEF UndoFillConfig, UndoDatabase, Uninstall, Halt, RemoveUnits,
       RemoveCode
  <1>6. CASE RemoveConfig \/ Purge \/ PurgeStop
    BY <1>6, StillProvided DEF RemoveConfig, Purge, PurgeStop
  <1>7. CASE Prepare
    BY <1>7, StillProvided DEF Prepare
  <1>8. CASE CopyPort
    BY <1>8, StillProvided DEF CopyPort
  <1>9. CASE WritePort
    BY <1>9, StillProvided DEF WritePort
  <1>10. CASE WriteEnvFile
    BY <1>10, StillProvided DEF WriteEnvFile
  <1>11. CASE WriteEnv
    BY <1>11, StillProvided DEF WriteEnv
  <1>12. CASE CopyId
    BY <1>12, StillProvided DEF CopyId
  <1>13. CASE Clear
    BY <1>13, StillProvided DEF Clear
  <1>14. CASE Fill
    BY <1>14, StillProvided DEF Fill
  <1>15. CASE CopyState
    BY <1>15, StillProvided DEF CopyState
  <1>16. CASE Dump
    BY <1>16, StillProvided DEF Dump
  <1>17. CASE \E s \in BOOLEAN : Backup(s)
    BY <1>17, StillProvided DEF Backup
  <1>18. CASE \E r \in Release : Update(r)
    BY <1>18, StillProvided DEF Update
  <1>19. CASE RemoveSomeConfig
    BY <1>19, StillProvided DEF RemoveSomeConfig
  <1>20. CASE PurgeConfig
    BY <1>20, StillProvided DEF PurgeConfig
  <1>21. CASE PurgeState
    BY <1>21, StillProvided DEF PurgeState
  <1>22. CASE PurgeUnits
    BY <1>22, StillProvided DEF PurgeUnits
  <1>23. CASE PurgeDatabase
    BY <1>23, StillProvided DEF PurgeDatabase
  <1>24. CASE PurgeCode
    BY <1>24, StillProvided DEF PurgeCode
  <1>25. CASE UndoStart
    BY <1>25, StillProvided DEF UndoStart
  <1>26. CASE UndoFails
    BY <1>26, StillProvided DEF UndoFails
  <1>27. CASE Kill \/ Reboot
    BY <1>27, StoppedThere, StillProvided DEF Harmless
  <1>28. CASE Capture
    BY <1>28, StillProvided DEF Capture
  <1>29. CASE DoStep
    <2>1. /\ pc = "step" /\ (db' = db \/ db' # None)
      BY <1>29, NoneAssumption
         DEF DoStep, Perform, CreateDirectories, StageRelease, WriteConfiguration, InstallUnits,
         ProvisionDatabase, StartCoreServices, FinalizeManifest, Db
    <2>2. Done(state', "provision_database") <=> Done(state, "provision_database")
      BY <1>29, WroteAkin, AkinPairs
    <2>3. QED
      BY <2>1, <2>2 DEF Provided
  <1>30. CASE Record
    <2>1. /\ pc = "record" /\ db' = db
          /\ Done(state', "provision_database") =>
              Done(state, "provision_database") \/ NextStep = "provision_database"
      BY <1>30, RecordFits DEF Record
    <2>2. NextStep = "provision_database" => db # None
      BY <2>1 DEF Stepped
    <2>3. QED
      BY <2>1, <2>2 DEF Provided
  <1>31. CASE Load
    <2>1. /\ pc = "load" /\ db' = db
          /\ Done(state', "provision_database") => Done(state, "provision_database")
      BY <1>31, LoadFits DEF Load
    <2>2. QED
      BY <2>1 DEF Provided
  <1>32. CASE Forget
    <2>1. /\ pc = "forget" /\ db' = db
          /\ Done(state', "provision_database") => Done(state, "provision_database")
      BY <1>32, ForgetFits DEF Forget
    <2>2. QED
      BY <2>1 DEF Provided
  <1>33. CASE Preserve
    <2>1. /\ pc = "preserve" /\ db' = db
          /\ Done(state', "provision_database") => Done(state, "provision_database")
      BY <1>33, PreserveFits DEF Preserve
    <2>2. QED
      BY <2>1 DEF Provided
  <1>34. CASE ResetRun
    <2>1. state'.run = None
      BY <1>34, ResetRunDoes
    <2>2. QED
      BY <2>1 DEF Provided, Done
  <1>35. CASE Pack \/ WriteManifest
    <2>1. Akin(state, state') /\ db' = db /\ pc \in {"pack", "manifest"}
      BY <1>35, WroteAkin DEF Pack, WriteManifest
    <2>2. QED
      BY <2>1, AkinPairs DEF Provided
  <1>36. CASE Work
    <2>1. db' # None
      BY <1>36, WorkDoes, WorkLeaves
    <2>2. QED
      BY <2>1 DEF Provided
  <1>37. QED
    BY <1>1, <1>2, <1>3, <1>4, <1>5, <1>6, <1>7, <1>8, <1>9, <1>10, <1>11, <1>12, <1>13, <1>14,
       <1>15, <1>16, <1>17, <1>18, <1>19, <1>20, <1>21, <1>22, <1>23, <1>24, <1>25, <1>26, <1>27,
       <1>28, <1>29, <1>30, <1>31, <1>32, <1>33, <1>34, <1>35, <1>36 DEF Next, InstallNext,
       BackupNext, UpdateNext, RestoreNext, UndoNext, RemovalNext

-----------------------------------------------------------------------------
(* The instance.                                                           *)

LEMMA InstanceIdWillBe ==
  InstanceId' = IdOf(state', config')
  BY DEF InstanceId, IdOf

\* Nothing is moved that tells the instance.
LEMMA StillNamed ==
  ASSUME Named, UNCHANGED <<config, state, owner>>,
         pc' \in Nameless \/ pc \notin Nameless,
         pc' \notin Checked \/ (pc \in Checked /\ check' = check),
         pc' # "preserve", pc' \notin Removing \/ pc \in Removing
  PROVE  Named'
  BY InstanceIdIs, InstanceIdWillBe DEF Named

\* The checkpoint tells it.
LEMMA NamedByCheck ==
  ASSUME Named, owner' = owner, pc' \in Nameless,
         pc' \notin Checked \/ (pc \in Checked /\ check' = check),
         pc' # "preserve", pc' \notin Removing
  PROVE  Named'
  BY DEF Named

\* The files tell it.
LEMMA NamedByFiles ==
  ASSUME owner' # None => IdOf(state', config') = owner',
         pc' \notin Checked \cup Removing \cup {"preserve"}
  PROVE  Named'
  BY InstanceIdWillBe DEF Named

\* The instance-id is made once.
LEMMA DoStepNames ==
  ASSUME Typed, Handy, There, Fresh, Matched, Stepped, Named, DoStep
  PROVE  owner' # None => IdOf(state', config') = owner'
  <1>1. /\ At("step") /\ Left # {} /\ Perform(NextStep) /\ state # None /\ state.run # None
        /\ pc \in Stepping
    BY DoStepDoes DEF DoStep, At, Stepping
  <1>2. /\ Paired(state, config) /\ (config = None => ~HasId(state))
    BY <1>1, SteppingHas
  <1>3. owner # None => IdOf(state, config) = owner
    BY <1>1, InstanceIdIs DEF Named, Nameless, Apart, Refilled, Undoing, At
  <1>4. \A c : IdOf(state', c) = IdOf(state, c)
    BY WroteAkin, AkinPairs
  <1>5. CASE NextStep = "write_configuration" /\ WriteConfiguration
    <2>1. nextId <= MaxId
      BY <1>1, <1>5, NextStepIsLeft DEF Fresh, At
    <2>2. /\ config'.id # None /\ config' # None
          /\ config'.id = IF Directory.id = None THEN nextId ELSE Directory.id
          /\ owner' = IF owner = None THEN config'.id ELSE owner
      BY <1>1, <1>5, <2>1, WriteConfigurationDoes, NoneAssumption
    <2>3. IdOf(state', config') = config'.id
      BY <2>2 DEF IdOf
    <2>4. ASSUME owner # None PROVE config'.id = owner
      <3>1. config # None /\ config.id = owner
        BY <1>2, <1>3, <2>4 DEF Paired, IdOf, HasId
      <3>2. QED
        BY <2>2, <2>4, <3>1 DEF Directory
    <2>5. QED
      BY <2>2, <2>3, <2>4
  <1>6. CASE CreateDirectories
    <2>1. config' = Directory /\ owner' = owner
      BY <1>6 DEF CreateDirectories
    <2>2. IdOf(state, config') = IdOf(state, config)
      BY <2>1, DirectoryIs DEF IdOf
    <2>3. QED
      BY <1>3, <1>4, <2>1, <2>2
  <1>7. CASE UNCHANGED <<config, owner>>
    BY <1>3, <1>4, <1>7
  <1>8. QED
    BY <1>1, <1>5, <1>6, <1>7
       DEF Perform, StageRelease, InstallUnits, ProvisionDatabase, StartCoreServices,
       FinalizeManifest, disk

\* A restore that answers has brought back the instance of the backup; one of a
\* backup without a configuration has left the instance that was there.
LEMMA ReportNames ==
  ASSUME Typed, Handy, Restored, Packed, Pinned, Matched, Named, Report
  PROVE  owner' # None => IdOf(state', config') = owner'
  <1>1. /\ pc = "report" /\ UNCHANGED <<state, config>> /\ pc \in Refilled /\ pc \in Restoring
        /\ pc \in Checked \ Undoing /\ Healthy
        /\ owner' = IF held.config = None THEN owner ELSE held.id
    BY DEF Report, At, disk, Refilled, Restoring, Checked, Undoing, Restored
  <1>2. Whole(held) /\ Whole(check) /\ Paired(state, config)
    BY <1>1 DEF Packed, Pinned, Matched, Apart, Undoing, Copying
  <1>3. /\ state.preserved = held.state.preserved /\ held.config \in {config, None}
        /\ held.config = None => config = check.config
    BY <1>1 DEF Restored
  <1>4. config # None /\ config.id # None
    BY <1>1, <1>2 DEF Healthy, Paired, Ordered
  <1>5. IdOf(state', config') = config.id
    BY <1>1, <1>4 DEF IdOf
  <1>6. CASE held.config # None
    BY <1>1, <1>2, <1>3, <1>4, <1>5, <1>6 DEF Whole, IdOf
  <1>7. CASE held.config = None
    <2>1. check.id = config.id
      BY <1>2, <1>3, <1>4, <1>7 DEF Whole, IdOf
    <2>2. QED
      BY <1>1, <1>5, <1>7, <2>1 DEF Named
  <1>8. QED
    BY <1>6, <1>7

\* The instance keeps its id.
LEMMA NamedStep ==
  ASSUME Typed, Handy, There, Fresh, Restored, Packed, Pinned, Matched, Copied, Stepped, Named,
         Next, ~torn'
  PROVE  Named'
  <1> USE DEF Nameless, Apart, Removing, At, Goto, Plainly, Begin, End, Stopped, disk, kit, locals,
     history, Installing, Copying, Stepping, Packing, Switching, Restoring, Refilled, Checked,
     Undoing
  <1>1. CASE (\E r \in Release : Install(r)) \/ Refuse \/ Finish \/ StepFails \/ BackupFails \/
            Stage
    BY <1>1, StillNamed DEF Install, Refuse, Finish, StepFails, BackupFails, Stage
  <1>2. CASE CutOver \/ Restart \/ Probe \/ UpdateFails \/ Revert \/ Stop
    BY <1>2, StillNamed DEF CutOver, Restart, Probe, UpdateFails, Revert, Stop
  <1>3. CASE Halt \/ RemoveUnits \/ Purge \/ PurgeStop \/ PurgeDatabase \/ PurgeUnits
    BY <1>3, StillNamed DEF Halt, RemoveUnits, Purge, PurgeStop, PurgeDatabase, PurgeUnits
  <1>4. CASE CopyState
    BY <1>4, StillNamed DEF CopyState
  <1>5. CASE Dump
    BY <1>5, StillNamed DEF Dump
  <1>6. CASE \E s \in BOOLEAN : Backup(s)
    BY <1>6, StillNamed DEF Backup
  <1>7. CASE \E r \in Release : Update(r)
    BY <1>7, StillNamed DEF Update
  <1>8. CASE \E n \in 1 .. MaxArchive, replace \in BOOLEAN : Restore(n, replace)
    BY <1>8, StillNamed DEF Restore
  <1>9. CASE CaptureFails
    BY <1>9, StillNamed DEF CaptureFails
  <1>10. CASE RemoveCode
    BY <1>10, StillNamed DEF RemoveCode
  <1>11. CASE Clear
    BY <1>11, NamedByCheck DEF Clear
  <1>12. CASE Fill
    BY <1>12, NamedByCheck DEF Fill
  <1>13. CASE DropConfig
    BY <1>13, NamedByCheck DEF DropConfig
  <1>14. CASE FillConfig
    BY <1>14, NamedByCheck DEF FillConfig
  <1>15. CASE LoadDatabase
    BY <1>15, NamedByCheck DEF LoadDatabase
  <1>16. CASE Start
    BY <1>16, NamedByCheck DEF Start
  <1>17. CASE Check
    BY <1>17, NamedByCheck DEF Check
  <1>18. CASE RestoreFails
    BY <1>18, NamedByCheck DEF RestoreFails
  <1>19. CASE UndoClear
    BY <1>19, NamedByCheck DEF UndoClear
  <1>20. CASE UndoFill
    BY <1>20, NamedByCheck DEF UndoFill
  <1>21. CASE UndoDropConfig
    BY <1>21, NamedByCheck DEF UndoDropConfig
  <1>22. CASE UndoFillConfig
    BY <1>22, NamedByCheck DEF UndoFillConfig
  <1>23. CASE UndoDatabase
    BY <1>23, NamedByCheck DEF UndoDatabase
  <1>24. CASE PurgeConfig
    BY <1>24, NamedByCheck DEF PurgeConfig
  <1>25. CASE PurgeState
    BY <1>25, NamedByCheck DEF PurgeState
  <1>26. CASE DoStep
    <2>1. pc' \in {"port", "record"}
      BY <1>26, DoStepDoes
    <2>2. QED
      BY <1>26, <2>1, DoStepNames, NamedByFiles
  <1>27. CASE Report
    <2>1. pc' = "idle"
      BY <1>27 DEF Report
    <2>2. QED
      BY <1>27, <2>1, ReportNames, NamedByFiles
  <1>28. CASE Prepare
    <2>1. /\ owner' = owner /\ pc' \notin Checked \cup Removing \cup {"preserve"}
          /\ owner # None => IdOf(state, config) = owner
          /\ state' = state
      BY <1>28, InstanceIdIs DEF Prepare, Named
    <2>2. config' = config \/ (config = None /\ config' = NoFiles)
      BY <1>28 DEF Prepare
    <2>3. NoFiles.id = None
      BY DEF NoFiles
    <2>4. IdOf(state', config') = IdOf(state, config)
      BY <2>1, <2>2, <2>3 DEF IdOf
    <2>5. QED
      BY <2>1, <2>4, NamedByFiles
  <1>29. CASE CopyId
    <2>1. /\ owner' = owner /\ pc' \notin Checked \cup Removing \cup {"preserve"}
          /\ owner # None => IdOf(state, config) = owner
          /\ state' = state /\ config = NoFiles /\ state # None /\ state.preserved # None
      BY <1>29, InstanceIdIs DEF CopyId, Named, Copied, There
    <2>2. config'.id = state.preserved.id
      BY <1>29, <2>1, CopyIdDoes
    <2>3. IdOf(state', config') = IdOf(state, config)
      BY <2>1, <2>2 DEF IdOf, NoFiles
    <2>4. QED
      BY <2>1, <2>3, NamedByFiles
  <1>30. CASE CopyPort
    <2>1. /\ owner' = owner /\ pc' \notin Checked \cup Removing \cup {"preserve"}
          /\ owner # None => IdOf(state, config) = owner
          /\ state' = state /\ config # None
      BY <1>30, InstanceIdIs DEF CopyPort, Named, There
    <2>2. config' # None /\ config'.id = config.id
      BY <1>30, CopyPortDoes, NoneAssumption
    <2>3. IdOf(state', config') = IdOf(state, config)
      BY <2>1, <2>2 DEF IdOf
    <2>4. QED
      BY <2>1, <2>3, NamedByFiles
  <1>31. CASE ResetRun
    <2>1. /\ owner' = owner /\ pc' \notin Checked \cup Removing \cup {"preserve"}
          /\ owner # None => IdOf(state, config) = owner
          /\ config' = config /\ state # None
      BY <1>31, InstanceIdIs DEF ResetRun, Named, There
    <2>2. state' # None /\ state'.preserved = state.preserved
      BY <1>31, ResetRunDoes, NoneAssumption DEF Wrote
    <2>3. IdOf(state', config') = IdOf(state, config)
      BY <2>1, <2>2 DEF IdOf
    <2>4. QED
      BY <2>1, <2>3, NamedByFiles
  <1>32. CASE Load
    <2>1. /\ owner' = owner /\ pc' \notin Checked \cup Removing \cup {"preserve"}
          /\ owner # None => IdOf(state, config) = owner
      BY <1>32, InstanceIdIs DEF Load, Named
    <2>2. IdOf(state', config') = IdOf(state, config)
      BY <1>32, LoadFits
    <2>3. QED
      BY <2>1, <2>2, NamedByFiles
  <1>33. CASE WritePort
    <2>1. /\ owner' = owner /\ pc' \notin Checked \cup Removing \cup {"preserve"}
          /\ owner # None => IdOf(state, config) = owner
          /\ state' = state /\ config # None
      BY <1>33, InstanceIdIs DEF WritePort, Named, There
    <2>2. config' # None /\ config'.id = config.id
      BY <1>33, WritePortDoes, NoneAssumption
    <2>3. IdOf(state', config') = IdOf(state, config)
      BY <2>1, <2>2 DEF IdOf
    <2>4. QED
      BY <2>1, <2>3, NamedByFiles
  <1>34. CASE WriteEnvFile
    <2>1. /\ owner' = owner /\ pc' \notin Checked \cup Removing \cup {"preserve"}
          /\ owner # None => IdOf(state, config) = owner
          /\ state' = state /\ config # None
      BY <1>34, InstanceIdIs DEF WriteEnvFile, Named, There
    <2>2. config' # None /\ config'.id = config.id
      BY <1>34, WriteEnvFileDoes, NoneAssumption
    <2>3. IdOf(state', config') = IdOf(state, config)
      BY <2>1, <2>2 DEF IdOf
    <2>4. QED
      BY <2>1, <2>3, NamedByFiles
  <1>35. CASE WriteEnv
    <2>1. /\ owner' = owner /\ pc' \notin Checked \cup Removing \cup {"preserve"}
          /\ owner # None => IdOf(state, config) = owner
          /\ state' = state /\ config # None
      BY <1>35, InstanceIdIs DEF WriteEnv, Named, There
    <2>2. config' # None /\ config'.id = config.id
      BY <1>35, WriteEnvDoes, NoneAssumption
    <2>3. IdOf(state', config') = IdOf(state, config)
      BY <2>1, <2>2 DEF IdOf
    <2>4. QED
      BY <2>1, <2>3, NamedByFiles
  <1>36. CASE Record
    <2>1. /\ owner' = owner /\ pc' \notin Checked \cup Removing \cup {"preserve"}
          /\ owner # None => IdOf(state, config) = owner
          /\ config' = config /\ state # None
      BY <1>36, InstanceIdIs DEF Record, Named, There
    <2>2. state' # None /\ state'.preserved = state.preserved
      BY <1>36, RecordDoes, NoneAssumption DEF Wrote
    <2>3. IdOf(state', config') = IdOf(state, config)
      BY <2>1, <2>2 DEF IdOf
    <2>4. QED
      BY <2>1, <2>3, NamedByFiles
  <1>37. CASE Pack \/ WriteManifest
    <2>1. /\ owner' = owner /\ pc' \notin Checked \cup Removing \cup {"preserve"}
          /\ owner # None => IdOf(state, config) = owner
          /\ config' = config
      BY <1>37, InstanceIdIs DEF Pack, WriteManifest, Named
    <2>2. IdOf(state', config') = IdOf(state, config)
      BY <1>37, <2>1, WroteAkin, AkinPairs
    <2>3. QED
      BY <2>1, <2>2, NamedByFiles
  <1>38. CASE Forget
    <2>1. /\ owner' = owner /\ config' = config /\ pc' = "preserve" /\ config # None
          /\ owner # None => InstanceId = owner
      BY <1>38 DEF Forget, Named, There
    <2>2. owner # None => config.id = owner
      BY <1>38, <2>1, ForgetFits
    <2>3. owner # None => IdOf(state', config') = owner
      BY <2>1, <2>2 DEF IdOf
    <2>4. QED
      BY <2>1, <2>2, <2>3, InstanceIdWillBe DEF Named
  <1>39. CASE Preserve
    <2>1. /\ owner' = owner /\ pc' = "halt" /\ (owner # None => config.id = owner)
      BY <1>39 DEF Preserve, Named
    <2>2. config' = config /\ state' # None /\ state'.preserved = config /\ config # None
      BY <1>39, PreserveFits
    <2>3. owner # None => IdOf(state', config') = owner
      BY <2>1, <2>2 DEF IdOf
    <2>4. owner # None => HasId(state') /\ state'.preserved.id = owner
      BY <2>1, <2>2 DEF HasId
    <2>5. QED
      BY <2>1, <2>3, <2>4, InstanceIdWillBe DEF Named
  <1>40. CASE Uninstall
    <2>1. /\ UNCHANGED <<owner, state, config>>
          /\ pc' = IF config = None THEN "halt" ELSE "forget"
          /\ owner # None => IdOf(state, config) = owner
      BY <1>40, InstanceIdIs DEF Uninstall, Named
    <2>2. owner # None /\ config = None => HasId(state) /\ state.preserved.id = owner
      BY <2>1 DEF IdOf, HasId
    <2>3. QED
      BY <2>1, <2>2, InstanceIdWillBe DEF Named
  <1>41. CASE RemoveSomeConfig
    <2>1. /\ owner' = owner /\ state' = state /\ pc' = "rest of config"
          /\ owner # None => /\ IdOf(state, config) = owner
                             /\ HasId(state) /\ state.preserved.id = owner
      BY <1>41, InstanceIdIs DEF RemoveSomeConfig, Named
    <2>2. config' = None \/ config'.id = None \/ (config # None /\ config'.id = config.id)
      BY <1>41 DEF RemoveSomeConfig, Typed, DiskTyped, Maybe, Config
    <2>3. owner # None => IdOf(state', config') = owner
      BY <2>1, <2>2 DEF IdOf, HasId
    <2>4. QED
      BY <2>1, <2>3, InstanceIdWillBe DEF Named
  <1>42. CASE RemoveConfig
    <2>1. /\ owner' = owner /\ state' = state /\ config' = None /\ pc' = "idle"
          /\ owner # None => HasId(state) /\ state.preserved.id = owner
      BY <1>42 DEF RemoveConfig, Named
    <2>2. owner # None => IdOf(state', config') = owner
      BY <2>1 DEF IdOf, HasId
    <2>3. QED
      BY <2>1, <2>2, NamedByFiles
  <1>43. CASE Capture
    <2>1. /\ UNCHANGED <<owner, state, config>> /\ pc' = "stop"
          /\ owner # None => IdOf(state, config) = owner
      BY <1>43, InstanceIdIs DEF Capture, Named
    <2>2. check'.id = IdOf(state, config)
      BY <1>43, CaptureTakes
    <2>3. QED
      BY <2>1, <2>2, InstanceIdWillBe DEF Named
  <1>44. CASE UndoStart
    <2>1. /\ owner' = owner /\ UNCHANGED <<state, config>> /\ pc' = "idle"
          /\ owner # None => check.id = owner
      BY <1>44 DEF UndoStart, Named
    <2>2. check.id = IdOf(state, config)
      BY <1>44, UndoStartFits
    <2>3. QED
      BY <2>1, <2>2, NamedByFiles
  <1>45. CASE UndoFails
    BY <1>45 DEF UndoFails
  <1>46. CASE PurgeCode
    <2>1. owner' = None
      BY <1>46 DEF PurgeCode
    <2>2. QED
      BY <2>1 DEF Named
  <1>47. CASE Kill \/ Reboot
    BY <1>47, StoppedThere, StillNamed DEF Harmless
  <1>48. CASE Work
    <2>1. /\ UNCHANGED <<config, pc, owner, check>> /\ Akin(state, state')
          /\ state'.preserved = state.preserved
      BY <1>48, WroteAkin, WorkLeaves, WorkRuns
    <2>2. /\ IdOf(state', config') = IdOf(state, config)
          /\ HasId(state') <=> HasId(state)
      BY <2>1, AkinPairs
    <2>3. QED
      BY <2>1, <2>2, InstanceIdIs, InstanceIdWillBe DEF Named
  <1>49. QED
    BY <1>1, <1>2, <1>3, <1>4, <1>5, <1>6, <1>7, <1>8, <1>9, <1>10, <1>11, <1>12, <1>13, <1>14,
       <1>15, <1>16, <1>17, <1>18, <1>19, <1>20, <1>21, <1>22, <1>23, <1>24, <1>25, <1>26, <1>27,
       <1>28, <1>29, <1>30, <1>31, <1>32, <1>33, <1>34, <1>35, <1>36, <1>37, <1>38, <1>39, <1>40,
       <1>41, <1>42, <1>43, <1>44, <1>45, <1>46, <1>47, <1>48 DEF Next, InstallNext, BackupNext,
       UpdateNext, RestoreNext, UndoNext, RemovalNext

-----------------------------------------------------------------------------
(* The secrets.                                                            *)

\* Nothing is taken from the state.
LEMMA StillSecret ==
  ASSUME Secret, kept' = kept, pc \notin Exposed, pc' # "fill",
         UNCHANGED state \/ Wrote(state, state'), state # None => state' # None,
         pc' \notin Checked \/ (pc \in Checked /\ check' = check)
  PROVE  Secret'
  BY DEF Secret, Exposed, Wrote

\* The checkpoint has them.
LEMMA SecretInCheck ==
  ASSUME Secret, kept' = kept, pc \in Checked, check' = check, pc' \in {"undo clear", "undo fill"}
  PROVE  Secret'
  BY DEF Secret, Exposed

\* The secrets are on the host or in the checkpoint.
LEMMA SecretStep ==
  ASSUME Typed, Handy, There, Stocked, Serving, Secret, Next, ~torn'
  PROVE  Secret'
  <1> USE DEF Exposed, At, Goto, Plainly, Begin, End, Stopped, disk, kit, locals, history,
     Installing, Copying, Stepping, Packing, Switching, Restoring, Refilled, Checked, Undoing
  <1>1. CASE (\E r \in Release : Install(r)) \/ Refuse \/ Finish \/ StepFails \/ BackupFails \/
            Stage
    BY <1>1, StillSecret DEF Install, Refuse, Finish, StepFails, BackupFails, Stage
  <1>2. CASE CutOver \/ Restart \/ Probe \/ UpdateFails \/ Revert \/ Stop
    BY <1>2, StillSecret DEF CutOver, Restart, Probe, UpdateFails, Revert, Stop
  <1>3. CASE DropConfig \/ FillConfig \/ LoadDatabase \/ Start \/ Check \/ Report
    BY <1>3, StillSecret DEF DropConfig, FillConfig, LoadDatabase, Start, Check, Report
  <1>4. CASE UndoDropConfig \/ UndoFillConfig \/ UndoDatabase \/ Uninstall \/ Halt \/ RemoveUnits
    BY <1>4, StillSecret DEF UndoDropConfig, UndoFillConfig, UndoDatabase, Uninstall, Halt,
       RemoveUnits
  <1>5. CASE RemoveConfig \/ Purge \/ PurgeStop \/ PurgeDatabase \/ PurgeUnits
    BY <1>5, StillSecret DEF RemoveConfig, Purge, PurgeStop, PurgeDatabase, PurgeUnits
  <1>6. CASE Prepare
    BY <1>6, StillSecret DEF Prepare
  <1>7. CASE CopyId
    BY <1>7, StillSecret DEF CopyId
  <1>8. CASE CopyPort
    BY <1>8, StillSecret DEF CopyPort
  <1>9. CASE WritePort
    BY <1>9, StillSecret DEF WritePort
  <1>10. CASE WriteEnvFile
    BY <1>10, StillSecret DEF WriteEnvFile
  <1>11. CASE WriteEnv
    BY <1>11, StillSecret DEF WriteEnv
  <1>12. CASE CopyState
    BY <1>12, StillSecret DEF CopyState
  <1>13. CASE Dump
    BY <1>13, StillSecret DEF Dump
  <1>14. CASE \E s \in BOOLEAN : Backup(s)
    BY <1>14, StillSecret DEF Backup
  <1>15. CASE \E r \in Release : Update(r)
    BY <1>15, StillSecret DEF Update
  <1>16. CASE \E n \in 1 .. MaxArchive, replace \in BOOLEAN : Restore(n, replace)
    BY <1>16, StillSecret DEF Restore
  <1>17. CASE CaptureFails
    BY <1>17, StillSecret DEF CaptureFails
  <1>18. CASE RemoveCode
    BY <1>18, StillSecret DEF RemoveCode
  <1>19. CASE RemoveSomeConfig
    BY <1>19, StillSecret DEF RemoveSomeConfig
  <1>20. CASE PurgeConfig
    BY <1>20, StillSecret DEF PurgeConfig
  <1>21. CASE ResetRun
    <2>1. /\ kept' = kept /\ pc \notin Exposed /\ pc' # "fill" /\ pc' \notin Checked
      BY <1>21 DEF ResetRun
    <2>2. Wrote(state, state') /\ state' # None
      BY <1>21, ResetRunDoes, NoneAssumption DEF Wrote
    <2>3. QED
      BY <2>1, <2>2, StillSecret
  <1>22. CASE Load
    <2>1. /\ kept' = kept /\ pc \notin Exposed /\ pc' # "fill" /\ pc' \notin Checked
      BY <1>22 DEF Load
    <2>2. state # None => Wrote(state, state') /\ state' # None
      BY <1>22, LoadDoes, NoneAssumption DEF Wrote
    <2>3. QED
      BY <2>1, <2>2 DEF Secret, Wrote
  <1>23. CASE Record
    <2>1. /\ kept' = kept /\ pc \notin Exposed /\ pc' # "fill" /\ pc' \notin Checked
      BY <1>23 DEF Record
    <2>2. Wrote(state, state') /\ state' # None
      BY <1>23, RecordDoes, NoneAssumption DEF Wrote
    <2>3. QED
      BY <2>1, <2>2, StillSecret
  <1>24. CASE WriteManifest
    <2>1. /\ kept' = kept /\ pc \notin Exposed /\ pc' # "fill" /\ pc' \notin Checked
      BY <1>24 DEF WriteManifest
    <2>2. Wrote(state, state') /\ state' # None
      BY <1>24, WriteManifestDoes, NoneAssumption DEF Wrote
    <2>3. QED
      BY <2>1, <2>2, StillSecret
  <1>25. CASE Forget
    <2>1. /\ kept' = kept /\ pc \notin Exposed /\ pc' # "fill" /\ pc' \notin Checked
      BY <1>25 DEF Forget
    <2>2. state # None => Wrote(state, state') /\ state' # None
      BY <1>25, ForgetDoes, NoneAssumption DEF Wrote
    <2>3. QED
      BY <2>1, <2>2 DEF Secret, Wrote
  <1>26. CASE Preserve
    <2>1. /\ kept' = kept /\ pc \notin Exposed /\ pc' # "fill" /\ pc' \notin Checked
      BY <1>26 DEF Preserve
    <2>2. Wrote(state, state') /\ state' # None
      BY <1>26, PreserveDoes, NoneAssumption DEF Wrote
    <2>3. QED
      BY <2>1, <2>2, StillSecret
  <1>27. CASE DoStep
    <2>1. kept' = kept /\ pc = "step"
      BY <1>27 DEF DoStep
    <2>2. Wrote(state, state') /\ state' # None /\ pc' \in {"port", "record"}
      BY <1>27, DoStepDoes
    <2>3. QED
      BY <2>1, <2>2, StillSecret
  <1>28. CASE Pack
    <2>1. kept' = kept /\ pc = "pack" /\ pc' \in {"idle", "stage"}
      BY <1>28 DEF Pack
    <2>2. state \in State
      BY <1>28 DEF Pack, There, Typed, DiskTyped, Maybe
    <2>3. state' = state
          \/ (\E n \in 1 .. MaxArchive : state' = [state EXCEPT !.backups = @ \cup {n}])
      BY <1>28 DEF Pack
    <2>4. state' \in State /\ state'.secrets = state.secrets
      BY <2>2, <2>3 DEF State
    <2>5. QED
      BY <2>1, <2>4, NoneAssumption DEF Secret
  <1>29. CASE Capture
    <2>1. kept' = kept /\ state' = state /\ pc = "capture" /\ pc' = "stop"
      BY <1>29 DEF Capture
    <2>2. /\ state # None => /\ check'.state # None
                             /\ check'.state.secrets = state.secrets
      BY <1>29, CaptureDoes, NoneAssumption
    <2>3. QED
      BY <2>1, <2>2 DEF Secret
  <1>30. CASE Clear
    <2>1. UNCHANGED <<kept, held, check>> /\ pc = "clear" /\ pc' = "fill"
      BY <1>30 DEF Clear
    <2>2. state # None /\ state.secrets => state'.secrets \/ held.state.secrets
      BY <1>30, ClearDoes
    <2>3. QED
      BY <2>1, <2>2 DEF Secret
  <1>31. CASE Fill
    <2>1. UNCHANGED <<kept, check>> /\ pc = "fill" /\ pc' \in {"load database", "drop config"}
      BY <1>31 DEF Fill
    <2>2. state' # None /\ state'.secrets = (held.state.secrets \/ state.secrets)
      BY <1>31, FillDoes, NoneAssumption
    <2>3. QED
      BY <2>1, <2>2 DEF Secret
  <1>32. CASE RestoreFails
    BY <1>32, SecretInCheck DEF RestoreFails
  <1>33. CASE UndoClear
    BY <1>33, SecretInCheck DEF UndoClear
  <1>34. CASE UndoFill
    <2>1. UNCHANGED <<kept, check>> /\ pc = "undo fill" /\ pc' = "undo drop config"
      BY <1>34 DEF UndoFill
    <2>2. check.state # None => state' = check.state
      BY <1>34, UndoFillDoes
    <2>3. QED
      BY <2>1, <2>2 DEF Secret
  <1>35. CASE UndoFails
    BY <1>35 DEF UndoFails
  <1>36. CASE UndoStart
    BY <1>36, StillSecret DEF UndoStart
  <1>37. CASE PurgeState
    <2>1. kept' = kept /\ pc' = "purge code"
      BY <1>37 DEF PurgeState
    <2>2. QED
      BY <2>1 DEF Secret
  <1>38. CASE PurgeCode
    <2>1. ~kept'
      BY <1>38 DEF PurgeCode
    <2>2. QED
      BY <2>1 DEF Secret
  <1>39. CASE Kill \/ Reboot
    BY <1>39, StoppedThere, StillSecret DEF Harmless
  <1>40. CASE Work
    <2>1. /\ UNCHANGED <<pc, check>> /\ pc \notin {"fill", "purge code"}
      BY <1>40, WorkLeaves DEF Serving, Silent, Quiet, Stripped
    <2>2. Wrote(state, state') /\ state' # None /\ state # None
      BY <1>40, WorkDoes, WorkLeaves, WorkRuns
    <2>3. CASE kept' = kept
      BY <2>1, <2>2, <2>3 DEF Secret, Wrote
    <2>4. CASE kept' = (kept \/ check = None) /\ state'.secrets
      BY <2>1, <2>2, <2>4 DEF Secret, Handy
    <2>5. QED
      BY <1>40, <2>3, <2>4, WorkDoes
  <1>41. QED
    BY <1>1, <1>2, <1>3, <1>4, <1>5, <1>6, <1>7, <1>8, <1>9, <1>10, <1>11, <1>12, <1>13, <1>14,
       <1>15, <1>16, <1>17, <1>18, <1>19, <1>20, <1>21, <1>22, <1>23, <1>24, <1>25, <1>26, <1>27,
       <1>28, <1>29, <1>30, <1>31, <1>32, <1>33, <1>34, <1>35, <1>36, <1>37, <1>38, <1>39, <1>40 DEF
       Next, InstallNext, BackupNext, UpdateNext, RestoreNext, UndoNext, RemovalNext

-----------------------------------------------------------------------------
(* The invariant is inductive.                                             *)

\* A host without GenOS.
LEMMA Initially ==
  ASSUME Init
  PROVE  IInv
  <1> USE DEF Init
  <1>1. Typed
    <2>1. DiskTyped
      BY DEF DiskTyped, Maybe
    <2>2. KitTyped
      BY LifecycleAssumption DEF KitTyped, Maybe
    <2>3. LocalsTyped
      BY DEF LocalsTyped, Maybe, Steps
    <2>4. HistoryTyped
      <3>1. Limit \in Nat /\ used = 0
        BY LifecycleAssumption
      <3>2. used \in 0 .. Limit
        BY <3>1
      <3>3. owner \in Maybe(Id) /\ kept \in BOOLEAN /\ torn \in BOOLEAN
        BY DEF Maybe
      <3>4. QED
        BY <3>2, <3>3 DEF HistoryTyped
    <2>5. QED
      BY <2>1, <2>2, <2>3, <2>4 DEF Typed
  <1>2. Handy /\ There
    BY DEF Handy, There, Installing, Copying, Stepping, Packing, Switching, Restoring, Refilled,
           Checked, Undoing
  <1>3. Fresh
    BY DEF Fresh, Installing, Copying, Stepping
  <1>4. Stocked
    BY DEF Stocked, Stored
  <1>5. Serving
    BY DEF Serving, Silent, Quiet, Stripped, Packing, Switching, Restoring, Refilled
  <1>6. Restored
    BY DEF Restored, Refilled, Checked, Restoring, Undoing
  <1>7. Paired(state, config) /\ Backed(state, config) /\ ~Done(state, "provision_database")
    BY DEF Paired, Backed, Evident, Ordered, Done
  <1>8. Packed /\ Pinned
    BY DEF Packed, Pinned, Packing, Switching, Restoring, Refilled, Checked, Undoing
  <1>9. Matched
    BY <1>7 DEF Matched
  <1>10. Copied /\ Stepped /\ Cleared /\ Provided
    BY <1>7 DEF Copied, Copying, Stepped, Stepping, Cleared, Removing, Provided
  <1>11. Named /\ Secret
    BY DEF Named, Secret
  <1>12. QED
    BY <1>1, <1>2, <1>3, <1>4, <1>5, <1>6, <1>8, <1>9, <1>10, <1>11 DEF IInv, Proven

LEMMA Stuttering ==
  ASSUME IInv, UNCHANGED vars
  PROVE  IInv'
  <1>1. /\ UNCHANGED <<config, state, db, releases, current, units, owned, running>>
        /\ UNCHANGED <<archives, vault, nextId, pc, command, rel, before, held, check>>
        /\ UNCHANGED <<owner, kept, torn, used>>
    BY DEF vars, disk, kit, locals, history
  <1>2. Left' = Left
    BY <1>1 DEF Left
  <1>3. NextStep' = NextStep
    BY <1>2 DEF NextStep
  <1>4. Typed'
    BY <1>1 DEF IInv, Typed, DiskTyped, KitTyped, LocalsTyped, HistoryTyped
  <1>5. Handy' /\ There' /\ Fresh'
    BY <1>1, <1>2, <1>3 DEF IInv, Handy, There, Fresh
  <1>6. Stocked'
    BY <1>1 DEF IInv, Stocked, Stored
  <1>7. Serving'
    BY <1>1, StartedStays DEF IInv, Serving
  <1>8. Restored'
    BY <1>1 DEF IInv, Restored, Healthy
  <1>9. ASSUME ~torn PROVE Packed' /\ Pinned' /\ Matched' /\ Copied'
    BY <1>1, <1>9 DEF IInv, Proven, Packed, Pinned, Matched, Copied, Backed
  <1>10. ASSUME ~torn PROVE Stepped' /\ Cleared' /\ Provided'
    BY <1>1, <1>3, <1>10 DEF IInv, Proven, Stepped, Cleared, Provided
  <1>11. ASSUME ~torn PROVE Named' /\ Secret'
    BY <1>1, <1>11, InstanceIdIs, InstanceIdWillBe DEF IInv, Named, Secret
  <1>12. QED
    BY <1>1, <1>4, <1>5, <1>6, <1>7, <1>8, <1>9, <1>10, <1>11 DEF IInv, Proven

LEMMA Step ==
  ASSUME IInv, Next
  PROVE  IInv'
  <1>1. Typed /\ Handy /\ There /\ Fresh /\ Stocked /\ Serving /\ Restored
    BY DEF IInv
  <1>2. Typed'
    BY <1>1, DiskTypes, KitTypes, LocalsTypes, HistoryTypes DEF Typed
  <1>3. Handy' /\ There'
    BY <1>1, HandyStep, ThereStep
  <1>4. Fresh' /\ Stocked'
    BY <1>1, FreshStep, StockedStep
  <1>5. Serving' /\ Restored'
    BY <1>1, ServingStep, RestoredStep
  <1>6. ASSUME ~torn' PROVE Proven' /\ Named' /\ Secret'
    <2>1. Packed /\ Pinned /\ Matched /\ Copied /\ Stepped /\ Cleared /\ Provided /\ Named /\ Secret
      BY <1>6, TornStays DEF IInv, Proven
    <2>2. Packed' /\ Pinned'
      BY <1>1, <1>6, <2>1, PackedStep, PinnedStep
    <2>3. Matched'
      BY <1>1, <1>6, <2>1, MatchedStep
    <2>4. Copied' /\ Stepped'
      BY <1>1, <1>6, <2>1, CopiedStep, SteppedStep
    <2>5. Cleared' /\ Provided'
      BY <1>1, <1>5, <1>6, <2>1, ClearedStep, ProvidedStep
    <2>6. Named' /\ Secret'
      BY <1>1, <1>6, <2>1, NamedStep, SecretStep
    <2>7. QED
      BY <2>2, <2>3, <2>4, <2>5, <2>6 DEF Proven
  <1>7. QED
    BY <1>2, <1>3, <1>4, <1>5, <1>6 DEF IInv

\* The invariant holds of every host, however often its commands are killed or fail:
\* what a command has in hand and finds on the disk at each of its steps, what the
\* services run, what a restore has brought back; and, unless a command was stopped
\* where nothing resumes it, that state and configuration go together, that they name
\* the instance and that they hold its secrets.
THEOREM Invariance == Spec => []IInv
  <1>1. Init => IInv
    BY Initially
  <1>2. IInv /\ [Next]_vars => IInv'
    BY Step, Stuttering
  <1>3. QED
    BY <1>1, <1>2, PTL DEF Spec

-----------------------------------------------------------------------------
(* What follows from it.                                                   *)

\* Every variable holds a value of its kind, and each backup that the host or the
\* vault is said to keep is there.
THEOREM TypeCorrect == Spec => []TypeOK
  <1>1. IInv => TypeOK
    BY DEF IInv, Typed, DiskTyped, KitTyped, LocalsTyped, HistoryTyped, Stocked, TypeOK
  <1>2. QED
    BY <1>1, Invariance, PTL

\* An install that answers SUCCEEDED has left units, code, the three files of the
\* configuration, the manifest and the database, whether or not it was resumed from
\* the evidence of the steps that it had recorded: what a recorded step has made was
\* not removed since, or its record was.
THEOREM SuccessInstalls == Spec => []SucceededIsInstalled
  <1>1. ASSUME IInv, command = "install", At("step"), Left = {}, ~torn
        PROVE  /\ units /\ current \in releases
               /\ config # None /\ config.id # None /\ config.port /\ config.sha # None
               /\ state.manifest # None /\ db # None
    <2>1. /\ state # None /\ state.run # None /\ pc = "step" /\ pc \in Stepping
      BY <1>1 DEF IInv, There, Stepping, At
    <2>2. \A step \in Plan : Done(state, step)
      BY <1>1, <2>1, DoneIsNotLeft
    <2>3. /\ Done(state, "write_configuration") /\ Done(state, "verify_local_core")
          /\ Done(state, "finalize_manifest") /\ Done(state, "provision_database")
      BY <2>2 DEF Plan
    <2>4. Matched /\ Stepped /\ Provided /\ Serving
      BY <1>1 DEF IInv, Proven
    <2>5. Paired(state, config) /\ Backed(state, config) /\ Complete(config)
      BY <2>1, <2>3, <2>4, SteppingHas
    <2>6. units /\ current # None
      BY <2>3, <2>5 DEF Backed, Complete
    <2>7. state.manifest # None
      BY <2>3, <2>5 DEF Paired, Evident
    <2>8. db # None
      BY <2>1, <2>3, <2>4 DEF Provided
    <2>9. QED
      BY <2>4, <2>5, <2>6, <2>7, <2>8 DEF Complete, Serving
  <1>2. IInv => SucceededIsInstalled
    BY <1>1 DEF SucceededIsInstalled
  <1>3. QED
    BY <1>2, Invariance, PTL

\* Between commands the host is the instance that it was made, or that a restore with
\* replacement has made it: the id is not made anew by a reinstall or by a resumed
\* install, and uninstall, update, restore and rollback do not lose it.
THEOREM IdentityStays == Spec => []IdentityIsStable
  <1>1. IInv => IdentityIsStable
    BY DEF IInv, IdentityIsStable, Named, Nameless, Apart, Undoing, Copying, Refilled, At
  <1>2. QED
    BY <1>1, Invariance, PTL

\* Secret material is there between commands once the services have stored it: a
\* restore keeps it if the backup has none, and a rollback takes it from the checkpoint.
THEOREM SecretsStay == Spec => []SecretsAreKept
  <1>1. IInv => SecretsAreKept
    BY DEF IInv, SecretsAreKept, Secret, Exposed, At
  <1>2. QED
    BY <1>1, Invariance, PTL

\* A restore that answers has brought back the whole of the backup, and the code that
\* runs is the code that is installed; this one needs no exception for hosts that were
\* left half-way before.
THEOREM RestoresWhole == Spec => []RestoreIsWhole
  <1>1. ASSUME IInv, At("report")
        PROVE  /\ held.config \in {config, None}
               /\ state.manifest = held.state.manifest /\ state.run = held.state.run
               /\ running = current
               /\ state.files \in {held.state.files, running} /\ db \in {held.db, running}
               /\ (command = "update" /\ before # None) => current = before
    <2>1. pc = "report" /\ pc \in Refilled /\ pc \in Restoring /\ Typed /\ Serving /\ Restored
      BY <1>1 DEF IInv, At, Refilled, Restoring
    <2>2. running = Started /\ running # None
      BY <2>1 DEF Serving, Restored, Healthy
    <2>3. running = current
      BY <2>1, <2>2, StartedServes
    <2>4. QED
      BY <2>1, <2>3 DEF Serving, Restored
  <1>2. IInv => RestoreIsWhole
    BY <1>1 DEF RestoreIsWhole
  <1>3. QED
    BY <1>2, Invariance, PTL
==============================================================================
