------------------------------ MODULE CliUpdate ------------------------------
(***************************************************************************)
(* The managed Antigravity CLI of the agent (agent_cli_update.py): a check *)
(* of the stable channel stages the release, points the link `current` at  *)
(* it, verifies it and then either keeps the version it replaces in the    *)
(* link `previous` or goes back to it. The worker service checks in its    *)
(* reconcile loop, and `genos agent tools` and `agent cli-update` check by *)
(* hand: several updaters, without a lock, whose every access to a link or *)
(* file is a step. Meanwhile the agent takes and frees its work claim.     *)
(***************************************************************************)
EXTENDS Integers

CONSTANTS
  MaxVersion,   \* bound: versions are 1 .. MaxVersion, in semver order
  Sound,        \* versions whose --version and --help are what they should be
  Usable,       \* those of them that also pass a real model probe
  Updaters,     \* processes that run ensure_latest or rollback
  Interval,     \* six hours, in steps of the clock
  Limit         \* bound, by kind: "releases" of the channel, "faults" in
                \* staging and probing, "crashes" of updaters, "claims" of
                \* work, explicit "rollbacks"

Version == 1 .. MaxVersion
Kind == {"releases", "faults", "crashes", "claims", "rollbacks"}

ASSUME CliAssumption ==
  /\ MaxVersion \in Nat /\ Interval \in Nat
  /\ Usable \subseteq Sound /\ Sound \subseteq Version
  /\ Limit \in [Kind -> Nat]

VARIABLES
  stable,     \* version that the stable channel publishes
  stored,     \* versions that have a directory of their own
  current, previous,   \* targets of the two links
  provider,   \* provider.json says ACTIVE
  claim,      \* active-claim.json exists
  age,        \* clock steps since last_check_at, up to Interval
  saved,      \* update_state of update-state.json
  pc, old, was, cand, back, say,   \* per updater: next step, local variables
  used        \* how much of each Limit is used up

locals == <<old, was, cand, back, say>>
agent == <<provider, claim>>
links == <<current, previous>>
state == <<age, saved>>
vars == <<stable, stored, links, agent, state, pc, locals, used>>

None == 0
States == {"UNKNOWN", "UPDATE_DEFERRED_BUSY", "CURRENT", "FAILED",
           "ROLLED_BACK", "INSTALLED", "UPDATED"}
Steps == {"idle", "stage", "store", "cut", "verify", "probe", "restore", "keep",
          "save", "swap", "check"}

Spend(k) ==
  /\ used[k] < Limit[k]
  /\ used' = [used EXCEPT ![k] = @ + 1]
Goto(a, step) == pc' = [pc EXCEPT ![a] = step]
Proceed(a, step) == Goto(a, step) /\ UNCHANGED locals

Return(a) ==
  /\ Goto(a, "idle")
  /\ old' = [old EXCEPT ![a] = None]
  /\ was' = [was EXCEPT ![a] = FALSE]
  /\ cand' = [cand EXCEPT ![a] = None]
  /\ back' = [back EXCEPT ![a] = None]
  /\ say' = [say EXCEPT ![a] = "UNKNOWN"]
Conclude(a, s) ==   \* go on to _save
  /\ Goto(a, "save")
  /\ say' = [say EXCEPT ![a] = s]

Init ==
  /\ stable \in Version
  /\ stored = {}
  /\ current = None /\ previous = None
  /\ provider = FALSE /\ claim = FALSE
  /\ age = Interval /\ saved = "UNKNOWN"
  /\ pc = [a \in Updaters |-> "idle"]
  /\ old = [a \in Updaters |-> None]
  /\ was = [a \in Updaters |-> FALSE]
  /\ cand = [a \in Updaters |-> None]
  /\ back = [a \in Updaters |-> None]
  /\ say = [a \in Updaters |-> "UNKNOWN"]
  /\ used = [k \in Kind |-> 0]

-----------------------------------------------------------------------------
(* Around the updaters.                                                    *)

\* The channel publishes another version, maybe an older one.
Release(v) ==
  /\ v # stable
  /\ Spend("releases")
  /\ stable' = v
  /\ UNCHANGED <<stored, links, agent, state, pc, locals>>

Clock ==
  /\ age < Interval
  /\ age' = age + 1
  /\ UNCHANGED <<stable, stored, links, agent, saved, pc, locals, used>>

\* A model round trip of the reconcile loop finds a working CLI.
ProviderActive ==
  /\ ~provider
  /\ current \in Usable
  /\ provider' = TRUE
  /\ UNCHANGED <<stable, stored, links, claim, state, pc, locals, used>>

\* queue_task and release_work, see KanbanAgent.
TakeClaim ==
  /\ provider /\ ~claim
  /\ Spend("claims")
  /\ claim' = TRUE
  /\ UNCHANGED <<stable, stored, links, provider, state, pc, locals>>

FreeClaim ==
  /\ claim
  /\ claim' = FALSE
  /\ UNCHANGED <<stable, stored, links, provider, state, pc, locals, used>>

-----------------------------------------------------------------------------
(* ensure_latest.                                                          *)

\* Mutant: the throttle the wrong way round.
BeginIfFresh(a, force) ==
  /\ pc[a] = "idle"
  /\ was' = [was EXCEPT ![a] = provider]
  /\ old' = [old EXCEPT ![a] = current]
  /\ \/ claim /\ Conclude(a, "UPDATE_DEFERRED_BUSY")
     \/ /\ ~claim
        /\ force \/ age < Interval
        /\ Goto(a, "stage") /\ UNCHANGED say
  /\ UNCHANGED <<stable, stored, links, agent, state, cand, back, used>>

\* It notes whether the provider was ACTIVE and which version is active, and
\* then stops at a claim, or, unless forced, at a fresh check.
Begin(a, force) ==
  /\ pc[a] = "idle"
  /\ was' = [was EXCEPT ![a] = provider]
  /\ old' = [old EXCEPT ![a] = current]
  /\ \/ claim /\ Conclude(a, "UPDATE_DEFERRED_BUSY")
     \/ /\ ~claim
        /\ force \/ age = Interval
        /\ Goto(a, "stage") /\ UNCHANGED say
  /\ UNCHANGED <<stable, stored, links, agent, state, cand, back, used>>

\* Mutant: whatever the channel publishes.
StageAny(a) ==
  /\ pc[a] = "stage"
  /\ cand' = [cand EXCEPT ![a] = stable]
  /\ Goto(a, "store")
  /\ UNCHANGED <<stable, stored, links, agent, state, old, was, back, say, used>>

\* Installer, manifest and archive, checked and probed outside the links; a
\* version below the active one is not installed.
Stage(a) ==
  /\ pc[a] = "stage"
  /\ cand' = [cand EXCEPT ![a] = stable]
  /\ IF stable < old[a]
       THEN Conclude(a, "CURRENT")
       ELSE Goto(a, "store") /\ UNCHANGED say
  /\ UNCHANGED <<stable, stored, links, agent, state, old, was, back, used>>

\* AgentCliUpdateError: a download, a checksum or a probe failed.
StageFails(a) ==
  /\ pc[a] \in {"stage", "store"}
  /\ Spend("faults")
  /\ Conclude(a, "FAILED")
  /\ UNCHANGED <<stable, stored, links, agent, state, old, was, cand, back>>

\* _store_candidate, and the target of the link that is about to change.
Store(a) ==
  /\ pc[a] = "store"
  /\ stored' = stored \cup {cand[a]}
  /\ IF old[a] = cand[a] /\ current # None
       THEN Conclude(a, "CURRENT") /\ UNCHANGED back
       ELSE /\ back' = [back EXCEPT ![a] = current]
            /\ Goto(a, "cut") /\ UNCHANGED say
  /\ UNCHANGED <<stable, links, agent, state, old, was, cand, used>>

CutOver(a) ==
  /\ pc[a] = "cut"
  /\ current' = cand[a]
  /\ Proceed(a, "verify")
  /\ UNCHANGED <<stable, stored, previous, agent, state, used>>

\* Mutant: the version alone is verified, not --help.
VerifyVersion(a) ==
  /\ pc[a] = "verify"
  /\ IF current = cand[a]
       THEN Proceed(a, "probe")
       ELSE Proceed(a, "restore")
  /\ UNCHANGED <<stable, stored, links, agent, state, used>>

\* _verify_active runs whatever the link points at by now.
Verify(a) ==
  /\ pc[a] = "verify"
  /\ IF current = cand[a] /\ cand[a] \in Sound
       THEN Proceed(a, "probe")
       ELSE Proceed(a, "restore")
  /\ UNCHANGED <<stable, stored, links, agent, state, used>>

\* post_cutover: a real model probe, if the provider was ACTIVE before; it
\* writes what it finds to provider.json.
Probe(a) ==
  /\ pc[a] = "probe"
  /\ \/ ~was[a] /\ Proceed(a, "keep") /\ UNCHANGED <<provider, used>>
     \/ /\ was[a] /\ current \in Usable
        /\ provider' = TRUE
        /\ Proceed(a, "keep") /\ UNCHANGED used
     \/ /\ was[a]
        /\ provider' = FALSE
        /\ IF current \in Usable THEN Spend("faults") ELSE UNCHANGED used
        /\ Proceed(a, "restore")
  /\ UNCHANGED <<stable, stored, links, claim, state>>

\* _restore_current: the link goes back, or away if there was none.
Restore(a) ==
  /\ pc[a] = "restore"
  /\ current' = back[a]
  /\ Conclude(a, "ROLLED_BACK")
  /\ UNCHANGED <<stable, stored, previous, agent, state, old, was, cand, back,
                 used>>

\* Mutant: other versions are pruned.
KeepAndPrune(a) ==
  /\ pc[a] = "keep"
  /\ previous' = IF back[a] \notin {None, cand[a]} THEN back[a] ELSE previous
  /\ stored' = {cand[a]}
  /\ Conclude(a, IF say[a] = "ROLLED_BACK" THEN say[a]
                 ELSE IF old[a] = None THEN "INSTALLED" ELSE "UPDATED")
  /\ UNCHANGED <<stable, current, agent, state, old, was, cand, back,
                 used>>

Keep(a) ==
  /\ pc[a] = "keep"
  /\ previous' = IF back[a] \notin {None, cand[a]} THEN back[a] ELSE previous
  /\ Conclude(a, IF say[a] = "ROLLED_BACK" THEN say[a]
                 ELSE IF old[a] = None THEN "INSTALLED" ELSE "UPDATED")
  /\ UNCHANGED <<stable, stored, current, agent, state, old, was, cand, back,
                 used>>

\* The end of every path: the state file, with last_check_at = now.
Finish(a) ==
  /\ pc[a] = "save"
  /\ saved' = say[a] /\ age' = 0
  /\ Return(a)
  /\ UNCHANGED <<stable, stored, links, agent, used>>

\* The process is killed, or raises what ensure_latest does not catch.
Crash(a) ==
  /\ pc[a] # "idle"
  /\ Spend("crashes")
  /\ Return(a)
  /\ UNCHANGED <<stable, stored, links, agent, state>>

-----------------------------------------------------------------------------
(* rollback, a public operation without a caller of its own so far.        *)

RollbackBegin(a) ==
  /\ pc[a] = "idle"
  /\ previous # None
  /\ Spend("rollbacks")
  /\ cand' = [cand EXCEPT ![a] = previous]
  /\ back' = [back EXCEPT ![a] = current]
  /\ say' = [say EXCEPT ![a] = "ROLLED_BACK"]
  /\ Goto(a, "swap")
  /\ UNCHANGED <<stable, stored, links, agent, state, old, was>>

RollbackSwap(a) ==
  /\ pc[a] = "swap"
  /\ current' = cand[a]
  /\ Proceed(a, "check")
  /\ UNCHANGED <<stable, stored, previous, agent, state, used>>

\* Keep the version rolled back from, or raise after going back to it.
RollbackCheck(a) ==
  /\ pc[a] = "check"
  /\ \/ /\ current \in Sound
        /\ Proceed(a, "keep")
        /\ UNCHANGED current
     \/ /\ current \notin Sound
        /\ current' = IF back[a] # None THEN back[a] ELSE current
        /\ Return(a)
  /\ UNCHANGED <<stable, stored, previous, agent, state, used>>

-----------------------------------------------------------------------------
UpdaterStep(a) ==
  \/ Stage(a) \/ Store(a) \/ CutOver(a) \/ Verify(a) \/ Probe(a) \/ Restore(a)
  \/ Keep(a) \/ Finish(a) \/ RollbackSwap(a) \/ RollbackCheck(a)

Next ==
  \/ \E v \in Version : Release(v)
  \/ Clock \/ ProviderActive \/ TakeClaim \/ FreeClaim
  \/ \E a \in Updaters :
       \/ \E force \in BOOLEAN : Begin(a, force)
       \/ UpdaterStep(a) \/ StageFails(a) \/ RollbackBegin(a) \/ Crash(a)

Spec == Init /\ [][Next]_vars

\* The worker service checks in every round of its loop, and its calls return;
\* the clock runs, a working CLI is found, and the agent finishes its work.
Fairness ==
  /\ \A a \in Updaters : WF_vars(Begin(a, FALSE)) /\ WF_vars(UpdaterStep(a))
  /\ WF_vars(Clock) /\ WF_vars(ProviderActive) /\ WF_vars(FreeClaim)

FairSpec == Spec /\ Fairness

-----------------------------------------------------------------------------
(* What must hold.                                                         *)

\* Every variable keeps to its set.
TypeOK ==
  /\ stable \in Version /\ stored \subseteq Version
  /\ current \in Version \cup {None} /\ previous \in Version \cup {None}
  /\ provider \in BOOLEAN /\ claim \in BOOLEAN
  /\ age \in 0 .. Interval /\ saved \in States
  /\ pc \in [Updaters -> Steps]
  /\ old \in [Updaters -> Version \cup {None}]
  /\ was \in [Updaters -> BOOLEAN]
  /\ cand \in [Updaters -> Version \cup {None}]
  /\ back \in [Updaters -> Version \cup {None}]
  /\ say \in [Updaters -> States]
  /\ used \in [Kind -> Nat]

\* A link, once it exists, points at a version directory with its binary, also
\* after crashes and with several updaters: ensure_latest stores the candidate
\* before it moves a link, and restores and keeps only what was linked before.
LinksNeverDangle == {current, previous} \subseteq stored \cup {None}

Settled == \A a \in Updaters : pc[a] = "idle"
Unkilled == used["crashes"] = 0

\* Between checks the agent's CLI is one that works, or there was never one:
\* ensure_latest undoes every cutover that it cannot verify, unless it is killed
\* in between.
SettledIsSound == Settled /\ Unkilled => current \in Sound \cup {None}

\* The version kept for rollback works, so that rollback() can go back to it,
\* unless a killed check left a version that the next one kept.
RollbackTargetSound == Unkilled => previous \in Sound \cup {None}

\* A cutover never installs an older version than the active one, the case
\* the code reports as STABLE_CHANNEL_WOULD_DOWNGRADE_BLOCKED.
NeverDowngrades == [][\A a \in Updaters : CutOver(a) => current' >= current]_vars

\* A usable release gets installed, unless the channel moves on or goes back
\* behind what is active: failures, crashes and claims only put it off.
UpdateArrives ==
  \A v \in Usable : stable = v ~> (current >= v \/ stable # v)
=============================================================================
