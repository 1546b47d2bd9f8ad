-------------------------- MODULE CliUpdate_proofs --------------------------
(***************************************************************************)
(* Proofs about CliUpdate, whatever the versions, updaters and Limits: no  *)
(* link dangles, and no check reports an update that it has not verified.  *)
(* Of a single updater: between checks the CLI works, unless it crashed,   *)
(* the version kept for rollback works, and no cutover goes back to an     *)
(* older version.                                                          *)
(***************************************************************************)
EXTENDS CliUpdate, TLAPS

\* Only one process runs ensure_latest and rollback.
Alone == \A a, b \in Updaters : a = b

\* Whatever a link may be moved to is stored.
TargetsAreStored ==
  /\ LinksNeverDangle
  /\ \A a \in Updaters :
       /\ pc[a] \in {"cut", "verify", "probe", "keep", "restore", "swap",
           "check"}
            => back[a] \in stored \cup {None}
       /\ pc[a] \in {"cut", "swap"} => cand[a] \in stored
       /\ pc[a] = "store" => cand[a] \in Version

\* The active version is sound but for the moment between a cutover and its
\* verdict, and so is every version that a link may go back to, while no updater
\* was killed.
FallbackIsSound ==
  /\ RollbackTargetSound
  /\ Unkilled =>
       /\ (\A a \in Updaters : pc[a] \notin {"verify", "restore"})
            => current \in Sound \cup {None}
       /\ \A a \in Updaters :
            /\ back[a] \in Sound \cup {None}
            /\ pc[a] = "swap" => cand[a] \in Sound

\* The version an updater compared the release with is still the active one.
ComparedWithActive ==
  \A a \in Updaters :
    /\ pc[a] \in {"stage", "store", "cut"} => old[a] = current
    /\ pc[a] \in {"store", "cut"} => cand[a] >= old[a]

\* What ensure_latest says of a version it has put in place.
Verdicts == {"INSTALLED", "UPDATED"}

\* An updater that is past _verify_active, and is not rolling back, has a sound
\* candidate, which is stored; so has one that is about to report it, and a report
\* in the state file.
VerdictsAreEarned ==
  /\ \A a \in Updaters :
       /\ pc[a] \in {"cut", "verify", "probe", "keep"} => cand[a] \in stored
       /\ pc[a] \in {"swap", "check"} => say[a] = "ROLLED_BACK" /\ cand[a] \in stored
       /\ pc[a] \in {"probe", "keep"} => say[a] = "ROLLED_BACK" \/ cand[a] \in Sound
       /\ say[a] \in Verdicts => pc[a] = "save" /\ cand[a] \in Sound \cap stored
  /\ saved \in Verdicts => Sound \cap stored # {}

LEMMA Constants ==
  /\ MaxVersion \in Nat /\ Interval \in Nat /\ None \notin Version /\ None \in
      Int
  /\ Sound \subseteq Version /\ Usable \subseteq Sound
  /\ Version \subseteq Int
  BY CliAssumption DEF Version, None

LEMMA SpendType ==
  ASSUME used \in [Kind -> Nat], NEW k \in Kind, Spend(k)
  PROVE  used' \in [Kind -> Nat]
  BY DEF Spend

LEMMA Kinds ==
  {"releases", "faults", "crashes", "claims", "rollbacks"} \subseteq Kind
  BY DEF Kind

\* Every action keeps every variable in its set.
LEMMA TypeStep ==
  ASSUME TypeOK, TargetsAreStored, [Next]_vars
  PROVE  TypeOK'
  <1> USE Constants, Kinds DEF TypeOK, States, Steps, vars, links, agent,
      state, locals, Goto, Proceed, Return, Conclude
  <1>1. ASSUME NEW v \in Version, Release(v) PROVE TypeOK'
    BY <1>1, SpendType DEF Release
  <1>2. CASE Clock
    BY <1>2 DEF Clock
  <1>3. CASE ProviderActive
    BY <1>3 DEF ProviderActive
  <1>4. CASE TakeClaim
    BY <1>4, SpendType DEF TakeClaim
  <1>5. CASE FreeClaim
    BY <1>5 DEF FreeClaim
  <1>6. ASSUME NEW a \in Updaters, NEW force \in BOOLEAN, Begin(a, force) PROVE
      TypeOK'
    BY <1>6 DEF Begin
  <1>7. ASSUME NEW a \in Updaters, Stage(a) PROVE TypeOK'
    BY <1>7 DEF Stage
  <1>8. ASSUME NEW a \in Updaters, StageFails(a) PROVE TypeOK'
    BY <1>8, SpendType DEF StageFails
  <1>9. ASSUME NEW a \in Updaters, Store(a) PROVE TypeOK'
    <2>1. pc' \in [Updaters -> Steps] /\ say' \in [Updaters -> States]
      BY <1>9 DEF Store
    <2>2. stored' \subseteq Version
      BY <1>9 DEF Store, TargetsAreStored
    <2>3. QED
      BY <1>9, <2>1, <2>2 DEF Store
  <1>10. ASSUME NEW a \in Updaters, CutOver(a) PROVE TypeOK'
    BY <1>10 DEF CutOver
  <1>11. ASSUME NEW a \in Updaters, Verify(a) PROVE TypeOK'
    BY <1>11 DEF Verify
  <1>12. ASSUME NEW a \in Updaters, Probe(a) PROVE TypeOK'
    BY <1>12, SpendType DEF Probe
  <1>13. ASSUME NEW a \in Updaters, Restore(a) PROVE TypeOK'
    BY <1>13 DEF Restore
  <1>14. ASSUME NEW a \in Updaters, Keep(a) PROVE TypeOK'
    BY <1>14 DEF Keep
  <1>15. ASSUME NEW a \in Updaters, Finish(a) PROVE TypeOK'
    BY <1>15 DEF Finish
  <1>16. ASSUME NEW a \in Updaters, RollbackBegin(a) PROVE TypeOK'
    BY <1>16, SpendType DEF RollbackBegin
  <1>17. ASSUME NEW a \in Updaters, RollbackSwap(a) PROVE TypeOK'
    BY <1>17 DEF RollbackSwap
  <1>18. ASSUME NEW a \in Updaters, RollbackCheck(a) PROVE TypeOK'
    BY <1>18 DEF RollbackCheck
  <1>19. ASSUME NEW a \in Updaters, Crash(a) PROVE TypeOK'
    BY <1>19, SpendType DEF Crash
  <1>20. CASE UNCHANGED vars
    BY <1>20
  <1> HIDE DEF TypeOK, States, Steps, vars, links, agent, state, locals, Goto,
      Proceed, Return, Conclude
  <1>21. QED
    BY <1>1, <1>2, <1>3, <1>4, <1>5, <1>6, <1>7, <1>8, <1>9, <1>10, <1>11,
        <1>12, <1>13, <1>14, <1>15, <1>16, <1>17, <1>18, <1>19, <1>20 DEF Next,
        UpdaterStep

\* A release is stored before a link goes to it, and no version is removed.
LEMMA StoredStep ==
  ASSUME TypeOK, TargetsAreStored, [Next]_vars
  PROVE  TargetsAreStored'
  <1> USE Constants DEF TypeOK, TargetsAreStored, LinksNeverDangle, vars,
      links, agent, state, locals, Goto, Proceed, Return, Conclude
  <1>1. ASSUME NEW v \in Version, Release(v) PROVE TargetsAreStored'
    BY <1>1 DEF Release
  <1>2. CASE Clock
    BY <1>2 DEF Clock
  <1>3. CASE ProviderActive
    BY <1>3 DEF ProviderActive
  <1>4. CASE TakeClaim
    BY <1>4 DEF TakeClaim
  <1>5. CASE FreeClaim
    BY <1>5 DEF FreeClaim
  <1>6. ASSUME NEW a \in Updaters, NEW force \in BOOLEAN, Begin(a, force) PROVE
      TargetsAreStored'
    BY <1>6 DEF Begin
  <1>7. ASSUME NEW a \in Updaters, Stage(a) PROVE TargetsAreStored'
    BY <1>7 DEF Stage
  <1>8. ASSUME NEW a \in Updaters, StageFails(a) PROVE TargetsAreStored'
    BY <1>8 DEF StageFails
  <1>9. ASSUME NEW a \in Updaters, Store(a) PROVE TargetsAreStored'
    BY <1>9 DEF Store
  <1>10. ASSUME NEW a \in Updaters, CutOver(a) PROVE TargetsAreStored'
    BY <1>10 DEF CutOver
  <1>11. ASSUME NEW a \in Updaters, Verify(a) PROVE TargetsAreStored'
    BY <1>11 DEF Verify
  <1>12. ASSUME NEW a \in Updaters, Probe(a) PROVE TargetsAreStored'
    BY <1>12 DEF Probe
  <1>13. ASSUME NEW a \in Updaters, Restore(a) PROVE TargetsAreStored'
    BY <1>13 DEF Restore
  <1>14. ASSUME NEW a \in Updaters, Keep(a) PROVE TargetsAreStored'
    BY <1>14 DEF Keep
  <1>15. ASSUME NEW a \in Updaters, Finish(a) PROVE TargetsAreStored'
    BY <1>15 DEF Finish
  <1>16. ASSUME NEW a \in Updaters, RollbackBegin(a) PROVE TargetsAreStored'
    BY <1>16 DEF RollbackBegin
  <1>17. ASSUME NEW a \in Updaters, RollbackSwap(a) PROVE TargetsAreStored'
    BY <1>17 DEF RollbackSwap
  <1>18. ASSUME NEW a \in Updaters, RollbackCheck(a) PROVE TargetsAreStored'
    BY <1>18 DEF RollbackCheck
  <1>19. ASSUME NEW a \in Updaters, Crash(a) PROVE TargetsAreStored'
    BY <1>19 DEF Crash
  <1>20. CASE UNCHANGED vars
    BY <1>20
  <1> HIDE DEF TypeOK, TargetsAreStored, LinksNeverDangle, vars, links, agent,
      state, locals, Goto, Proceed, Return, Conclude
  <1>21. QED
    BY <1>1, <1>2, <1>3, <1>4, <1>5, <1>6, <1>7, <1>8, <1>9, <1>10, <1>11,
        <1>12, <1>13, <1>14, <1>15, <1>16, <1>17, <1>18, <1>19, <1>20 DEF Next,
        UpdaterStep

\* A verdict is given after the candidate was verified, whatever others do to the links.
LEMMA VerdictStep ==
  ASSUME TypeOK, TargetsAreStored, VerdictsAreEarned, [Next]_vars
  PROVE  VerdictsAreEarned'
  <1> USE Constants DEF TypeOK, VerdictsAreEarned, Verdicts, vars,
      links, agent, state, locals, Goto, Proceed, Return, Conclude
  <1>1. ASSUME NEW v \in Version, Release(v) PROVE VerdictsAreEarned'
    BY <1>1 DEF Release
  <1>2. CASE Clock
    BY <1>2 DEF Clock
  <1>3. CASE ProviderActive
    BY <1>3 DEF ProviderActive
  <1>4. CASE TakeClaim
    BY <1>4 DEF TakeClaim
  <1>5. CASE FreeClaim
    BY <1>5 DEF FreeClaim
  <1>6. ASSUME NEW a \in Updaters, NEW force \in BOOLEAN, Begin(a, force) PROVE
      VerdictsAreEarned'
    BY <1>6 DEF Begin
  <1>7. ASSUME NEW a \in Updaters, Stage(a) PROVE VerdictsAreEarned'
    BY <1>7 DEF Stage
  <1>8. ASSUME NEW a \in Updaters, StageFails(a) PROVE VerdictsAreEarned'
    BY <1>8 DEF StageFails
  <1>9. ASSUME NEW a \in Updaters, Store(a) PROVE VerdictsAreEarned'
    BY <1>9 DEF Store
  <1>10. ASSUME NEW a \in Updaters, CutOver(a) PROVE VerdictsAreEarned'
    BY <1>10 DEF CutOver
  <1>11. ASSUME NEW a \in Updaters, Verify(a) PROVE VerdictsAreEarned'
    BY <1>11 DEF Verify
  <1>12. ASSUME NEW a \in Updaters, Probe(a) PROVE VerdictsAreEarned'
    BY <1>12 DEF Probe
  <1>13. ASSUME NEW a \in Updaters, Restore(a) PROVE VerdictsAreEarned'
    BY <1>13 DEF Restore
  <1>14. ASSUME NEW a \in Updaters, Keep(a) PROVE VerdictsAreEarned'
    BY <1>14 DEF Keep
  <1>15. ASSUME NEW a \in Updaters, Finish(a) PROVE VerdictsAreEarned'
    BY <1>15 DEF Finish
  <1>16. ASSUME NEW a \in Updaters, RollbackBegin(a) PROVE VerdictsAreEarned'
    BY <1>16 DEF RollbackBegin, TargetsAreStored, LinksNeverDangle
  <1>17. ASSUME NEW a \in Updaters, RollbackSwap(a) PROVE VerdictsAreEarned'
    BY <1>17 DEF RollbackSwap
  <1>18. ASSUME NEW a \in Updaters, RollbackCheck(a) PROVE VerdictsAreEarned'
    BY <1>18 DEF RollbackCheck
  <1>19. ASSUME NEW a \in Updaters, Crash(a) PROVE VerdictsAreEarned'
    BY <1>19 DEF Crash
  <1>20. CASE UNCHANGED vars
    BY <1>20
  <1> HIDE DEF TypeOK, VerdictsAreEarned, Verdicts, vars, links, agent,
      state, locals, Goto, Proceed, Return, Conclude
  <1>21. QED
    BY <1>1, <1>2, <1>3, <1>4, <1>5, <1>6, <1>7, <1>8, <1>9, <1>10, <1>11,
        <1>12, <1>13, <1>14, <1>15, <1>16, <1>17, <1>18, <1>19, <1>20 DEF Next,
        UpdaterStep

\* A single updater undoes what it does not find sound.
LEMMA SoundStep ==
  ASSUME Alone, TypeOK, FallbackIsSound, [Next]_vars
  PROVE  FallbackIsSound'
  <1> USE Constants, Kinds DEF Alone, TypeOK, FallbackIsSound,
      RollbackTargetSound, Unkilled, Spend, vars, links, agent, state, locals,
      Goto, Proceed, Return, Conclude
  <1>1. ASSUME NEW v \in Version, Release(v) PROVE FallbackIsSound'
    BY <1>1 DEF Release
  <1>2. CASE Clock
    BY <1>2 DEF Clock
  <1>3. CASE ProviderActive
    BY <1>3 DEF ProviderActive
  <1>4. CASE TakeClaim
    BY <1>4 DEF TakeClaim
  <1>5. CASE FreeClaim
    BY <1>5 DEF FreeClaim
  <1>6. ASSUME NEW a \in Updaters, NEW force \in BOOLEAN, Begin(a, force) PROVE
      FallbackIsSound'
    BY <1>6 DEF Begin
  <1>7. ASSUME NEW a \in Updaters, Stage(a) PROVE FallbackIsSound'
    BY <1>7 DEF Stage
  <1>8. ASSUME NEW a \in Updaters, StageFails(a) PROVE FallbackIsSound'
    BY <1>8 DEF StageFails
  <1>9. ASSUME NEW a \in Updaters, Store(a) PROVE FallbackIsSound'
    BY <1>9 DEF Store
  <1>10. ASSUME NEW a \in Updaters, CutOver(a) PROVE FallbackIsSound'
    BY <1>10 DEF CutOver
  <1>11. ASSUME NEW a \in Updaters, Verify(a) PROVE FallbackIsSound'
    BY <1>11 DEF Verify
  <1>12. ASSUME NEW a \in Updaters, Probe(a) PROVE FallbackIsSound'
    BY <1>12 DEF Probe
  <1>13. ASSUME NEW a \in Updaters, Restore(a) PROVE FallbackIsSound'
    BY <1>13 DEF Restore
  <1>14. ASSUME NEW a \in Updaters, Keep(a) PROVE FallbackIsSound'
    BY <1>14 DEF Keep
  <1>15. ASSUME NEW a \in Updaters, Finish(a) PROVE FallbackIsSound'
    BY <1>15 DEF Finish
  <1>16. ASSUME NEW a \in Updaters, RollbackBegin(a) PROVE FallbackIsSound'
    BY <1>16 DEF RollbackBegin
  <1>17. ASSUME NEW a \in Updaters, RollbackSwap(a) PROVE FallbackIsSound'
    BY <1>17 DEF RollbackSwap
  <1>18. ASSUME NEW a \in Updaters, RollbackCheck(a) PROVE FallbackIsSound'
    BY <1>18 DEF RollbackCheck
  <1>19. ASSUME NEW a \in Updaters, Crash(a) PROVE FallbackIsSound'
    BY <1>19 DEF Crash
  <1>20. CASE UNCHANGED vars
    BY <1>20
  <1> HIDE DEF Alone, TypeOK, FallbackIsSound, RollbackTargetSound, Unkilled,
      Spend, vars, links, agent, state, locals, Goto, Proceed, Return, Conclude
  <1>21. QED
    BY <1>1, <1>2, <1>3, <1>4, <1>5, <1>6, <1>7, <1>8, <1>9, <1>10, <1>11,
        <1>12, <1>13, <1>14, <1>15, <1>16, <1>17, <1>18, <1>19, <1>20 DEF Next,
        UpdaterStep

\* Nobody else moves `current` after a single updater has read it.
LEMMA ComparedStep ==
  ASSUME Alone, TypeOK, ComparedWithActive, [Next]_vars
  PROVE  ComparedWithActive'
  <1> USE Constants DEF Alone, TypeOK, ComparedWithActive, vars, links, agent,
      state, locals, Goto, Proceed, Return, Conclude
  <1>1. ASSUME NEW v \in Version, Release(v) PROVE ComparedWithActive'
    BY <1>1 DEF Release
  <1>2. CASE Clock
    BY <1>2 DEF Clock
  <1>3. CASE ProviderActive
    BY <1>3 DEF ProviderActive
  <1>4. CASE TakeClaim
    BY <1>4 DEF TakeClaim
  <1>5. CASE FreeClaim
    BY <1>5 DEF FreeClaim
  <1>6. ASSUME NEW a \in Updaters, NEW force \in BOOLEAN, Begin(a, force) PROVE
      ComparedWithActive'
    BY <1>6 DEF Begin
  <1>7. ASSUME NEW a \in Updaters, Stage(a) PROVE ComparedWithActive'
    BY <1>7 DEF Stage
  <1>8. ASSUME NEW a \in Updaters, StageFails(a) PROVE ComparedWithActive'
    BY <1>8 DEF StageFails
  <1>9. ASSUME NEW a \in Updaters, Store(a) PROVE ComparedWithActive'
    BY <1>9 DEF Store
  <1>10. ASSUME NEW a \in Updaters, CutOver(a) PROVE ComparedWithActive'
    BY <1>10 DEF CutOver
  <1>11. ASSUME NEW a \in Updaters, Verify(a) PROVE ComparedWithActive'
    BY <1>11 DEF Verify
  <1>12. ASSUME NEW a \in Updaters, Probe(a) PROVE ComparedWithActive'
    BY <1>12 DEF Probe
  <1>13. ASSUME NEW a \in Updaters, Restore(a) PROVE ComparedWithActive'
    BY <1>13 DEF Restore
  <1>14. ASSUME NEW a \in Updaters, Keep(a) PROVE ComparedWithActive'
    BY <1>14 DEF Keep
  <1>15. ASSUME NEW a \in Updaters, Finish(a) PROVE ComparedWithActive'
    BY <1>15 DEF Finish
  <1>16. ASSUME NEW a \in Updaters, RollbackBegin(a) PROVE ComparedWithActive'
    BY <1>16 DEF RollbackBegin
  <1>17. ASSUME NEW a \in Updaters, RollbackSwap(a) PROVE ComparedWithActive'
    BY <1>17 DEF RollbackSwap
  <1>18. ASSUME NEW a \in Updaters, RollbackCheck(a) PROVE ComparedWithActive'
    BY <1>18 DEF RollbackCheck
  <1>19. ASSUME NEW a \in Updaters, Crash(a) PROVE ComparedWithActive'
    BY <1>19 DEF Crash
  <1>20. CASE UNCHANGED vars
    BY <1>20
  <1> HIDE DEF Alone, TypeOK, ComparedWithActive, vars, links, agent, state,
      locals, Goto, Proceed, Return, Conclude
  <1>21. QED
    BY <1>1, <1>2, <1>3, <1>4, <1>5, <1>6, <1>7, <1>8, <1>9, <1>10, <1>11,
        <1>12, <1>13, <1>14, <1>15, <1>16, <1>17, <1>18, <1>19, <1>20 DEF Next,
        UpdaterStep

-----------------------------------------------------------------------------
LEMMA AtInit ==
  Init => /\ TypeOK /\ TargetsAreStored /\ FallbackIsSound /\ ComparedWithActive
          /\ VerdictsAreEarned
  <1> SUFFICES ASSUME Init
               PROVE  TypeOK /\ TargetsAreStored /\ FallbackIsSound
                        /\ ComparedWithActive /\ VerdictsAreEarned
    OBVIOUS
  <1> USE Constants DEF Init
  <1>1. TypeOK
    <2>1. provider \in BOOLEAN /\ claim \in BOOLEAN
            /\ was \in [Updaters -> BOOLEAN]
      BY Zenon
    <2>2. used \in [Kind -> Nat] /\ age \in 0 .. Interval
      OBVIOUS
    <2>3. pc \in [Updaters -> Steps] /\ say \in [Updaters -> States]
            /\ saved \in States
      BY DEF Steps, States
    <2>4. QED
      BY <2>1, <2>2, <2>3 DEF TypeOK
  <1>2. TargetsAreStored /\ FallbackIsSound /\ ComparedWithActive
    BY DEF TargetsAreStored, LinksNeverDangle, FallbackIsSound,
           RollbackTargetSound, Unkilled, ComparedWithActive
  <1>3. VerdictsAreEarned
    BY DEF VerdictsAreEarned, Verdicts
  <1>4. QED
    BY <1>1, <1>2, <1>3

\* Every variable keeps to its set, for all values of the constants.
THEOREM TypeCorrect == Spec => []TypeOK
  BY AtInit, TypeStep, StoredStep, PTL DEF Spec

\* With any number of updaters, and crashes at any point, a link of the CLI
\* points at a stored version: _store_candidate comes before _atomic_link.
THEOREM NoLinkDangles == Spec => []LinksNeverDangle
  <1>1. TargetsAreStored => LinksNeverDangle
    BY DEF TargetsAreStored
  <1>2. QED
    BY AtInit, TypeStep, StoredStep, <1>1, PTL DEF Spec

\* Whatever other updaters do to the links meanwhile, and whoever is killed, a
\* check reports INSTALLED or UPDATED only of a stored version for which
\* _verify_active succeeded, and so a state file that says so leaves such a version
\* in the store.
THEOREM ReportsAreEarned ==
  Spec => [](/\ \A a \in Updaters :
                  pc[a] = "save" /\ say[a] \in Verdicts => cand[a] \in Sound \cap stored
             /\ saved \in Verdicts => Sound \cap stored # {})
  <1>1. VerdictsAreEarned
          => /\ \A a \in Updaters :
                  pc[a] = "save" /\ say[a] \in Verdicts => cand[a] \in Sound \cap stored
             /\ saved \in Verdicts => Sound \cap stored # {}
    BY DEF VerdictsAreEarned
  <1>2. QED
    BY TypeCorrect, AtInit, StoredStep, VerdictStep, <1>1, PTL DEF Spec

\* A single updater that is not killed keeps a sound version for rollback, and
\* leaves a sound version active whenever it is done.
THEOREM LoneUpdaterIsSound ==
  ASSUME Alone
  PROVE  Spec => [](SettledIsSound /\ RollbackTargetSound)
  <1>1. FallbackIsSound => SettledIsSound /\ RollbackTargetSound
    BY DEF FallbackIsSound, SettledIsSound, Settled, Unkilled
  <1>2. TypeOK /\ FallbackIsSound /\ [Next]_vars => FallbackIsSound'
    BY SoundStep, Alone
  <1>3. QED
    BY TypeCorrect, AtInit, <1>1, <1>2, PTL DEF Spec

\* The cutover of a single updater never installs an older version than the
\* active one, also after crashes: nothing moves the link after the comparison.
THEOREM LoneUpdaterNeverDowngrades ==
  ASSUME Alone
  PROVE  Spec => NeverDowngrades
  <1>1. TypeOK /\ ComparedWithActive /\ [Next]_vars => ComparedWithActive'
    BY ComparedStep, Alone
  <1>2. TypeOK /\ ComparedWithActive
          => [\A a \in Updaters : CutOver(a) => current' >= current]_vars
    BY Constants DEF TypeOK, ComparedWithActive, CutOver
  <1>3. QED
    BY TypeCorrect, AtInit, <1>1, <1>2, PTL DEF Spec, NeverDowngrades
=============================================================================
