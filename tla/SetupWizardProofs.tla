--------------------------- MODULE SetupWizardProofs ---------------------------
(***************************************************************************)
(* Theorems about HermesConfig and SetupWizard: what the user has saved    *)
(* survives the wizard, of which no more is used than that it handles the  *)
(* file the way HermesConfig says; a stage that has finished is in the     *)
(* state file and not repeated, unless that file was torn, for any servers *)
(* and providers and any number of deaths; and a provider the state file   *)
(* calls configured has been activated.                                    *)
(***************************************************************************)
EXTENDS SetupWizard, ProviderLifecycleProofs

USE DEF progress

-----------------------------------------------------------------------------
(* The file of Hermes.                                                     *)

\* Unless a save fell into a call, or a stale backup was restored: the file is the
\* user's last save, and so are what a call is about to write and its own backup.
SavesKept ==
  \/ excused
  \/ /\ config.save = edits /\ config.form # "torn"
     /\ writing \in {"copy", "copying", "replace"} => loaded.save = edits
     /\ writing \in {"replace", "restore"} /\ ownBackup =>
          backup.save = edits /\ backup.form # "torn"

OwnBackupLate == ownBackup => writing \in {"replace", "remove", "restore"}

HermesInv == HermesTypeOK /\ OwnBackupLate /\ SavesKept

LEMMA DocumentFacts ==
  /\ NoFile \in Documents /\ NoFile.form = "absent"
  /\ [NoFile EXCEPT !.form = "torn"] \in Documents
  /\ \A d \in Documents : d.form \in Forms /\ d.save \in Nat
  /\ \A d \in Documents : [form |-> "whole", save |-> d.save] \in Documents
  /\ \A f \in {"whole", "invalid"}, n \in Nat : [form |-> f, save |-> n] \in Documents
BY DEF Documents, NoFile, Forms

LEMMA HermesInitInv == HermesInit => HermesInv
BY DocumentFacts DEF HermesInit, HermesInv, HermesTypeOK, OwnBackupLate, SavesKept,
   Documents, Forms, Calls, NoFile

LEMMA ReturnFacts ==
  ASSUME Return
  PROVE  writing' = "no" /\ loaded' \in Documents /\ ownBackup' = FALSE
BY DocumentFacts DEF Return

LEMMA HermesStepInv == HermesInv /\ [HermesNext]_hermesVars => HermesInv'
<1> SUFFICES ASSUME HermesInv, [HermesNext]_hermesVars PROVE HermesInv'
  OBVIOUS
<1> USE DEF HermesInv, HermesTypeOK, OwnBackupLate, SavesKept
<1>1. CASE Look
  BY <1>1 DEF Look
<1>2. CASE BeginWrite
  BY <1>2 DEF BeginWrite, Calls
<1>3. CASE ReadConfig
  BY <1>3 DEF ReadConfig, Calls
<1>4. CASE BeginCopy
  BY <1>4, DocumentFacts DEF BeginCopy, Calls
<1>5. CASE EndCopy
  BY <1>5, DocumentFacts DEF EndCopy, Calls
<1>6. CASE Replace
  BY <1>6, DocumentFacts DEF Replace, Calls
<1>7. CASE RemoveBackup
  BY <1>7, DocumentFacts, ReturnFacts DEF RemoveBackup, Calls
<1>8. CASE RestoreBackup
  <2>1. Return /\ edits' = edits
    BY <1>8 DEF RestoreBackup
  <2>2. writing' = "no" /\ loaded' \in Documents /\ ownBackup' = FALSE
    BY <2>1, ReturnFacts
  <2>3. CASE UNCHANGED <<config, backup, excused>>
    BY <2>1, <2>2, <2>3 DEF Calls
  <2>4. CASE /\ backup.form # "absent"
             /\ config' = backup /\ backup' = NoFile
             /\ excused' = (excused \/ ~ownBackup)
    BY <1>8, <2>1, <2>2, <2>4, DocumentFacts DEF RestoreBackup, Calls
  <2> QED BY <1>8, <2>3, <2>4 DEF RestoreBackup
<1>9. CASE KillWrite
  BY <1>9, ReturnFacts DEF KillWrite, Calls
<1>10. CASE Edit
  <2>1. /\ edits' = edits + 1 /\ edits' \in Nat
        /\ UNCHANGED <<backup, writing, loaded, ownBackup>>
    BY <1>10 DEF Edit
  <2>2. PICK f \in {"whole", "invalid"} : config' = [form |-> f, save |-> edits + 1]
    BY <1>10 DEF Edit
  <2>3. config' \in Documents /\ config'.save = edits' /\ config'.form # "torn"
    BY <2>1, <2>2, DocumentFacts
  <2>4. excused' = (excused \/ writing \in {"copy", "copying", "replace", "restore"})
    BY <1>10 DEF Edit
  <2> QED BY <2>1, <2>3, <2>4 DEF Calls
<1>11. CASE UNCHANGED hermesVars
  BY <1>11 DEF hermesVars
<1> QED
  BY <1>1, <1>2, <1>3, <1>4, <1>5, <1>6, <1>7, <1>8, <1>9, <1>10, <1>11
  DEF HermesNext, WriteStep

\* The inductive invariant of the file.
THEOREM HermesInvariance == HermesSpec => []HermesInv
BY HermesInitInv, HermesStepInv, PTL DEF HermesSpec

\* Whoever uses the file as HermesConfig says, nobody ever finds it half written.
THEOREM FileNeverTorn == HermesSpec => []NeverTorn
<1>1. HermesInv => NeverTorn
  BY DEF HermesInv, SavesKept, NeverTorn
<1> QED BY <1>1, HermesInvariance, PTL

\* The user's last save survives any number of calls, failures and kills.
THEOREM SavesSurvive == HermesSpec => []EditsSurvive
<1>1. HermesInv => EditsSurvive
  BY DEF HermesInv, SavesKept, EditsSurvive
<1> QED BY <1>1, HermesInvariance, PTL

-----------------------------------------------------------------------------
(* The wizard handles the file in no other way.                            *)

LEMMA WizardHandles == [SetupNext]_allVars => [HermesNext]_hermesVars
<1> SUFFICES ASSUME [SetupNext]_allVars PROVE [HermesNext]_hermesVars
  OBVIOUS
<1>1. CASE UntilIntegration
  BY <1>1 DEF UntilIntegration
<1>2. CASE Kill
  BY <1>2 DEF Kill, HermesNext
<1>3. CASE LookAtConfig
  BY <1>3 DEF LookAtConfig, HermesNext
<1>4. CASE AnswerYaml
  BY <1>4 DEF AnswerYaml, HermesNext
<1>5. CASE Writing
  BY <1>5 DEF Writing, HermesNext
<1>6. CASE Finish
  BY <1>6 DEF Finish
<1>7. CASE OthersNext
  BY <1>7 DEF OthersNext
<1>8. CASE UserEdits
  BY <1>8 DEF UserEdits, HermesNext
<1>9. CASE UNCHANGED allVars
  BY <1>9 DEF allVars
<1> QED
  BY <1>1, <1>2, <1>3, <1>4, <1>5, <1>6, <1>7, <1>8, <1>9 DEF SetupNext, WizardNext

\* The set-up, with its servers, stages and kills, implements HermesConfig.
THEOREM SetupImplementsHermes == SetupSpec => HermesSpec
<1>1. WizardInit => HermesInit
  BY DEF WizardInit
<1> QED BY <1>1, WizardHandles, PTL DEF SetupSpec, HermesSpec

\* Whatever the wizard does, Hermes never finds half a file of its own making.
THEOREM SetupNeverTears == SetupSpec => []NeverTorn
BY SetupImplementsHermes, FileNeverTorn, PTL

\* Whatever the wizard does, the user's last save is in the file.
THEOREM SetupKeepsEdits == SetupSpec => []EditsSurvive
BY SetupImplementsHermes, SavesSurvive, PTL

-----------------------------------------------------------------------------
(* The stages.                                                             *)

StageSteps == {"local"} \cup ProviderSteps \cup IntegrationSteps

\* The file does not call the stage that runs complete.
Unfinished == step \in StageSteps => saved.stages[StageOf(step)] # "complete"

\* The inductive invariant: where a stage runs, the wizard's memory is what the file
\* says, and the file knows of all that has finished but not of the stage that runs.
StageInv ==
  /\ saved \in Setups /\ mem \in Setups /\ step \in Steps
  /\ completed \subseteq PhaseSet /\ lost \subseteq PhaseSet
  /\ step \notin {"idle", "resume"} => mem = saved
  /\ Unfinished
  /\ CompletedKept

StageStatuses == {"pending", "complete", "failed", "skipped"}
States == {"not_started", "local_verified", "provider_configured", "ready", "failed"}

LEMMA SetupFields ==
  ASSUME NEW st \in Setups
  PROVE  st.state \in States /\ st.stages \in [PhaseSet -> StageStatuses]
BY DEF Setups, States, StageStatuses

LEMMA NewSetup ==
  ASSUME NEW f \in [PhaseSet -> StageStatuses], NEW x \in States
  PROVE  LET st == [state |-> x, stages |-> f] IN st \in Setups /\ st.stages = f
BY DEF Setups, States, StageStatuses

LEMMA FreshFacts ==
  Fresh \in Setups /\ \A ph \in PhaseSet : Fresh.stages[ph] = "pending"
BY DEF Fresh, Setups, PhaseSet

LEMMA SaveFacts ==
  ASSUME mem \in Setups, NEW ph \in PhaseSet, NEW s \in StageStatuses, NEW x \in States,
         Save(ph, s, x)
  PROVE  /\ mem' \in Setups /\ saved' = mem'
         /\ saved'.stages[ph] = s
         /\ \A q \in PhaseSet : q # ph => saved'.stages[q] = mem.stages[q]
<1> DEFINE f == [mem.stages EXCEPT ![ph] = s]
<1>1. mem.stages \in [PhaseSet -> StageStatuses]
  BY SetupFields
<1>2. /\ f \in [PhaseSet -> StageStatuses] /\ f[ph] = s
      /\ \A q \in PhaseSet : q # ph => f[q] = mem.stages[q]
  BY <1>1
<1>3. mem' = [state |-> x, stages |-> f] /\ saved' = mem'
  BY DEF Save
<1> HIDE DEF f
<1>4. mem' \in Setups /\ mem'.stages = f
  BY <1>2, <1>3, NewSetup
<1> QED BY <1>2, <1>3, <1>4

\* The stage runStages begins with, or turns to, is not complete.
LEMMA FirstFacts ==
  ASSUME NEW st \in Setups
  PROVE  \/ FirstIncomplete(st) = "idle"
         \/ FirstIncomplete(st) \in PhaseSet /\ st.stages[FirstIncomplete(st)] # "complete"
<1> DEFINE i == CHOOSE i \in Open(st) : \A j \in Open(st) : i <= j
<1>1. CASE Open(st) = {}
  BY <1>1 DEF FirstIncomplete
<1>2. CASE Open(st) # {}
  <2>1. Open(st) \subseteq 1..3
    BY DEF Open
  <2>2. \E k \in Open(st) : \A j \in Open(st) : k <= j
    BY <1>2, <2>1
  <2>3. i \in Open(st)
    BY <2>2
  <2>4. FirstIncomplete(st) = Phases[i]
    BY <1>2 DEF FirstIncomplete
  <2> HIDE DEF i
  <2>5. Phases[i] \in PhaseSet
    BY <2>1, <2>3 DEF Phases, PhaseSet
  <2>6. st.stages[Phases[i]] # "complete"
    BY <2>3 DEF Open
  <2> QED BY <2>4, <2>5, <2>6
<1> QED BY <1>1, <1>2

LEMMA AfterFacts ==
  ASSUME NEW st \in Setups, NEW ph \in PhaseSet
  PROVE  \/ After(st, ph) = "idle"
         \/ After(st, ph) \in PhaseSet /\ st.stages[After(st, ph)] # "complete"
<1> DEFINE rest == {i \in 2..3 : /\ \E j \in 1..(i - 1) : Phases[j] = ph
                                 /\ st.stages[Phases[i]] # "complete"}
           i == CHOOSE i \in rest : \A j \in rest : i <= j
<1>1. CASE rest = {}
  BY <1>1 DEF After
<1>2. CASE rest # {}
  <2>1. After(st, ph) = Phases[i]
    BY <1>2 DEF After
  <2>2. rest \subseteq 2..3
    OBVIOUS
  <2>3. \A k \in rest : st.stages[Phases[k]] # "complete"
    OBVIOUS
  <2> HIDE DEF rest
  <2>4. \E k \in rest : \A j \in rest : k <= j
    <3>1. CASE 2 \in rest
      BY <2>2, <3>1
    <3>2. CASE 2 \notin rest
      <4>1. \A k \in rest : k = 3
        BY <2>2, <3>2
      <4>2. PICK k \in rest : TRUE
        BY <1>2, Zenon
      <4>3. k = 3 /\ \A j \in rest : j = k
        BY <4>1, <4>2
      <4> QED BY <4>3
    <3> QED BY <3>1, <3>2
  <2>5. i \in rest
    BY <2>4
  <2> HIDE DEF i
  <2>6. Phases[i] \in PhaseSet
    BY <2>2, <2>5 DEF Phases, PhaseSet
  <2> QED BY <2>1, <2>3, <2>5, <2>6
<1> QED BY <1>1, <1>2

LEMMA StageFacts ==
  /\ \A st \in ProviderSteps : StageOf(st) = "provider"
  /\ \A st \in IntegrationSteps : StageOf(st) = "integration"
  /\ StageOf("local") = "local"
  /\ \A ph \in PhaseSet : ph \in StageSteps /\ StageOf(ph) = ph
  /\ \A st \in StageSteps : st \in Steps /\ st \notin {"idle", "resume", "proceed"}
  /\ {"idle", "resume", "proceed"} \subseteq Steps
BY DEF StageOf, ProviderSteps, IntegrationSteps, PhaseSet, Steps, StageSteps

\* runStages begins.
LEMMA RunInv ==
  ASSUME StageInv, NEW st \in Setups, RunStages(st), saved' = st,
         UNCHANGED progress \/ StartOver
  PROVE  StageInv'
<1>1. mem' = st /\ step' = FirstIncomplete(st)
  BY DEF RunStages
<1>h. CompletedKept' /\ completed' \subseteq PhaseSet /\ lost' \subseteq PhaseSet
  BY DEF StageInv, CompletedKept, StartOver
<1>2. CASE step' = "idle"
  BY <1>1, <1>h, <1>2, StageFacts DEF StageInv, Unfinished
<1>3. CASE step' \in PhaseSet /\ st.stages[step'] # "complete"
  BY <1>1, <1>h, <1>3, StageFacts DEF StageInv, Unfinished
<1> QED BY <1>1, <1>2, <1>3, FirstFacts

\* A stage goes on, or ends without a word.
LEMMA OnwardInv ==
  ASSUME StageInv, step \in StageSteps, UNCHANGED <<mem, progress>>, step' \in Steps,
         \/ step' \notin StageSteps
         \/ StageOf(step') = StageOf(step)
  PROVE  StageInv'
BY StageFacts DEF StageInv, Unfinished, CompletedKept

\* A stage saves how it ended.
LEMMA SaveInv ==
  ASSUME StageInv, step \in StageSteps,
         NEW s \in StageStatuses, NEW x \in States, Save(StageOf(step), s, x),
         StageOf(step) \in PhaseSet,
         \/ step' \in {"idle", "proceed"}
         \/ step' \in PhaseSet /\ mem'.stages[step'] # "complete"
  PROVE  StageInv'
<1>1. mem = saved /\ saved.stages[StageOf(step)] # "complete" /\ mem \in Setups
  BY StageFacts DEF StageInv, Unfinished
<1>2. /\ mem' \in Setups /\ saved' = mem'
      /\ saved'.stages[StageOf(step)] = s
      /\ \A q \in PhaseSet : q # StageOf(step) => saved'.stages[q] = mem.stages[q]
  BY <1>1, SaveFacts
<1>3. Record(StageOf(step), s)
  BY DEF Save
<1>4. CompletedKept' /\ completed' \subseteq PhaseSet /\ lost' \subseteq PhaseSet
  <2>1. CASE s = "complete"
    BY <1>1, <1>2, <1>3, <2>1 DEF Record, StageInv, CompletedKept
  <2>2. CASE s # "complete"
    <3>1. UNCHANGED <<completed, lost>> /\ StageOf(step) \notin completed \ lost
      BY <1>1, <1>3, <2>2 DEF Record, StageInv, CompletedKept
    <3> QED BY <1>1, <1>2, <3>1 DEF StageInv, CompletedKept
  <2> QED BY <2>1, <2>2
<1>5. step' \in Steps /\ Unfinished'
  BY <1>2, StageFacts DEF Unfinished
<1> QED BY <1>2, <1>3, <1>4, <1>5 DEF StageInv

LEMMA FailInv ==
  ASSUME StageInv, NEW ph \in PhaseSet, step \in StageSteps, StageOf(step) = ph, Fail(ph)
  PROVE  StageInv'
<1>1. "failed" \in StageStatuses /\ "failed" \in States
  BY DEF StageStatuses, States
<1>2. Save(StageOf(step), "failed", "failed") /\ step' = "idle"
  BY DEF Fail
<1> QED BY <1>1, <1>2, SaveInv

\* Nothing of the wizard changes.
LEMMA RestInv ==
  ASSUME StageInv, UNCHANGED wizardVars
  PROVE  StageInv'
BY DEF StageInv, Unfinished, CompletedKept, wizardVars

LEMMA CommandInv ==
  ASSUME StageInv, Setup \/ AnswerResume \/ Continue \/ Reset \/ Kill
  PROVE  StageInv'
<1>1. saved \in Setups /\ Fresh \in Setups
  BY FreshFacts DEF StageInv
<1>2. CASE Setup
  <2>1. CASE RunStages(saved)
    BY <1>1, <1>2, <2>1, RunInv DEF Setup
  <2>2. CASE step' = "resume" /\ UNCHANGED mem
    BY <1>2, <2>2, StageFacts DEF Setup, StageInv, Unfinished, CompletedKept
  <2> QED BY <1>2, <2>1, <2>2 DEF Setup
<1>3. CASE AnswerResume
  <2>1. CASE RunStages(saved) /\ UNCHANGED progress
    BY <1>1, <2>1, RunInv
  <2>2. CASE RunStages(Fresh) /\ StartOver
    BY <1>1, <2>2, RunInv DEF StartOver
  <2> QED BY <1>3, <2>1, <2>2 DEF AnswerResume
<1>4. CASE Continue
  BY <1>1, <1>4, RunInv DEF Continue
<1>5. CASE Reset
  BY <1>1, <1>5, StageFacts DEF Reset, StartOver, StageInv, Unfinished, CompletedKept
<1>6. CASE Kill
  BY <1>1, <1>6, StageFacts DEF Kill, StageInv, Unfinished, CompletedKept
<1> QED BY <1>2, <1>3, <1>4, <1>5, <1>6

LEMMA StageSteppers ==
  /\ "local" \in StageSteps /\ StageOf("local") = "local"
  /\ \A st \in ProviderSteps : st \in StageSteps /\ StageOf(st) = "provider"
  /\ \A st \in IntegrationSteps : st \in StageSteps /\ StageOf(st) = "integration"
  /\ {"local", "provider", "integration"} \subseteq PhaseSet
  /\ {"pending", "complete", "failed", "skipped"} \subseteq StageStatuses
  /\ {"local_verified", "provider_configured", "ready", "failed"} \subseteq States
BY StageFacts DEF StageSteps, PhaseSet, StageStatuses, States

LEMMA LocalInv ==
  ASSUME StageInv, Local \/ AnswerProceed
  PROVE  StageInv'
<1>1. CASE Local
  <2>1. CASE Fail("local")
    BY <1>1, <2>1, FailInv, StageSteppers DEF Local
  <2>2. CASE Save("local", "complete", "local_verified") /\ step' = "proceed"
    BY <1>1, <2>2, SaveInv, StageSteppers DEF Local
  <2> QED BY <1>1, <2>1, <2>2 DEF Local
<1>2. CASE AnswerProceed
  <2>1. mem \in Setups /\ mem = saved /\ step' = After(mem, "local") /\ UNCHANGED <<mem, progress>>
    BY <1>2 DEF AnswerProceed, StageInv
  <2>2. step' = "idle" \/ (step' \in PhaseSet /\ saved.stages[step'] # "complete")
    BY <2>1, AfterFacts, StageSteppers
  <2> QED BY <2>1, <2>2, StageFacts DEF StageInv, Unfinished, CompletedKept
<1> QED BY <1>1, <1>2

\* A step of the provider stage that does not save.
LEMMA ProviderOnward ==
  ASSUME StageInv, step \in ProviderSteps, UNCHANGED <<mem, progress>>,
         step' \in ProviderSteps \cup {"idle"}
  PROVE  StageInv'
BY OnwardInv, StageFacts, StageSteppers

LEMMA ProviderFails ==
  ASSUME StageInv, step \in ProviderSteps, Fail("provider")
  PROVE  StageInv'
BY FailInv, StageSteppers

LEMMA ProviderInv ==
  ASSUME StageInv,
         \/ Credentials \/ AnswerStore \/ RegisterPrimary \/ AnswerValidate
         \/ Probe \/ Discover \/ ActivatePrimary \/ Activating \/ Concurrency
  PROVE  StageInv'
<1> USE ProviderFails, ProviderOnward
<1>1. CASE Credentials
  BY <1>1 DEF Credentials, ProviderSteps
<1>2. CASE AnswerStore
  <2>1. CASE Save("provider", "skipped", mem.state) /\ step' = "idle"
    <3>1. mem.state \in States
      BY SetupFields DEF StageInv
    <3> QED BY <1>2, <2>1, <3>1, SaveInv, StageSteppers DEF AnswerStore, ProviderSteps
  <2> QED BY <1>2, <2>1 DEF AnswerStore, ProviderSteps
<1>3. CASE RegisterPrimary
  BY <1>3 DEF RegisterPrimary, ProviderSteps
<1>4. CASE AnswerValidate
  <2>1. mem = saved
    BY <1>4 DEF AnswerValidate, StageInv
  <2> QED BY <1>4, <2>1 DEF AnswerValidate, ProviderSteps
<1>5. CASE Probe
  BY <1>5 DEF Probe, ProviderSteps
<1>6. CASE Discover
  BY <1>6 DEF Discover, ProviderSteps
<1>7. CASE ActivatePrimary
  BY <1>7 DEF ActivatePrimary, ProviderSteps
<1>8. CASE Activating
  BY <1>8 DEF Activating, ProviderSteps
<1>9. CASE Concurrency
  <2>1. step = "concurrency" /\ Save("provider", "complete", "provider_configured")
    BY <1>9 DEF Concurrency
  <2>2. step \in ProviderSteps
    BY <2>1 DEF ProviderSteps
  <2>3. mem' \in Setups
    BY <2>1, SaveFacts, StageSteppers DEF StageInv
  <2>4. step' = After(mem', "provider")
    BY <1>9 DEF Concurrency
  <2>5. step' = "idle" \/ (step' \in PhaseSet /\ mem'.stages[step'] # "complete")
    BY <2>3, <2>4, AfterFacts, StageSteppers
  <2> QED BY <2>1, <2>2, <2>5, SaveInv, StageSteppers
<1> QED BY <1>1, <1>2, <1>3, <1>4, <1>5, <1>6, <1>7, <1>8, <1>9

LEMMA IntegrationInv ==
  ASSUME StageInv, LookAtConfig \/ AnswerYaml \/ Writing \/ Finish
  PROVE  StageInv'
<1>1. ASSUME step \in IntegrationSteps, Fail("integration")
      PROVE  StageInv'
  BY <1>1, FailInv, StageSteppers
<1>2. ASSUME step \in IntegrationSteps, UNCHANGED <<mem, progress>>, step' \in IntegrationSteps
      PROVE  StageInv'
  BY <1>2, OnwardInv, StageFacts, StageSteppers
<1>3. CASE LookAtConfig
  BY <1>1, <1>2, <1>3 DEF LookAtConfig, IntegrationSteps
<1>4. CASE AnswerYaml
  BY <1>2, <1>4 DEF AnswerYaml, IntegrationSteps
<1>5. CASE Writing
  BY <1>2, <1>5 DEF Writing, IntegrationSteps
<1>6. CASE Finish
  <2>1. CASE Save("integration", "complete", "ready") /\ step' = "idle"
    BY <1>6, <2>1, SaveInv, StageSteppers DEF Finish, IntegrationSteps
  <2> QED BY <1>1, <1>6, <2>1 DEF Finish, IntegrationSteps
<1> QED BY <1>3, <1>4, <1>5, <1>6

LEMMA StageStep == StageInv /\ [SetupNext]_allVars => StageInv'
<1> SUFFICES ASSUME StageInv, [SetupNext]_allVars PROVE StageInv'
  OBVIOUS
<1>1. CASE WizardNext
  BY <1>1, CommandInv, LocalInv, ProviderInv, IntegrationInv DEF WizardNext, UntilIntegration
<1>2. CASE OthersNext
  BY <1>2, RestInv DEF OthersNext
<1>3. CASE UserEdits
  BY <1>3, RestInv DEF UserEdits
<1>4. CASE UNCHANGED allVars
  BY <1>4, RestInv DEF allVars
<1> QED BY <1>1, <1>2, <1>3, <1>4 DEF SetupNext

LEMMA StageInit == WizardInit => StageInv
BY FreshFacts, StageFacts DEF WizardInit, StageInv, Unfinished, CompletedKept

\* No stage runs that has finished since the user last started over, but for those a
\* torn file has lost.
THEOREM StagesNotRepeated == SetupSpec => []NotRepeated
<1>1. StageInv => NotRepeated
  BY DEF StageInv, Unfinished, CompletedKept, NotRepeated, StageSteps
<1> QED BY <1>1, StageInit, StageStep, PTL DEF SetupSpec

\* What has finished since then, with the same exception, is in the file.
THEOREM StagesKept == SetupSpec => []CompletedKept
<1>1. StageInv => CompletedKept
  BY DEF StageInv
<1> QED BY <1>1, StageInit, StageStep, PTL DEF SetupSpec

-----------------------------------------------------------------------------
(* The tables of the providers, which the wizard and the servers share.    *)

\* The wizard changes them as a server does, or leaves them alone, or is killed.
LEMMA WizardTables ==
  ASSUME WizardNext
  PROVE  \/ \E s \in Servers : ServerNext(s)
         \/ UNCHANGED vars
         \/ /\ doing' = [doing EXCEPT ![Wizard] = Idle]
            /\ UNCHANGED <<status, log, workspaces, probes, started, deaths>>
<1>w. Wizard \in Servers /\ Primary \in Providers
  BY WizardAssumption
<1>1. CASE Kill
  BY <1>1 DEF Kill
<1>2. CASE RegisterPrimary
  <2>1. Register(Wizard, Primary) \/ UNCHANGED vars
    BY <1>2 DEF RegisterPrimary
  <2> QED BY <1>w, <2>1 DEF ServerNext
<1>3. CASE ActivatePrimary
  BY <1>w, <1>3 DEF ActivatePrimary, ServerNext
<1>4. CASE Activating
  BY <1>w, <1>4 DEF Activating, ServerNext
<1>5. CASE \/ Setup \/ AnswerResume \/ Continue \/ Reset \/ Local \/ AnswerProceed
           \/ Credentials \/ AnswerStore \/ AnswerValidate \/ Probe \/ Discover
           \/ Concurrency \/ LookAtConfig \/ AnswerYaml \/ Writing \/ Finish
  BY <1>5 DEF Setup, AnswerResume, Continue, Reset, Local, AnswerProceed, Credentials,
     AnswerStore, AnswerValidate, Probe, Discover, Concurrency, LookAtConfig, AnswerYaml,
     Writing, Finish
<1> QED BY <1>1, <1>2, <1>3, <1>4, <1>5 DEF WizardNext, UntilIntegration

LEMMA SetupTables == TypeOK /\ [SetupNext]_allVars => TypeOK'
<1> SUFFICES ASSUME TypeOK, [SetupNext]_allVars PROVE TypeOK'
  OBVIOUS
<1>1. ASSUME NEW s \in Servers, ServerNext(s) \/ Start(s) PROVE TypeOK'
  BY <1>1, ServerType DEF Start, TypeOK
<1>2. CASE UNCHANGED vars
  BY <1>2 DEF vars, TypeOK
<1>3. CASE /\ doing' = [doing EXCEPT ![Wizard] = Idle]
           /\ UNCHANGED <<status, log, workspaces, probes, started, deaths>>
  <2> DEFINE D == {Idle} \cup Updating \cup Resuming
  <2>1. doing \in [Servers -> D] /\ Idle \in D
    BY DEF TypeOK
  <2> HIDE DEF D
  <2>2. doing' \in [Servers -> D]
    BY <1>3, <2>1
  <2> QED BY <1>3, <2>2 DEF TypeOK, D
<1>4. CASE WizardNext
  BY <1>1, <1>2, <1>3, <1>4, WizardTables
<1>5. CASE OthersNext
  BY <1>1, <1>5 DEF OthersNext, TypeOK
<1> QED BY <1>2, <1>4, <1>5 DEF SetupNext, UserEdits, allVars

LEMMA SetupInitTypes == WizardInit => TypeOK
BY InitType DEF WizardInit

\* Every variable of the set-up, of the tables and of the file keeps its type.
THEOREM SetupTypes == SetupSpec => []WizardTypeOK
<1>1. TypeOK /\ HermesInv /\ StageInv => WizardTypeOK
  BY DEF HermesInv, StageInv, WizardTypeOK
<1> QED
  BY <1>1, SetupInitTypes, SetupTables, StageInit, StageStep, SetupImplementsHermes,
     HermesInvariance, PTL DEF SetupSpec

-----------------------------------------------------------------------------
(* The row of the provider, as long as one server is beside the wizard.    *)

Configured == {"active", "failed"}
Done(st) == st.stages["provider"] = "complete"

\* Who is in the middle of what: servers that have not been started of nothing, the
\* wizard of nothing but the activation.
Occupied ==
  /\ IsFiniteSet(started) /\ Wizard \notin started
  /\ \A s \in Servers \ started : s # Wizard => doing[s] = Idle
  /\ IF step = "activating"
     THEN /\ doing[Wizard] \in Updating
          /\ doing[Wizard].p = Primary /\ doing[Wizard].to = "active"
     ELSE doing[Wizard] = Idle

\* The inductive invariant.  The server has decided to call the provider validated
\* only where it is registered still, which the wizard cannot change; from the
\* wizard's UPDATE on the provider is configured.
RowConfigured ==
  /\ \A s \in started :
       doing[s].at = "update" /\ doing[s].p = Primary =>
         \/ doing[s].to \in Configured
         \/ doing[s].to = "validated" /\ status[Primary] = "registered"
  /\ step = "activating" /\ doing[Wizard].at = "update" =>
       status[Primary] \in {"validated"} \cup Configured
  /\ \/ step = "activating" /\ doing[Wizard].at = "log"
     \/ step = "concurrency"
     \/ Done(saved)
     => status[Primary] \in Configured

ProviderInvariant == Occupied /\ (Alone => RowConfigured)

LEMMA TransitionFacts ==
  ASSUME NEW st \in Status \cup {"absent"}, NEW to \in ValidTransitions[st]
  PROVE  /\ to \in Configured \/ (to = "validated" /\ st = "registered")
         /\ to = "active" => st = "validated"
BY DEF ValidTransitions, Status, Configured

LEMMA ProviderInit == WizardInit => ProviderInvariant
<1> SUFFICES ASSUME WizardInit PROVE ProviderInvariant
  OBVIOUS
<1>1. /\ started = {} /\ \A s \in Servers : doing[s] = Idle
      /\ step = "idle" /\ saved = Fresh
  BY DEF WizardInit, Init
<1>2. ~Done(saved)
  BY <1>1 DEF Done, Fresh, PhaseSet
<1> QED
  BY <1>1, <1>2, WizardAssumption, FS_EmptySet DEF ProviderInvariant, Occupied, RowConfigured

\* A server is started, or does what servers do.
LEMMA StartInv ==
  ASSUME ProviderInvariant, NEW s \in Servers \ {Wizard}, Start(s),
         UNCHANGED wizardVars
  PROVE  ProviderInvariant'
<1>1. /\ started' = started \cup {s} /\ s \notin started
      /\ doing' = doing /\ status' = status /\ step' = step /\ saved' = saved
  BY DEF Start, wizardVars
<1>2. IsFiniteSet(started') /\ (Alone' => started = {})
  BY FirstStarted DEF ProviderInvariant, Occupied
<1>3. Occupied'
  BY <1>1, <1>2 DEF ProviderInvariant, Occupied
<1>4. ASSUME Alone' PROVE RowConfigured'
  <2>1. started = {} /\ Alone /\ doing[s] = Idle
    BY <1>1, <1>2, <1>4, FS_EmptySet DEF Alone, ProviderInvariant, Occupied
  <2>2. doing'[s].at # "update" /\ started' = {s}
    BY <1>1, <2>1, IdleAt
  <2> QED BY <1>1, <2>1, <2>2 DEF ProviderInvariant, RowConfigured
<1> QED BY <1>3, <1>4 DEF ProviderInvariant

LEMMA ServerUpdates ==
  ASSUME TypeOK, ProviderInvariant, RowConfigured, Alone, NEW s \in started, started = {s},
         UpdateStatus(s), UNCHANGED wizardVars
  PROVE  RowConfigured'
<1> DEFINE d == [doing[s] EXCEPT !.at = "log"]
<1>t. /\ status \in [Providers -> Status \cup {"absent"}]
      /\ doing \in [Servers -> {Idle} \cup Updating \cup Resuming]
      /\ s \in Servers /\ Wizard # s
  BY DEF TypeOK, ProviderInvariant, Occupied
<1>1. doing[s] \in Updating /\ doing[s].at = "update"
  BY <1>t, DoingShape DEF UpdateStatus
<1>2. d.at = "log" /\ doing[s].p \in Providers
  BY <1>1, UpdatingFields
<1>3. /\ doing' = [doing EXCEPT ![s] = d] /\ step' = step /\ saved' = saved
      /\ status' = [status EXCEPT ![doing[s].p] = doing[s].to] /\ started' = started
  BY DEF UpdateStatus, wizardVars
<1> HIDE DEF d
<1>4. doing'[s] = d /\ doing'[Wizard] = doing[Wizard]
  BY <1>t, <1>3
<1>5. CASE doing[s].p # Primary
  <2>1. status'[Primary] = status[Primary]
    BY <1>t, <1>3, <1>5
  <2> QED BY <1>2, <1>3, <1>4, <2>1 DEF RowConfigured
<1>6. CASE doing[s].p = Primary
  <2>1. status'[Primary] = doing[s].to
    BY <1>t, <1>2, <1>3, <1>6
  <2>2. \/ doing[s].to \in Configured
        \/ doing[s].to = "validated" /\ status[Primary] = "registered"
    BY <1>1, <1>6 DEF RowConfigured
  <2>3. "registered" \notin {"validated"} \cup Configured
    BY DEF Configured
  <2> QED BY <1>2, <1>3, <1>4, <2>1, <2>2, <2>3 DEF RowConfigured
<1> QED BY <1>5, <1>6

\* What is neither an UPDATE of the server nor a registration leaves the status.
LEMMA ServerDecides ==
  ASSUME TypeOK, ProviderInvariant, RowConfigured, NEW s \in started, started = {s},
         NEW d, doing' = [doing EXCEPT ![s] = d], started' = started,
         d.at = "update" /\ d.p = Primary => d.to \in ValidTransitions[status[Primary]],
         status' = status, UNCHANGED wizardVars
  PROVE  RowConfigured'
<1>t. /\ status \in [Providers -> Status \cup {"absent"}]
      /\ doing \in [Servers -> {Idle} \cup Updating \cup Resuming]
      /\ s \in Servers /\ Wizard # s
  BY DEF TypeOK, ProviderInvariant, Occupied
<1>1. doing'[s] = d /\ doing'[Wizard] = doing[Wizard] /\ step' = step /\ saved' = saved
  BY <1>t DEF wizardVars
<1>2. d.at = "update" /\ d.p = Primary =>
        \/ d.to \in Configured
        \/ d.to = "validated" /\ status[Primary] = "registered"
  BY <1>t, TransitionFacts, WizardAssumption
<1> QED BY <1>1, <1>2 DEF RowConfigured

LEMMA ServerInv ==
  ASSUME TypeOK, ProviderInvariant, NEW s \in started, ServerNext(s), UNCHANGED wizardVars
  PROVE  ProviderInvariant'
<1>t. /\ status \in [Providers -> Status \cup {"absent"}]
      /\ doing \in [Servers -> {Idle} \cup Updating \cup Resuming]
      /\ s \in Servers /\ Wizard # s /\ Wizard \in Servers
  BY WizardAssumption DEF TypeOK, ProviderInvariant, Occupied
<1>1. started' = started
  BY Zenon DEF ServerNext, UpdateStatus, AppendEvent, Find, Insert, Die, Register,
     Validate, ProbeReturns, Activate, Rollback, Resume
<1>2. \A t \in Servers : t # s => doing'[t] = doing[t]
  BY <1>t DEF ServerNext, UpdateStatus, AppendEvent, Find, Insert, Die, Register,
     Validate, ProbeReturns, Activate, Rollback, Resume, SelectStatus
<1>3. Occupied'
  BY <1>t, <1>1, <1>2 DEF wizardVars, ProviderInvariant, Occupied
<1>4. ASSUME Alone' PROVE RowConfigured'
  <2>1. Alone /\ started = {s} /\ RowConfigured /\ step' = step /\ saved' = saved
    BY <1>1, <1>4, OnlyOne DEF Alone, ProviderInvariant, Occupied, wizardVars
  <2>2. CASE UpdateStatus(s)
    BY <2>1, <2>2, ServerUpdates
  <2>3. CASE AppendEvent(s) \/ Insert(s) \/ Die(s)
    <3>1. doing' = [doing EXCEPT ![s] = Idle] /\ status' = status
      BY <2>3 DEF AppendEvent, Insert, Die
    <3> QED BY <1>1, <2>1, <3>1, IdleAt, ServerDecides
  <2>4. CASE Find(s)
    <3> DEFINE d == [doing[s] EXCEPT !.at = "insert"]
    <3>1. doing[s] \in Resuming /\ doing[s].at = "find"
      BY <2>4, <1>t, DoingShape DEF Find
    <3>2. d.at = "insert"
      BY <3>1, ResumingFields
    <3>3. /\ doing' = [doing EXCEPT ![s] = Idle] \/ doing' = [doing EXCEPT ![s] = d]
          /\ status' = status
      BY <2>4 DEF Find
    <3> HIDE DEF d
    <3> QED BY <1>1, <2>1, <3>2, <3>3, IdleAt, ServerDecides
  <2>5. ASSUME NEW q \in Providers, Register(s, q) PROVE RowConfigured'
    <3>1. /\ doing' = doing /\ status[q] = "absent"
          /\ status' = [status EXCEPT ![q] = "registered"] /\ doing[s] = Idle
      BY <2>5 DEF Register
    <3>2. \A t \in started : doing'[t].at # "update"
      BY <2>1, <3>1, IdleAt
    <3>3. status[Primary] \in {"validated"} \cup Configured => status'[Primary] = status[Primary]
      BY <1>t, <3>1 DEF Configured
    <3> QED BY <1>1, <2>1, <3>1, <3>2, <3>3 DEF RowConfigured
  <2>6. ASSUME NEW q \in Providers, Validate(s, q) PROVE RowConfigured'
    <3>1. doing' = doing /\ status' = status
      BY <2>6 DEF Validate
    <3> QED BY <1>1, <2>1, <3>1 DEF RowConfigured
  <2>7. ASSUME NEW q \in Providers, ProbeReturns(s, q) \/ Activate(s, q) \/ Rollback(s, q)
        PROVE  RowConfigured'
    <3>1. PICK to : SelectStatus(s, q, to)
      BY <2>7 DEF ProbeReturns, Activate, Rollback
    <3>2. status' = status
      BY <2>7 DEF ProbeReturns, Activate, Rollback
    <3> DEFINE d == [at |-> "update", p |-> q, from |-> status[q], to |-> to]
    <3>3. d.p = q /\ d.to = to
      OBVIOUS
    <3>4. \/ doing' = doing
          \/ to \in ValidTransitions[status[q]] /\ doing' = [doing EXCEPT ![s] = d]
      BY <3>1 DEF SelectStatus
    <3> HIDE DEF d
    <3>5. CASE doing' = doing
      BY <1>1, <2>1, <3>2, <3>5 DEF RowConfigured
    <3>6. CASE to \in ValidTransitions[status[q]] /\ doing' = [doing EXCEPT ![s] = d]
      BY <1>1, <2>1, <3>2, <3>3, <3>6, ServerDecides
    <3> QED BY <3>4, <3>5, <3>6
  <2>8. ASSUME NEW q \in Providers, NEW r \in Repos, Resume(s, q, r) PROVE RowConfigured'
    <3> DEFINE d == [at |-> "find", p |-> q, r |-> r]
    <3>1. d.at # "update"
      OBVIOUS
    <3>2. doing' = [doing EXCEPT ![s] = d] /\ status' = status
      BY <2>8 DEF Resume
    <3> HIDE DEF d
    <3> QED BY <1>1, <2>1, <3>1, <3>2, ServerDecides
  <2> QED BY <2>2, <2>3, <2>4, <2>5, <2>6, <2>7, <2>8 DEF ServerNext
<1> QED BY <1>3, <1>4 DEF ProviderInvariant

\* A save calls the provider configured only where the provider stage is complete.
LEMMA SaveDone ==
  ASSUME StageInv, step \notin {"idle", "resume"}, NEW ph \in PhaseSet,
         NEW s \in StageStatuses, NEW x \in States, Save(ph, s, x),
         ph = "provider" => s # "complete"
  PROVE  Done(saved') => Done(saved)
<1> DEFINE f == [mem.stages EXCEPT ![ph] = s]
<1>1. mem = saved /\ mem.stages \in [PhaseSet -> StageStatuses] /\ "provider" \in PhaseSet
  BY SetupFields, StageSteppers DEF StageInv
<1>2. f["provider"] = IF ph = "provider" THEN s ELSE saved.stages["provider"]
  BY <1>1
<1>3. mem' = [state |-> x, stages |-> f] /\ saved' = mem'
  BY DEF Save
<1> HIDE DEF f
<1>4. saved'.stages = f
  BY <1>3
<1> QED BY <1>2, <1>4 DEF Done

LEMMA FailDone ==
  ASSUME StageInv, step \notin {"idle", "resume"}, NEW ph \in PhaseSet, Fail(ph)
  PROVE  Done(saved') => Done(saved)
<1>1. Save(ph, "failed", "failed") /\ "failed" \in StageStatuses /\ "failed" \in States
  BY StageSteppers DEF Fail
<1> QED BY <1>1, SaveDone

\* The wizard leaves the rows alone and is not about to activate.
LEMMA WizardLeaves ==
  ASSUME ProviderInvariant, UNCHANGED <<status, started>>,
         \A s \in Servers \ {Wizard} : doing'[s] = doing[s], doing'[Wizard] = Idle,
         started \subseteq Servers,
         step' \notin {"activating", "concurrency"},
         Done(saved') => Done(saved) \/ step = "concurrency"
  PROVE  ProviderInvariant'
<1>1. Occupied'
  BY DEF ProviderInvariant, Occupied
<1>2. \A s \in started : doing'[s] = doing[s]
  BY DEF ProviderInvariant, Occupied
<1>3. ASSUME Alone' PROVE RowConfigured'
  BY <1>2, <1>3 DEF Alone, ProviderInvariant, RowConfigured
<1> QED BY <1>1, <1>3 DEF ProviderInvariant

LEMMA WizardLooksOn ==
  ASSUME ProviderInvariant, TypeOK, UNCHANGED vars, step # "activating",
         step' \notin {"activating", "concurrency"},
         Done(saved') => Done(saved) \/ step = "concurrency"
  PROVE  ProviderInvariant'
<1>1. doing' = doing /\ doing[Wizard] = Idle /\ UNCHANGED <<status, started>>
  BY DEF vars, ProviderInvariant, Occupied
<1> QED BY <1>1, WizardLeaves DEF TypeOK

\* What the wizard turns to when a command, an answer or a stage ends.
Turns == PhaseSet \cup {"idle"}

LEMMA TurnFacts ==
  /\ \A st \in Setups : FirstIncomplete(st) \in Turns
  /\ \A st \in Setups, ph \in PhaseSet : After(st, ph) \in Turns
  /\ \A st \in Turns : st \notin {"activating", "concurrency"}
<1>1. \A st \in Setups : FirstIncomplete(st) \in Turns
  BY FirstFacts DEF Turns
<1>2. \A st \in Setups, ph \in PhaseSet : After(st, ph) \in Turns
  BY AfterFacts DEF Turns
<1>3. \A st \in Turns : st \notin {"activating", "concurrency"}
  BY DEF Turns, PhaseSet
<1> QED BY <1>1, <1>2, <1>3

LEMMA CommandRow ==
  ASSUME StageInv, TypeOK, ProviderInvariant,
         Setup \/ AnswerResume \/ Continue \/ Reset \/ Kill
  PROVE  ProviderInvariant'
<1>1. saved \in Setups /\ Fresh \in Setups /\ ~Done(Fresh)
  <2>1. Fresh.stages["provider"] = "pending"
    BY FreshFacts, StageSteppers
  <2> QED BY <2>1, FreshFacts DEF StageInv, Done
<1>2. CASE Setup
  BY <1>1, <1>2, WizardLooksOn, TurnFacts DEF Setup, RunStages
<1>3. CASE AnswerResume
  BY <1>1, <1>3, WizardLooksOn, TurnFacts DEF AnswerResume, RunStages, StartOver
<1>4. CASE Continue
  BY <1>1, <1>4, WizardLooksOn, TurnFacts DEF Continue, RunStages
<1>5. CASE Reset
  BY <1>1, <1>5, WizardLooksOn DEF Reset, StartOver
<1>6. CASE Kill
  <2>1. /\ doing'[Wizard] = Idle /\ \A s \in Servers \ {Wizard} : doing'[s] = doing[s]
        /\ UNCHANGED <<status, started>> /\ step' = "idle" /\ started \subseteq Servers
    BY <1>6, WizardAssumption DEF Kill, TypeOK
  <2>2. Done(saved') => Done(saved)
    BY <1>1, <1>6 DEF Kill
  <2> QED BY <2>1, <2>2, WizardLeaves
<1> QED BY <1>2, <1>3, <1>4, <1>5, <1>6

LEMMA AskingRow ==
  ASSUME StageInv, TypeOK, ProviderInvariant,
         \/ Local \/ AnswerProceed \/ Credentials \/ AnswerStore \/ AnswerValidate
         \/ Probe \/ Discover \/ Concurrency
  PROVE  ProviderInvariant'
<1>f. ASSUME NEW ph \in PhaseSet, Fail(ph), UNCHANGED vars,
             step \notin {"idle", "resume", "activating"}
      PROVE  ProviderInvariant'
  <2>1. step' = "idle" /\ (Done(saved') => Done(saved))
    BY <1>f, FailDone DEF Fail
  <2> QED BY <1>f, <2>1, WizardLooksOn
<1>1. CASE Local
  <2>1. CASE Save("local", "complete", "local_verified") /\ step' = "proceed"
    <3>1. Done(saved') => Done(saved)
      BY <1>1, <2>1, SaveDone, StageSteppers DEF Local
    <3> QED BY <1>1, <2>1, <3>1, WizardLooksOn DEF Local
  <2> QED BY <1>1, <1>f, <2>1, StageSteppers DEF Local
<1>2. CASE AnswerProceed
  <2>1. step' \in Turns
    BY <1>2, TurnFacts, StageSteppers DEF AnswerProceed, StageInv
  <2> QED BY <1>2, <2>1, TurnFacts, WizardLooksOn DEF AnswerProceed
<1>3. CASE Credentials
  BY <1>3, <1>f, WizardLooksOn, StageSteppers DEF Credentials
<1>4. CASE AnswerStore
  <2>1. CASE Save("provider", "skipped", mem.state) /\ step' = "idle"
    <3>1. mem.state \in States
      BY SetupFields DEF StageInv
    <3>2. Done(saved') => Done(saved)
      BY <1>4, <2>1, <3>1, SaveDone, StageSteppers DEF AnswerStore
    <3> QED BY <1>4, <2>1, <3>2, WizardLooksOn DEF AnswerStore
  <2> QED BY <1>4, <1>f, <2>1, WizardLooksOn, StageSteppers DEF AnswerStore
<1>5. CASE AnswerValidate
  <2>1. saved' = saved
    BY <1>5 DEF AnswerValidate, StageInv
  <2> QED BY <1>5, <2>1, WizardLooksOn DEF AnswerValidate
<1>6. CASE Probe
  BY <1>6, <1>f, WizardLooksOn, StageSteppers DEF Probe
<1>7. CASE Discover
  BY <1>7, <1>f, WizardLooksOn, StageSteppers DEF Discover
<1>8. CASE Concurrency
  <2>1. mem' \in Setups
    BY <1>8, SaveFacts, StageSteppers DEF Concurrency, StageInv
  <2>2. step' \in Turns /\ step = "concurrency"
    BY <1>8, <2>1, TurnFacts, StageSteppers DEF Concurrency
  <2> QED BY <1>8, <2>2, TurnFacts, WizardLooksOn DEF Concurrency
<1> QED BY <1>1, <1>2, <1>3, <1>4, <1>5, <1>6, <1>7, <1>8

LEMMA IntegrationRow ==
  ASSUME StageInv, TypeOK, ProviderInvariant,
         LookAtConfig \/ AnswerYaml \/ Writing \/ Finish
  PROVE  ProviderInvariant'
<1>1. /\ UNCHANGED vars /\ step \in IntegrationSteps
      /\ \/ Fail("integration")
         \/ Save("integration", "complete", "ready") /\ step' = "idle"
         \/ saved' = saved /\ step' \in IntegrationSteps
  BY DEF LookAtConfig, AnswerYaml, Writing, Finish, IntegrationSteps
<1>2. step \notin {"idle", "resume", "activating"}
  BY <1>1 DEF IntegrationSteps
<1>3. step' \notin {"activating", "concurrency"}
  BY <1>1 DEF Fail, IntegrationSteps
<1>4. Done(saved') => Done(saved)
  BY <1>1, <1>2, FailDone, SaveDone, StageSteppers
<1> QED BY <1>1, <1>2, <1>3, <1>4, WizardLooksOn

\* The row is registered where it was absent, which nobody has decided upon.
LEMMA RegisterRow ==
  ASSUME StageInv, TypeOK, ProviderInvariant, RegisterPrimary
  PROVE  ProviderInvariant'
<1>w. Wizard \in Servers /\ Primary \in Providers /\ status \in [Providers -> Status \cup {"absent"}]
  BY WizardAssumption DEF TypeOK
<1>1. CASE Fail("provider") /\ UNCHANGED vars
  <2>1. step = "register"
    BY DEF RegisterPrimary
  <2>2. step' = "idle" /\ (Done(saved') => Done(saved))
    BY <1>1, <2>1, FailDone, StageSteppers DEF Fail
  <2> QED BY <1>1, <2>1, <2>2, WizardLooksOn
<1>2. CASE Register(Wizard, Primary) /\ step' = "defer" /\ UNCHANGED <<mem, progress>>
  <2>1. /\ step = "register" /\ step' = "defer" /\ saved' = saved
        /\ UNCHANGED <<doing, started>> /\ status[Primary] = "absent"
        /\ status' = [status EXCEPT ![Primary] = "registered"]
    BY <1>2 DEF RegisterPrimary, Register
  <2>2. Occupied'
    BY <2>1 DEF ProviderInvariant, Occupied
  <2>3. ASSUME Alone' PROVE RowConfigured'
    <3>1. RowConfigured
      BY <2>1, <2>3 DEF Alone, ProviderInvariant
    <3>2. ~Done(saved)
      BY <2>1, <3>1 DEF RowConfigured, Configured
    <3>3. \A s \in started :
            doing[s].at = "update" /\ doing[s].p = Primary => doing[s].to \in Configured
      BY <2>1, <3>1 DEF RowConfigured
    <3> QED BY <2>1, <3>2, <3>3 DEF RowConfigured
  <2> QED BY <2>2, <2>3 DEF ProviderInvariant
<1> QED BY <1>1, <1>2 DEF RegisterPrimary

\* The activation is decided upon where the row is validated.
LEMMA ActivateRow ==
  ASSUME StageInv, TypeOK, ProviderInvariant, ActivatePrimary
  PROVE  ProviderInvariant'
<1> DEFINE d == [at |-> "update", p |-> Primary, from |-> status[Primary], to |-> "active"]
<1>w. /\ Wizard \in Servers /\ Primary \in Providers
      /\ status[Primary] \in Status \cup {"absent"} /\ DOMAIN doing = Servers
      /\ started \subseteq Servers
  BY WizardAssumption DEF TypeOK
<1>1. /\ step = "activate" /\ doing[Wizard] = Idle
      /\ UNCHANGED <<status, log, workspaces, probes, started, deaths>>
      /\ \/ doing' = doing
         \/ doing' = [doing EXCEPT ![Wizard] = d] /\ "active" \in ValidTransitions[status[Primary]]
      /\ IF doing'[Wizard] = Idle THEN Fail("provider")
         ELSE step' = "activating" /\ UNCHANGED <<mem, progress>>
  BY DEF ActivatePrimary, Activate, SelectStatus
<1>2. CASE doing' = doing
  <2>1. Fail("provider")
    BY <1>1, <1>2
  <2>2. step' = "idle" /\ (Done(saved') => Done(saved))
    BY <1>1, <2>1, FailDone, StageSteppers DEF Fail
  <2>3. UNCHANGED vars
    BY <1>1, <1>2 DEF vars
  <2> QED BY <1>1, <2>2, <2>3, WizardLooksOn
<1>3. CASE doing' = [doing EXCEPT ![Wizard] = d] /\ "active" \in ValidTransitions[status[Primary]]
  <2>1. d.at = "update" /\ d.p = Primary /\ d.to = "active"
    OBVIOUS
  <2>2. status[Primary] = "validated"
    BY <1>w, <1>3, TransitionFacts
  <2>3. d \in Updating
    BY <1>w, <2>2 DEF Updating, Status
  <2> HIDE DEF d
  <2>4. doing'[Wizard] = d /\ \A s \in Servers \ {Wizard} : doing'[s] = doing[s]
    BY <1>w, <1>3
  <2>5. step' = "activating" /\ saved' = saved
    BY <1>1, <2>1, <2>4, IdleAt
  <2>6. Occupied'
    BY <1>1, <2>1, <2>3, <2>4, <2>5 DEF ProviderInvariant, Occupied
  <2>7. ASSUME Alone' PROVE RowConfigured'
    <3>1. RowConfigured /\ Wizard \notin started /\ \A s \in started : doing'[s] = doing[s]
      BY <1>1, <1>w, <2>4, <2>7 DEF Alone, ProviderInvariant, Occupied
    <3> QED BY <1>1, <2>1, <2>2, <2>4, <2>5, <3>1 DEF RowConfigured
  <2> QED BY <2>6, <2>7 DEF ProviderInvariant
<1> QED BY <1>1, <1>2, <1>3

\* The UPDATE finds a row that has been validated or is configured; the INSERT follows.
LEMMA ActivatingRow ==
  ASSUME StageInv, TypeOK, ProviderInvariant, Activating
  PROVE  ProviderInvariant'
<1> DEFINE d == [doing[Wizard] EXCEPT !.at = "log"]
<1>w. /\ Wizard \in Servers /\ Primary \in Providers
      /\ DOMAIN doing = Servers /\ DOMAIN status = Providers /\ started \subseteq Servers
  BY WizardAssumption DEF TypeOK
<1>1. /\ step = "activating" /\ saved' = saved
      /\ step' = IF doing'[Wizard] = Idle THEN "concurrency" ELSE step
  BY DEF Activating
<1>2. /\ doing[Wizard] \in Updating /\ doing[Wizard].p = Primary
      /\ doing[Wizard].to = "active" /\ Wizard \notin started
  BY <1>1 DEF ProviderInvariant, Occupied
<1>3. CASE UpdateStatus(Wizard)
  <2>1. d \in Updating /\ d.at = "log" /\ d.p = Primary /\ d.to = "active"
    BY <1>2 DEF Updating
  <2>2. /\ doing' = [doing EXCEPT ![Wizard] = d] /\ UNCHANGED started
        /\ status' = [status EXCEPT ![Primary] = "active"]
    BY <1>2, <1>3 DEF UpdateStatus
  <2> HIDE DEF d
  <2>3. doing'[Wizard] = d /\ \A s \in Servers \ {Wizard} : doing'[s] = doing[s]
    BY <1>w, <2>2
  <2>4. step' = "activating"
    BY <1>1, <2>1, <2>3, IdleAt
  <2>5. status'[Primary] \in Configured
    BY <1>w, <2>2 DEF Configured
  <2>6. Occupied'
    BY <1>1, <2>1, <2>2, <2>3, <2>4 DEF ProviderInvariant, Occupied
  <2>7. ASSUME Alone' PROVE RowConfigured'
    <3>1. RowConfigured /\ \A s \in started : doing'[s] = doing[s]
      BY <1>w, <1>2, <2>2, <2>3, <2>7 DEF Alone, ProviderInvariant
    <3>2. status[Primary] # "registered"
      BY <1>1, <1>3, <3>1 DEF UpdateStatus, RowConfigured, Configured
    <3>3. \A s \in started :
            doing[s].at = "update" /\ doing[s].p = Primary => doing[s].to \in Configured
      BY <3>1, <3>2 DEF RowConfigured
    <3> QED BY <2>1, <2>2, <2>3, <2>4, <2>5, <3>1, <3>3 DEF RowConfigured
  <2> QED BY <2>6, <2>7 DEF ProviderInvariant
<1>4. CASE AppendEvent(Wizard)
  <2>1. /\ doing[Wizard].at = "log" /\ UNCHANGED <<status, started>>
        /\ doing' = [doing EXCEPT ![Wizard] = Idle]
    BY <1>4 DEF AppendEvent
  <2>2. doing'[Wizard] = Idle /\ \A s \in Servers \ {Wizard} : doing'[s] = doing[s]
    BY <1>w, <2>1
  <2>3. step' = "concurrency"
    BY <1>1, <2>2
  <2>4. Occupied'
    BY <2>1, <2>2, <2>3 DEF ProviderInvariant, Occupied
  <2>5. ASSUME Alone' PROVE RowConfigured'
    <3>1. RowConfigured /\ \A s \in started : doing'[s] = doing[s]
      BY <1>w, <1>2, <2>1, <2>2, <2>5 DEF Alone, ProviderInvariant
    <3>2. status[Primary] \in Configured
      BY <1>1, <2>1, <3>1 DEF RowConfigured
    <3> QED BY <2>1, <2>3, <3>1, <3>2 DEF RowConfigured
  <2> QED BY <2>4, <2>5 DEF ProviderInvariant
<1> QED BY <1>3, <1>4 DEF Activating

LEMMA ProviderStep ==
  StageInv /\ TypeOK /\ ProviderInvariant /\ [SetupNext]_allVars => ProviderInvariant'
<1> SUFFICES ASSUME StageInv, TypeOK, ProviderInvariant, [SetupNext]_allVars
             PROVE  ProviderInvariant'
  OBVIOUS
<1>1. CASE WizardNext
  BY <1>1, CommandRow, AskingRow, IntegrationRow, RegisterRow, ActivateRow, ActivatingRow
  DEF WizardNext, UntilIntegration
<1>2. CASE OthersNext
  BY <1>2, StartInv, ServerInv DEF OthersNext
<1>3. CASE UserEdits \/ UNCHANGED allVars
  BY <1>3 DEF UserEdits, allVars, vars, wizardVars, ProviderInvariant, Occupied,
     RowConfigured, Alone
<1> QED BY <1>1, <1>2, <1>3 DEF SetupNext

\* Where the file of the set-up calls the provider configured, its row is active or has
\* failed since, whatever one server beside the wizard did and wherever it was killed.
THEOREM ConfiguredIsActivated == SetupSpec => []ProviderTruthful
<1>1. ProviderInvariant => ProviderTruthful
  BY DEF ProviderInvariant, RowConfigured, ProviderTruthful, Done, Configured
<1> QED
  BY <1>1, SetupInitTypes, SetupTables, StageInit, StageStep, ProviderInit, ProviderStep,
     PTL DEF SetupSpec
=============================================================================
