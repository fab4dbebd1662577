----------------------------- MODULE SetupWizard -----------------------------
(***************************************************************************)
(* hco setup: the wizard of setup/wizard and its three stages, its state   *)
(* file, and its use of the provider tables while MCP servers use them too *)
(* (ProviderLifecycle).                                                    *)
(*                                                                         *)
(* The wizard waits for answers, for the network and for commands of the   *)
(* operating system: between two steps everything may happen elsewhere,    *)
(* and the user may end it.  Answers and results are whatever they like.   *)
(* What a stage writes besides (environment file, systemd drop-in) and     *)
(* what it keeps in memory only (concurrency, allowlist) is left out,      *)
(* except that writing may throw.  The file of Hermes is HermesConfig's.   *)
(***************************************************************************)
EXTENDS ProviderLifecycle, HermesConfig

CONSTANTS Wizard,   \* the wizard among the processes on the database
          Primary   \* the provider of profile claude-primary

ASSUME WizardAssumption == Wizard \in Servers /\ Primary \in Providers

VARIABLES
  saved,     \* what loadSetupState returns: a missing or torn file loads as Fresh
  mem,       \* the state of the running wizard
  step,      \* what it is about to do, or the answer it waits for
  completed, \* history: the stages finished since the user last started over
  lost       \* history: those of which a kill in the middle of a save left no trace

\* The two histories only record what has happened; no action looks at them.
progress == <<saved, completed, lost>>
wizardVars == <<progress, mem, step>>
allVars == <<vars, wizardVars, hermesVars>>

Phases == <<"local", "provider", "integration">>
PhaseSet == {"local", "provider", "integration"}
ProviderSteps == {"provider", "store", "register", "defer", "probe", "discover",
                  "activate", "activating", "concurrency"}
IntegrationSteps == {"integration", "yaml", "writing", "finish"}
Steps == {"idle", "resume", "local", "proceed"} \cup ProviderSteps \cup IntegrationSteps
\* Where it does nothing that may end with saving its state.
SilentSteps == {"proceed", "activating", "yaml", "writing"}
Setups == [state : {"not_started", "local_verified", "provider_configured", "ready", "failed"},
           stages : [PhaseSet -> {"pending", "complete", "failed", "skipped"}]]

WizardTypeOK ==
  /\ TypeOK /\ HermesTypeOK
  /\ saved \in Setups /\ mem \in Setups
  /\ step \in Steps
  /\ completed \subseteq PhaseSet /\ lost \subseteq PhaseSet

\* createSetupState
Fresh == [state |-> "not_started", stages |-> [ph \in PhaseSet |-> "pending"]]

WizardInit ==
  /\ Init /\ HermesInit
  /\ saved = Fresh /\ mem = Fresh
  /\ step = "idle"
  /\ completed = {} /\ lost = {}

-----------------------------------------------------------------------------
AllComplete(st) == \A ph \in PhaseSet : st.stages[ph] = "complete"

\* isSetupIncomplete
Incomplete(st) == st.state # "ready" \/ ~AllComplete(st)

Open(st) == {i \in 1..3 : st.stages[Phases[i]] \in {"pending", "failed"}}

\* Faulty variant: every run starts at the beginning.
FromTheStart(st) == IF Open(st) = {} THEN "idle" ELSE "local"

\* firstIncompleteStage; skipped stages do not count.
FirstIncomplete(st) ==
  IF Open(st) = {} THEN "idle" ELSE Phases[CHOOSE i \in Open(st) : \A j \in Open(st) : i <= j]

\* The stage the loop of runStages turns to after phase ph.
After(st, ph) ==
  LET rest == {i \in 2..3 : /\ \E j \in 1..(i - 1) : Phases[j] = ph
                            /\ st.stages[Phases[i]] # "complete"} IN
  IF rest = {} THEN "idle" ELSE Phases[CHOOSE i \in rest : \A j \in rest : i <= j]

\* runStages, up to its first stage.
RunStages(st) ==
  /\ mem' = st
  /\ step' = FirstIncomplete(st)

\* What the history makes of stage ph ending with status s.
Record(ph, s) ==
  IF s = "complete" THEN completed' = completed \cup {ph} /\ lost' = lost \ {ph}
                    ELSE UNCHANGED <<completed, lost>>

\* Faulty variant: the other stages are forgotten.
WipingSave(ph, s, x) ==
  /\ mem' = [state |-> x, stages |-> [Fresh.stages EXCEPT ![ph] = s]]
  /\ saved' = mem'
  /\ Record(ph, s)

\* The stage ph ends with status s in state x, which is saved.
Save(ph, s, x) ==
  /\ mem' = [state |-> x, stages |-> [mem.stages EXCEPT ![ph] = s]]
  /\ saved' = mem'
  /\ Record(ph, s)

\* A stage fails, by itself or by an exception that runStages catches.
Fail(ph) == Save(ph, "failed", "failed") /\ step' = "idle"

-----------------------------------------------------------------------------
(* The commands.  Each does nothing where the setup is complete.           *)

\* The user wants to begin again.
StartOver == saved' = Fresh /\ completed' = {} /\ lost' = {}

Setup ==
  /\ step = "idle"
  /\ Incomplete(saved)
  /\ IF saved.state = "not_started" THEN RunStages(saved)
     ELSE step' = "resume" /\ UNCHANGED mem
  /\ UNCHANGED <<vars, progress>>

\* "Resume setup?"
AnswerResume ==
  /\ step = "resume"
  /\ \/ RunStages(saved) /\ UNCHANGED progress
     \/ RunStages(Fresh) /\ StartOver
  /\ UNCHANGED vars

\* setup --continue, and --repair once it is confirmed
Continue ==
  /\ step = "idle"
  /\ Incomplete(saved)
  /\ RunStages(saved)
  /\ UNCHANGED <<vars, progress>>

\* setup --reset removes the file and nothing else.
Reset ==
  /\ step = "idle"
  /\ StartOver
  /\ UNCHANGED <<vars, mem, step>>

\* The process ends, perhaps in the middle of writing the file in place.
Kill ==
  /\ step # "idle"
  /\ step' = "idle"
  /\ \/ UNCHANGED progress
     \/ /\ step \notin SilentSteps
        /\ saved' = Fresh /\ lost' = completed
        /\ UNCHANGED completed
  /\ doing' = [doing EXCEPT ![Wizard] = Idle]
  /\ KillWrite
  /\ UNCHANGED <<status, log, workspaces, probes, started, deaths, mem>>

-----------------------------------------------------------------------------
(* Stage 1.                                                                *)

Local ==
  /\ step = "local"
  /\ \/ Fail("local")
     \/ Save("local", "complete", "local_verified") /\ step' = "proceed"
  /\ UNCHANGED vars

\* "Configure real Claude execution now?"  Both answers return the same state, and
\* runStages goes on, as the stage is complete.
AnswerProceed ==
  /\ step = "proceed"
  /\ step' = After(mem, "local")
  /\ UNCHANGED <<vars, mem, progress>>

-----------------------------------------------------------------------------
(* Stage 2.                                                                *)

Credentials ==
  /\ step = "provider"
  /\ \/ Fail("provider")
     \/ step' = "store" /\ UNCHANGED <<mem, progress>>
  /\ UNCHANGED vars

\* The environment file and the drop-in; declining leaves the setup's state alone.
AnswerStore ==
  /\ step = "store"
  /\ \/ Save("provider", "skipped", mem.state) /\ step' = "idle"
     \/ Fail("provider")
     \/ step' = "register" /\ UNCHANGED <<mem, progress>>
  /\ UNCHANGED vars

\* A provider that is there already, from an earlier run too, is a failure.
RegisterPrimary ==
  /\ step = "register"
  /\ IF status[Primary] = "absent"
     THEN Register(Wizard, Primary) /\ step' = "defer" /\ UNCHANGED <<mem, progress>>
     ELSE Fail("provider") /\ UNCHANGED vars

\* "This sends one provider API request. Continue?"
AnswerValidate ==
  /\ step = "defer"
  /\ \/ step' = "idle" /\ saved' = mem /\ UNCHANGED <<completed, lost>>
     \/ step' = "probe" /\ UNCHANGED progress
  /\ UNCHANGED <<vars, mem>>

\* The adapter is asked, not the service: the row of the provider stays as it is.
Probe ==
  /\ step = "probe"
  /\ \/ Fail("provider")
     \/ step' = "discover" /\ UNCHANGED <<mem, progress>>
  /\ UNCHANGED vars

Discover ==
  /\ step = "discover"
  /\ \/ Fail("provider")
     \/ step' = "activate" /\ UNCHANGED <<mem, progress>>
  /\ UNCHANGED vars

\* Faulty variant: that activate throws is not noticed.
ActivateBlindly ==
  /\ step = "activate"
  /\ Activate(Wizard, Primary)
  /\ step' = IF doing'[Wizard] = Idle THEN "concurrency" ELSE "activating"
  /\ UNCHANGED <<mem, progress>>

\* activate throws unless the row is validated by now.
ActivatePrimary ==
  /\ step = "activate"
  /\ Activate(Wizard, Primary)
  /\ IF doing'[Wizard] = Idle THEN Fail("provider")
     ELSE step' = "activating" /\ UNCHANGED <<mem, progress>>

Activating ==
  /\ step = "activating"
  /\ UpdateStatus(Wizard) \/ AppendEvent(Wizard)
  /\ step' = IF doing'[Wizard] = Idle THEN "concurrency" ELSE step
  /\ UNCHANGED <<mem, progress>>

Concurrency ==
  /\ step = "concurrency"
  /\ Save("provider", "complete", "provider_configured")
  /\ step' = After(mem', "provider")
  /\ UNCHANGED vars

-----------------------------------------------------------------------------
(* Stage 3.                                                                *)

\* The allowlist is kept in memory.  YAML that does not parse throws here, outside the
\* try of writeHermesMPCEntry.
LookAtConfig ==
  /\ step = "integration"
  /\ \/ Look /\ step' = "yaml" /\ UNCHANGED <<mem, progress>>
     \/ Throwing(config) /\ Fail("integration") /\ UNCHANGED hermesVars
  /\ UNCHANGED vars

\* "Replace it?" or "Configure Hermes to load the HCO MCP server?"
AnswerYaml ==
  /\ step = "yaml"
  /\ \/ BeginWrite /\ step' = "writing"
     \/ step' = "finish" /\ UNCHANGED hermesVars
  /\ UNCHANGED <<vars, mem, progress>>

\* Whether it is written or restored, writeHermesMPCEntry does not tell its caller.
Writing ==
  /\ step = "writing"
  /\ WriteStep
  /\ step' = IF writing' = "no" THEN "finish" ELSE "writing"
  /\ UNCHANGED <<vars, mem, progress>>

\* Restart, verification and dry run are asked for and reported; none of them decides
\* how the stage ends, which may only throw.
Finish ==
  /\ step = "finish"
  /\ \/ Fail("integration")
     \/ Save("integration", "complete", "ready") /\ step' = "idle"
  /\ UNCHANGED <<vars, hermesVars>>

-----------------------------------------------------------------------------
UntilIntegration ==
  /\ \/ Setup \/ AnswerResume \/ Continue \/ Reset
     \/ Local \/ AnswerProceed
     \/ Credentials \/ AnswerStore \/ RegisterPrimary \/ AnswerValidate
     \/ Probe \/ Discover \/ ActivatePrimary \/ Activating \/ Concurrency
  /\ UNCHANGED hermesVars

WizardNext ==
  UntilIntegration \/ Kill \/ LookAtConfig \/ AnswerYaml \/ Writing \/ Finish

OthersNext ==
  /\ \/ \E s \in Servers \ {Wizard} : Start(s)
     \/ \E s \in started : ServerNext(s)
  /\ UNCHANGED <<wizardVars, hermesVars>>

UserEdits == Edit /\ UNCHANGED <<vars, wizardVars>>

SetupNext == WizardNext \/ OthersNext \/ UserEdits

SetupSpec == WizardInit /\ [][SetupNext]_allVars

-----------------------------------------------------------------------------
(* Properties.                                                             *)

StageOf(st) ==
  CASE st \in ProviderSteps -> "provider" [] st \in IntegrationSteps -> "integration"
    [] OTHER -> st

\* "You can stop safely and resume later without repeating completed stages": no stage
\* runs that has finished since the user last started over, whatever was stopped, has
\* failed or was killed between.  This fails for the stages in lost: the file is
\* written in place, and a wizard killed meanwhile leaves one that reads as Fresh.
NotRepeated ==
  step \in {"local"} \cup ProviderSteps \cup IntegrationSteps =>
    StageOf(step) \notin completed \ lost

\* What has finished since the user last started over is in the file, so that the next
\* run finds it: no failure or skip of a later stage takes it back.  Again only a file
\* that was being written at a kill has lost it.
CompletedKept ==
  \A ph \in completed \ lost : saved.stages[ph] = "complete"

\* Where the file calls the provider configured it has been activated: whatever one
\* server beside the wizard did to the row while the wizard waited, it is active or
\* has failed since.  (Two could overwrite each other's status, see ProviderLifecycle.)
ProviderTruthful ==
  Alone /\ saved.stages["provider"] = "complete" => status[Primary] \in {"active", "failed"}

-----------------------------------------------------------------------------
(* What the documentation says and the code does not do.                   *)

\* "register, validate, discover models, recommend mappings, activate": what the
\* wizard is about to activate, after all those steps, has been validated.
ValidatedBeforeActivate ==
  step = "activate" => status[Primary] # "registered"
=============================================================================
