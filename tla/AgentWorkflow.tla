--------------------------- MODULE AgentWorkflow ---------------------------
(***************************************************************************)
(* The five-phase workflow of packages/shared/src/agent and the panel that *)
(* drives it (components/AgentWorkflow.tsx), with the iteration sessions    *)
(* ("Ralph") of the same package.  No window mounts the panel yet.         *)
(* executePhase awaits nothing that is not settled already: a click runs   *)
(* to its end before the next one, and isRunning is true only inside an    *)
(* action.  The texts of the phases are fixed, but for the specification,  *)
(* which quotes the description.  No phase of the five fails.              *)
(***************************************************************************)
EXTENDS Naturals, Sequences, FiniteSets

CONSTANTS AgentRole,      \* the agents of the registry
          AgentGroups,    \* the groups of agents of the side bar
          MaxClicks,      \* bound: phases run and resets
          MaxIterations   \* maxIterations of a session

ASSUME WorkflowAssumption ==
  /\ AgentGroups \subseteq SUBSET AgentRole
  /\ MaxClicks \in Nat /\ MaxIterations \in Nat

VARIABLES workflowState,       \* WorkflowState, phases by their place in WorkflowPhaseOrder
          currentOutput,       \* what the panel shows
          featureDescription, ralphMode, selectedAgents,   \* the form
          session,             \* a RalphSession of a caller of the package
          clicks

formVars == <<featureDescription, ralphMode, selectedAgents>>
workflowVars == <<workflowState, currentOutput, formVars, session, clicks>>

WorkflowPhaseOrder == <<"research", "specify", "plan", "work", "review">>
WorkflowPhase == 1..5

\* "marked" stands for a description with the text the quality gate looks for.
Descriptions == {"empty", "plain", "marked"}

(* The output of a phase, by what it depends on. *)
NoOutput == [phase |-> 0, marked |-> FALSE]
ExecuteResearchPhase == [phase |-> 1, marked |-> FALSE]
ExecuteSpecifyPhase == [phase |-> 2, marked |-> featureDescription = "marked"]
ExecutePlanPhase == [phase |-> 3, marked |-> FALSE]
ExecuteWorkPhase == [phase |-> 4, marked |-> FALSE]
ExecuteReviewPhase == [phase |-> 5, marked |-> FALSE]

ExecutePhase(p) == <<ExecuteResearchPhase, ExecuteSpecifyPhase, ExecutePlanPhase, ExecuteWorkPhase,
                     ExecuteReviewPhase>>[p]

(* checkQualityGate: met when the pattern is not found. *)
QualityGateMet(output) == ~output.marked

CreateWorkflowState(ralph) ==
  [currentPhase |-> 1, completedPhases |-> <<>>, ralphMode |-> ralph,
   status |-> [p \in WorkflowPhase |-> "pending"], output |-> [p \in WorkflowPhase |-> NoOutput]]

AdvancePhase(state, out) ==
  LET p == state.currentPhase
  IN [currentPhase |-> IF p = 5 THEN p ELSE p + 1,
      completedPhases |-> Append(state.completedPhases, p),
      ralphMode |-> state.ralphMode,
      status |-> [q \in WorkflowPhase |-> IF q = p THEN "completed"
                                          ELSE IF q = p + 1 THEN "in_progress" ELSE state.status[q]],
      output |-> [q \in WorkflowPhase |-> IF q = p THEN out ELSE state.output[q]]]

NoSession == [open |-> FALSE, fails |-> FALSE, iterations |-> <<>>, currentIteration |-> 0,
              status |-> "running", final |-> 0, asked |-> FALSE]

WorkflowInit ==
  /\ workflowState = CreateWorkflowState(FALSE)
  /\ currentOutput = NoOutput
  /\ featureDescription = "empty" /\ ralphMode = FALSE /\ selectedAgents = {}
  /\ session = NoSession
  /\ clicks = 0

Click == clicks < MaxClicks /\ clicks' = clicks + 1

(* The button "Step": the current phase, which may be a finished review.   *)
RunPhase ==
  /\ Click
  /\ featureDescription # "empty"
  /\ LET out == ExecutePhase(workflowState.currentPhase)
     IN /\ workflowState' = AdvancePhase(workflowState, out)
        /\ currentOutput' = out
  /\ UNCHANGED <<formVars, session>>

(* runCompleteWorkflow: the phases in their order over a fresh state. *)
RunCompleteWorkflow ==
  LET after1 == AdvancePhase(CreateWorkflowState(ralphMode), ExecutePhase(1))
      after2 == AdvancePhase(after1, ExecutePhase(2))
      after3 == AdvancePhase(after2, ExecutePhase(3))
      after4 == AdvancePhase(after3, ExecutePhase(4))
  IN AdvancePhase(after4, ExecutePhase(5))

(* What the side bar shows of a phase. *)
IsCompleted(p) == \E i \in DOMAIN workflowState.completedPhases : workflowState.completedPhases[i] = p
IsPending(p) == p > workflowState.currentPhase

RunFullWorkflow ==
  /\ Click
  /\ featureDescription # "empty"
  /\ workflowState' = RunCompleteWorkflow
  /\ currentOutput' = ExecutePhase(5)
  /\ UNCHANGED <<formVars, session>>

(* Mutant: the output of the last phase stays. *)
ResetKeepsOutput ==
  /\ Click
  /\ workflowState' = CreateWorkflowState(ralphMode)
  /\ UNCHANGED <<currentOutput, formVars, session>>

ResetWorkflow ==
  /\ Click
  /\ workflowState' = CreateWorkflowState(ralphMode)
  /\ currentOutput' = NoOutput
  /\ UNCHANGED <<formVars, session>>

EditDescription ==
  /\ featureDescription' \in Descriptions
  /\ UNCHANGED <<workflowState, currentOutput, ralphMode, selectedAgents, session, clicks>>

SetRalphMode ==
  /\ ralphMode' = ~ralphMode
  /\ UNCHANGED <<workflowState, currentOutput, featureDescription, selectedAgents, session, clicks>>

ToggleAgent(agent) ==
  /\ selectedAgents' = IF agent \in selectedAgents THEN selectedAgents \ {agent}
                       ELSE selectedAgents \cup {agent}
  /\ UNCHANGED <<workflowState, currentOutput, featureDescription, ralphMode, session, clicks>>

SelectAgentGroup(group) ==
  /\ selectedAgents' = IF group \subseteq selectedAgents THEN selectedAgents \ group
                       ELSE selectedAgents \cup group
  /\ UNCHANGED <<workflowState, currentOutput, featureDescription, ralphMode, session, clicks>>

-----------------------------------------------------------------------------
(* A session, for a caller that asks shouldContinueRalph before each        *)
(* iteration it records.  Nothing in the repository calls these.           *)
CreateRalphSession ==
  /\ ~session.open
  /\ \E fails \in BOOLEAN : session' = [NoSession EXCEPT !.open = TRUE, !.fails = fails]
  /\ UNCHANGED <<workflowState, currentOutput, formVars, clicks>>

LastCompleted(s) == s.iterations # <<>> /\ s.iterations[Len(s.iterations)]

(* shouldContinueRalph: it writes the status of the session it is given, *)
(* and looks at the number of iterations before it looks at the last one. *)
ShouldContinueRalph(s) ==
  IF s.status # "running" THEN s
  ELSE IF s.currentIteration >= MaxIterations
       THEN [s EXCEPT !.status = IF s.fails THEN "failed" ELSE "completed"]
  ELSE IF LastCompleted(s) THEN [s EXCEPT !.status = "completed", !.final = Len(s.iterations)]
  ELSE [s EXCEPT !.asked = TRUE]

AskRalph ==
  /\ session.open /\ ~session.asked
  /\ session' = ShouldContinueRalph(session)
  /\ UNCHANGED <<workflowState, currentOutput, formVars, clicks>>

RecordRalphIteration(completed) ==
  /\ session.asked
  /\ session' = [session EXCEPT !.iterations = Append(@, completed),
                                !.currentIteration = @ + 1, !.asked = FALSE]
  /\ UNCHANGED <<workflowState, currentOutput, formVars, clicks>>

WorkflowNext ==
  \/ RunPhase \/ RunFullWorkflow \/ ResetWorkflow \/ EditDescription \/ SetRalphMode
  \/ \E agent \in AgentRole : ToggleAgent(agent)
  \/ \E group \in AgentGroups : SelectAgentGroup(group)
  \/ CreateRalphSession \/ AskRalph
  \/ \E completed \in BOOLEAN : RecordRalphIteration(completed)

WorkflowSpec == WorkflowInit /\ [][WorkflowNext]_workflowVars

-----------------------------------------------------------------------------
Statuses5 == {"pending", "in_progress", "completed"}

\* Types of the workflow, its form and a session.
WorkflowTypeOK ==
  /\ workflowState.currentPhase \in WorkflowPhase
  /\ workflowState.completedPhases \in Seq(WorkflowPhase)
  /\ workflowState.status \in [WorkflowPhase -> Statuses5]
  /\ currentOutput \in [phase : 0..5, marked : BOOLEAN]
  /\ featureDescription \in Descriptions /\ ralphMode \in BOOLEAN /\ selectedAgents \subseteq AgentRole
  /\ session.iterations \in Seq(BOOLEAN) /\ session.final \in Nat

(* However steps, full runs and resets are mixed, the phases are completed  *)
(* in their order, each once but for the review, which may be repeated; the *)
(* current phase is the one after the last completed one, what comes later  *)
(* is pending and without output, and the panel shows the output of the     *)
(* phase that was completed last.                                           *)
PhasesInOrder ==
  LET n == Len(workflowState.completedPhases)
      At(i) == IF i < 5 THEN i ELSE 5
  IN /\ \A i \in 1..n : workflowState.completedPhases[i] = At(i)
     /\ workflowState.currentPhase = At(n + 1)
     /\ \A p \in WorkflowPhase :
          /\ IsCompleted(p) <=> workflowState.status[p] = "completed"
          /\ IsPending(p) <=> workflowState.status[p] = "pending" /\ p # n + 1
          /\ workflowState.status[p] = "completed" <=> p <= n
          /\ workflowState.output[p].phase = IF p <= n THEN p ELSE 0
          /\ workflowState.status[p] = "in_progress" <=> p = n + 1 /\ n > 0
     /\ currentOutput = IF n = 0 THEN NoOutput ELSE workflowState.output[At(n)]

(* A caller that asks before each iteration records at most maxIterations   *)
(* of them, none after one that passed, and the final output is that of the *)
(* iteration that passed.                                                   *)
RalphIsBounded ==
  LET n == Len(session.iterations) IN
  /\ session.currentIteration = n /\ n <= MaxIterations
  /\ \A i \in 1..n : session.iterations[i] => i = n
  /\ session.asked => session.status = "running" /\ n < MaxIterations /\ ~LastCompleted(session)
  /\ session.final > 0 => session.final = n /\ LastCompleted(session) /\ session.status = "completed"

(* docs/ai-engineering-system.md: "When enabled, each phase continues       *)
(* iterating until quality gates are met or max iterations reached."  A     *)
(* phase completed in Ralph mode has met the gate: one iteration is all it  *)
(* gets, and maxIterations is 5.                                            *)
GateMetInRalphMode ==
  workflowState.ralphMode =>
    \A p \in WorkflowPhase : workflowState.status[p] = "completed" => QualityGateMet(workflowState.output[p])

=============================================================================
