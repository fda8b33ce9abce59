------------------------------- MODULE ChatTasks -------------------------------
(***************************************************************************)
(* The desktop's chat (App.tsx, lib/chatTaskFlow.ts): a message starts a   *)
(* conversation turn with the model, whose answer is a reply or a task to  *)
(* confirm; a confirmed task becomes a run.  Without a model the message   *)
(* waits for the set-up of Free AI and is replayed.  Turns and runs are    *)
(* requests under way while the window goes on; an abandoned turn is known *)
(* by its number.                                                          *)
(***************************************************************************)
EXTENDS Naturals

CONSTANT MaxTurns       \* bound: numbers given to turns

ASSUME TurnsAssumption == MaxTurns \in Nat

VARIABLES turnId,       \* assistantConversationRequestIdRef
          turns,        \* turns under way: their numbers
          convBusy,     \* assistantConversationBusy
          abandoned,    \* history: turns the user gave up
          conf,         \* pendingTaskConfirmation: its turn, 0 without one
          confBusy,     \* pendingTaskConfirmationBusy
          creating,     \* dispatched tasks whose run is being created
          runActive,    \* activeRun is queued, running or waiting
          setup,        \* pendingFreeAiSetup.stage, "none" without one
          setupBusy,    \* pendingFreeAiSetupBusy
          setupStarts,  \* startFreeAiSetup calls under way
          modelReady,   \* providerConfigured: the local runtime answers
          installed,    \* the runtime and the model are on disk
          progress      \* the install progress of the native side

taskVars == <<creating, runActive>>
pendingVars == <<setup, setupBusy>>
setupVars == <<pendingVars, setupStarts, modelReady, installed, progress>>
chatVars == <<turnId, turns, convBusy, abandoned, conf, confBusy, taskVars, setupVars>>

ChatInit ==
  /\ turnId = 0 /\ turns = {} /\ convBusy = FALSE /\ abandoned = {}
  /\ conf = 0 /\ confBusy = FALSE
  /\ creating = {} /\ runActive = FALSE
  /\ setup = "none" /\ setupBusy = FALSE /\ setupStarts = 0
  /\ installed \in BOOLEAN /\ modelReady \in {FALSE, installed} /\ progress = "not_started"

(* The turn under way is given up: its number is not the last one any more. *)
Abandon == turnId < MaxTurns /\ turnId' = turnId + 1 /\ convBusy' = FALSE /\ abandoned' = abandoned \cup turns

(* startAssistantConversation *)
StartTurn ==
  /\ turnId < MaxTurns
  /\ turnId' = turnId + 1 /\ turns' = turns \cup {turnId + 1} /\ convBusy' = TRUE

(* Mutant: the answer of an abandoned turn counts. *)
TurnAnsweredLate(id, kind) ==
  /\ id \in turns /\ turns' = turns \ {id}
  /\ conf' = IF kind = "task" THEN id ELSE conf
  /\ convBusy' = IF id = turnId THEN FALSE ELSE convBusy
  /\ UNCHANGED <<turnId, abandoned, confBusy, taskVars, setupVars>>

(* The model answers, here or at the hosted fallback: a reply, a task, or   *)
(* an error.                                                                *)
TurnAnswered(id, kind) ==
  /\ id \in turns /\ turns' = turns \ {id}
  /\ conf' = IF id = turnId /\ kind = "task" THEN id ELSE conf
  /\ convBusy' = IF id = turnId THEN FALSE ELSE convBusy
  /\ UNCHANGED <<turnId, abandoned, confBusy, taskVars, setupVars>>

----------------------------------------------------------------------------
(* handleSendMessage: what a message does that is not an answer to a        *)
(* question on the screen.  It is refused while something is busy.          *)
CanSend == ~convBusy /\ ~confBusy /\ ~setupBusy

(* getPendingFreeAiSetupStage *)
SetupStage(p) == CASE p = "error" -> "error"
                   [] p \in {"installed", "installing"} -> "installing"
                   [] OTHER -> "approval"

SendMessage ==
  /\ CanSend
  /\ conf' = 0 /\ confBusy' = FALSE
  /\ \/ runActive /\ Abandon /\ setup' = "none" /\ UNCHANGED turns
     \/ ~runActive /\ modelReady /\ StartTurn /\ setup' = "none" /\ UNCHANGED abandoned
     \/ ~runActive /\ ~modelReady /\ setup' = SetupStage(progress)
                  /\ UNCHANGED <<turnId, turns, convBusy, abandoned>>
  /\ setupBusy' = (setup' = "installing")
  /\ UNCHANGED <<taskVars, setupStarts, modelReady, installed, progress>>

(* handleConfirmPendingTask and dispatchConfirmedAssistantTask, which may   *)
(* find that the desktop is not ready.                                      *)
ConfirmTask ==
  /\ conf # 0 /\ ~confBusy
  /\ Abandon
  /\ creating' = creating \cup {conf}
  /\ confBusy' = TRUE
  /\ UNCHANGED <<turns, conf, runActive, setupVars>>

(* The run is there, or the dispatch failed; its end clears what is on the  *)
(* screen.                                                                  *)
TaskDispatched(id, ok) ==
  /\ id \in creating /\ creating' = creating \ {id}
  /\ runActive' = (runActive \/ ok)
  /\ conf' = 0 /\ confBusy' = FALSE /\ convBusy' = FALSE
  /\ UNCHANGED <<turnId, turns, abandoned, setupVars>>

(* handleCancelPendingTask, which its button offers while nothing is busy.  *)
CancelTask ==
  /\ conf # 0 /\ ~confBusy
  /\ Abandon /\ conf' = 0
  /\ UNCHANGED <<turns, confBusy, taskVars, setupVars>>

(* handleStopAi and handleStopAll.                                          *)
StopTasks(endsRun) ==
  /\ Abandon /\ conf' = 0 /\ confBusy' = FALSE
  /\ runActive' = (runActive /\ ~endsRun)
  /\ UNCHANGED <<turns, creating, setupVars>>

(* server.run.status *)
RunEnds ==
  /\ runActive /\ runActive' = FALSE
  /\ UNCHANGED <<turnId, turns, convBusy, abandoned, conf, confBusy, creating, setupVars>>

----------------------------------------------------------------------------
(* beginPendingFreeAiSetup: a yes, Proceed or Retry.                        *)
BeginSetup ==
  /\ setup \in {"approval", "error"} /\ ~setupBusy
  /\ Abandon
  /\ setup' = "installing" /\ setupBusy' = TRUE /\ setupStarts' = setupStarts + 1
  /\ UNCHANGED <<turns, conf, confBusy, taskVars, modelReady, installed, progress>>

(* startFreeAiSetup comes back from install_start: a model that is on disk  *)
(* is not installed again, and not started.                                 *)
StartAnswered(ok) ==
  /\ setupStarts > 0 /\ setupStarts' = setupStarts - 1
  /\ \/ /\ ok /\ UNCHANGED pendingVars
        /\ progress' = IF ~installed THEN "installing" ELSE IF modelReady THEN "ready" ELSE "installed"
     \/ /\ ~ok /\ UNCHANGED progress
        /\ setup' = (IF setup = "none" THEN "none" ELSE "error") /\ setupBusy' = FALSE
  /\ UNCHANGED <<turnId, turns, convBusy, abandoned, conf, confBusy, taskVars, modelReady, installed>>

(* The effect on pendingFreeAiSetup while no model is ready: the set-up     *)
(* shows the progress of the native side, also one that BeginSetup has just *)
(* hidden because install_start has not answered yet.                       *)
FollowProgress ==
  /\ setup # "none" /\ ~modelReady
  /\ setup' = SetupStage(progress) /\ setupBusy' = (setup' = "installing")
  /\ convBusy' = (convBusy /\ setup' # "error")
  /\ pendingVars' # pendingVars
  /\ UNCHANGED <<turnId, turns, abandoned, conf, confBusy, taskVars, setupStarts, modelReady, installed, progress>>

(* handleCancelPendingFreeAiSetup *)
CancelSetup ==
  /\ setup # "none" /\ Abandon /\ setup' = "none" /\ setupBusy' = FALSE
  /\ UNCHANGED <<turns, conf, confBusy, taskVars, setupStarts, modelReady, installed, progress>>

(* The native worker ends, as the window's poll sees it.                    *)
InstallDone(ok) ==
  /\ progress = "installing"
  /\ progress' = (IF ok THEN "ready" ELSE "error")
  /\ installed' = (installed \/ ok) /\ modelReady' = (modelReady \/ ok)
  /\ UNCHANGED <<turnId, turns, convBusy, abandoned, conf, confBusy, taskVars, pendingVars, setupStarts>>

(* The runtime exits.                                                       *)
RuntimeStops ==
  /\ modelReady /\ modelReady' = FALSE
  /\ UNCHANGED <<turnId, turns, convBusy, abandoned, conf, confBusy, taskVars, pendingVars, setupStarts, installed, progress>>

(* Mutant: only a set-up that shows "installing" is resumed. *)
ReplayInstalling ==
  /\ setup = "installing" /\ modelReady /\ ~convBusy /\ ~confBusy
  /\ StartTurn /\ setup' = "none" /\ setupBusy' = FALSE /\ conf' = 0 /\ confBusy' = FALSE
  /\ UNCHANGED <<abandoned, taskVars, setupStarts, modelReady, installed, progress>>

(* The effect on pendingFreeAiSetup: replayDeferredUserTask.                *)
Replay ==
  /\ setup # "none" /\ modelReady /\ ~convBusy /\ ~confBusy
  /\ StartTurn /\ setup' = "none" /\ setupBusy' = FALSE /\ conf' = 0 /\ confBusy' = FALSE
  /\ UNCHANGED <<abandoned, taskVars, setupStarts, modelReady, installed, progress>>

Kinds == {"reply", "task", "error"}
ChatNext ==
  \/ SendMessage \/ ConfirmTask \/ CancelTask \/ RunEnds
  \/ \E endsRun \in BOOLEAN : StopTasks(endsRun)
  \/ \E id \in 1..MaxTurns : \/ \E kind \in Kinds : TurnAnswered(id, kind)
                             \/ \E ok \in BOOLEAN : TaskDispatched(id, ok)
  \/ BeginSetup \/ CancelSetup \/ RuntimeStops \/ Replay \/ FollowProgress
  \/ \E ok \in BOOLEAN : InstallDone(ok) \/ StartAnswered(ok)

(* Turns, dispatches and installs end; effects run after a render.          *)
ChatFairness ==
  /\ WF_chatVars(Replay) /\ WF_chatVars(\E ok \in BOOLEAN : InstallDone(ok))
  /\ \A id \in 1..MaxTurns : /\ WF_chatVars(\E kind \in Kinds : TurnAnswered(id, kind))
                             /\ WF_chatVars(\E ok \in BOOLEAN : TaskDispatched(id, ok))

ChatSpec == ChatInit /\ [][ChatNext]_chatVars /\ ChatFairness

----------------------------------------------------------------------------

(* Types; the set-up is busy exactly while it shows that it installs.       *)
ChatTypeOK ==
  /\ turnId \in 0..MaxTurns /\ turns \subseteq 1..turnId /\ conf \in 0..turnId
  /\ progress \in {"not_started", "installing", "installed", "ready", "error"}
  /\ setup \in {"none", "approval", "installing", "error"} /\ setupBusy = (setup = "installing")
  /\ setupStarts \in 0..MaxTurns
  /\ confBusy => conf # 0

(* A task to confirm comes from a turn the user had not given up.           *)
NoStaleQuestion == conf \notin abandoned

(* A message saved for Free AI is replayed or given up once a model is      *)
(* ready.                                                                   *)
SavedMessageResumes == setup # "none" /\ modelReady ~> setup = "none" \/ ~modelReady \/ turnId = MaxTurns

=============================================================================
