----------------------------- MODULE MCDesktop ------------------------------
(* What runs on the desktop alone: the assistant engines, the chat that     *)
(* starts them, the overlay window and the updater. They share no state, so *)
(* that they are checked side by side: a behaviour belongs to the component *)
(* that "focus" names, the others do not move.                              *)
EXTENDS AssistantLoop, AgentTask, ChatTasks, Overlay, Updates

VARIABLE focus

desktopVars == <<focus, assistantVars, agentVars, chatVars, overlayVars, updatesVars>>

(* Bound: a second run is started only when nothing was paused. *)
PausesOrRuns == begun' <= 1 \/ pauses' = 0

DesktopInit ==
  /\ focus \in {"assistant", "agent", "chat", "overlay", "updates"}
  /\ AssistantInit /\ AgentInit /\ ChatInit /\ OverlayInit /\ UpdatesInit
  /\ focus # "chat" => ~installed

DesktopNext ==
  /\ UNCHANGED focus
  /\ \/ /\ focus = "assistant" /\ AssistantNext /\ PausesOrRuns
        /\ UNCHANGED <<agentVars, chatVars, overlayVars, updatesVars>>
     \/ /\ focus = "agent" /\ AgentNext
        /\ UNCHANGED <<assistantVars, chatVars, overlayVars, updatesVars>>
     \/ /\ focus = "chat" /\ ChatNext
        /\ UNCHANGED <<assistantVars, agentVars, overlayVars, updatesVars>>
     \/ /\ focus = "overlay" /\ OverlayNext
        /\ UNCHANGED <<assistantVars, agentVars, chatVars, updatesVars>>
     \/ /\ focus = "updates" /\ UpdatesNext
        /\ UNCHANGED <<assistantVars, agentVars, chatVars, overlayVars>>

(* UpdatesFairness, asked for only where the updater moves. The fair        *)
(* actions of the other components are disabled while they do not move.     *)
UpdatesFairnessHere ==
  /\ WF_updatesVars(focus = "updates" /\ (RenderAgain \/ BackgroundCheck))
  /\ WF_updatesVars(focus = "updates" /\ (FetchRelease("desktop") \/ CheckAnswered))
  /\ WF_updatesVars(focus = "updates" /\ \E ok \in BOOLEAN : CacheRelease("desktop", ok))
  /\ WF_updatesVars(focus = "updates" /\ \E ok \in BOOLEAN : DownloadEnded(ok))

DesktopSpec ==
  /\ DesktopInit /\ [][DesktopNext]_desktopVars
  /\ AgentFairness /\ ChatFairness /\ UpdatesFairnessHere

(* Types of four of the components, with what their states say of each other:  *)
(* an interaction of a task is pending only while its loop waits for it, a  *)
(* loop that has ended left a final status, the updater is busy exactly     *)
(* while it checks or downloads.                                            *)
DesktopTypeOK ==
  AssistantTypeOK /\ AgentTypeOK /\ ChatTypeOK /\ UpdatesTypeOK
=============================================================================
