------------------------------ MODULE MCSupport ------------------------------
(* What the rest leans on: the limits and the client of Redis, the stored   *)
(* run of the assistant, and on the desktop the view of its runs, the       *)
(* choice of the model provider and the workflow of phases.  They share no  *)
(* state, so that they are checked side by side: a behaviour belongs to     *)
(* what "focus" names, the others do not move.  The view is followed twice: *)
(* while runs are cancelled, and while the list is loaded.                  *)
EXTENDS RateLimit, RedisClient, RunRecord, RunView, ProviderSettings, AgentWorkflow

VARIABLE focus

apiSide == <<limitVars, redisVars, recordVars>>
desktopSide == <<vars, settingsVars, workflowVars>>
supportVars == <<focus, apiSide, desktopSide>>

SupportInit ==
  /\ focus \in {"limits", "redis", "record", "cancels", "loads", "settings", "workflow"}
  /\ LimitInit /\ RedisInit /\ RecordInit /\ ViewInit /\ SettingsInit /\ WorkflowInit
  /\ focus # "settings" => stored = Default /\ ~signed

SupportNext ==
  /\ UNCHANGED focus
  /\ \/ /\ focus = "limits" /\ LimitNext
        /\ UNCHANGED <<redisVars, recordVars, desktopSide>>
     \/ /\ focus = "redis" /\ RedisNext
        /\ UNCHANGED <<limitVars, recordVars, desktopSide>>
     \/ /\ focus = "record" /\ RecordNext
        /\ UNCHANGED <<limitVars, redisVars, desktopSide>>
     \/ /\ focus = "cancels" /\ UNCHANGED loads /\ ViewNext
        /\ UNCHANGED <<apiSide, settingsVars, workflowVars>>
     \/ /\ focus = "loads" /\ UNCHANGED cancels /\ ViewNext
        /\ UNCHANGED <<apiSide, settingsVars, workflowVars>>
     \/ /\ focus = "settings" /\ SettingsNext
        /\ UNCHANGED <<apiSide, vars, workflowVars>>
     \/ /\ focus = "workflow" /\ WorkflowNext
        /\ UNCHANGED <<apiSide, vars, settingsVars>>

SupportSpec == SupportInit /\ [][SupportNext]_supportVars
=============================================================================
