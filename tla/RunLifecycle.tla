--------------------------- MODULE RunLifecycle ---------------------------
(***************************************************************************)
(* The life of ONE run: its record in the API's run store                  *)
(* (apps/api/src/store/runs.ts), the engine that drives a manual run       *)
(* (engine/runEngine.ts), the HTTP and WebSocket handlers that change it   *)
(* (index.ts, lib/ws-handler.ts), its row in Postgres (repos/runs.ts) and  *)
(* the recovery after a restart (lib/run-recovery.ts); and the desktop,    *)
(* which accepts the run, answers its approval and drives it itself in     *)
(* ai_assist mode (apps/desktop/src/lib/wsClient.ts, lib/aiAssist.ts).     *)
(*                                                                         *)
(* Node runs one callback at a time: an action is the code between two     *)
(* awaits.  Messages of the desktop are handled in any order, because each *)
(* handler awaits Redis before it looks at the run.  Statuses of single    *)
(* steps and logs steer nothing and are left out; what is kept of a step   *)
(* is how far each engine has come.                                        *)
(***************************************************************************)
EXTENDS Naturals

CONSTANTS
  Mode,          \* bound: modes a run may be created in
  Recovered,     \* RUN_RECOVERY_POLICY: the status of a recovered run
  MaxEngines,    \* bound: engines created for the run
  MaxStarts,     \* bound: times the desktop handles run.start
  MaxDecisions,  \* bound: approval decisions the desktop sends
  MaxCancels,    \* bound: cancel requests, of either kind
  MaxRestarts    \* bound: restarts of the API process

ASSUME ModeAssumption == Mode \subseteq {"manual", "ai_assist"}
ASSUME RecoveredAssumption == Recovered \in {"failed", "canceled"}
ASSUME NumbersAssumption ==
  MaxEngines \in Nat /\ MaxStarts \in Nat /\ MaxDecisions \in Nat /\ MaxCancels \in Nat
  /\ MaxRestarts \in Nat

Engine    == 1 .. MaxEngines
NoEngine  == 0
Step      == 1 .. 4   \* generateRunSteps
AskStep   == 3        \* Request approval to proceed
Decision  == {"approved", "denied"}

InProgress == {"running", "waiting_for_user"}
Cancelable == {"queued"} \cup InProgress
Final      == {"done", "failed", "canceled"}
RunStatus  == Cancelable \cup Final

EnginePc == {"none", "details", "work", "closing", "pause", "ask", "request", "wait", "ended"}
EngineRecord == [pc : EnginePc, step : Step \cup {0}, stopped : BOOLEAN]

Message ==
  [kind : {"accept", "reject", "cancel"}]
    \cup [kind : {"decision"}, of : Engine, decision : Decision]
    \cup [kind : {"rejectApproval"}]
    \cup [kind : {"update"}, status : Final]

VARIABLES
  \* the run store
  mode,       \* of the run, none before it is created
  status,     \* of the run, absent before it is created
  approval,   \* pendingApproval: the engine that asked, and what came of it
  active,     \* activeEngines: the engine registered for the run
  engine,     \* await at which each engine is, its step and its stopped flag
  \* HTTP handlers between two awaits
  creating,   \* POST /runs has not dispatched run.start yet
  canceling,  \* POST cancel has not saved the run yet
  \* Postgres
  db,         \* status in the run's row
  saves,      \* snapshots on their way to the row
  \* the desktop and the network
  toApi,      \* messages of the desktop
  starts,     \* times the desktop has handled run.start
  asked,      \* engines whose approval.request has been dispatched
  local,      \* the desktop's own engine, in ai_assist mode
  \* what is dispatched to the desktop, and the history
  dispatched, \* run.start and run.canceled
  consent,    \* engines whose own approval the user granted
  decisions, cancels, restarts

storeVars   == <<mode, status, approval, active, engine>>
httpVars    == <<creating, canceling>>
dbVars      == <<db, saves>>
desktopVars == <<toApi, starts, asked, local>>
histVars    == <<dispatched, consent, decisions, cancels, restarts>>
vars == <<storeVars, httpVars, dbVars, desktopVars, histVars>>

NoApproval == [of |-> NoEngine, state |-> "none"]
NotCreated == [pc |-> "none", step |-> 0, stopped |-> FALSE]

TypeOK ==
  /\ mode \in Mode \cup {"none"}
  /\ status \in RunStatus \cup {"absent"}
  /\ approval \in [of : Engine \cup {NoEngine}, state : {"none", "pending"} \cup Decision]
  /\ active \in Engine \cup {NoEngine}
  /\ engine \in [Engine -> EngineRecord]
  /\ creating \in BOOLEAN /\ canceling \in BOOLEAN
  /\ db \in RunStatus \cup {"absent"}
  /\ saves \subseteq RunStatus
  /\ toApi \subseteq Message
  /\ starts \in Nat
  /\ asked \subseteq Engine
  /\ local \in {"idle", "running", "stopping", "over"}
  /\ dispatched \subseteq {"run.start", "run.canceled"}
  /\ consent \subseteq Engine
  /\ decisions \in Nat /\ cancels \in Nat /\ restarts \in Nat

Init ==
  /\ mode = "none" /\ status = "absent" /\ approval = NoApproval
  /\ active = NoEngine /\ engine = [e \in Engine |-> NotCreated]
  /\ creating = FALSE /\ canceling = FALSE
  /\ db = "absent" /\ saves = {}
  /\ toApi = {} /\ starts = 0 /\ asked = {} /\ local = "idle"
  /\ dispatched = {} /\ consent = {}
  /\ decisions = 0 /\ cancels = 0 /\ restarts = 0

-----------------------------------------------------------------------------
(* Helpers *)

Live(e) == engine[e].pc \notin {"none", "ended"}

\* persistRun: a snapshot is taken now and written some time later.
Save(S) == saves' = saves \cup S

\* updateStatus and persistRun.
SetStatus(s) == status' = s /\ Save({s})
KeepStatus   == status' = status /\ Save({status})

Goto(e, pc) == engine' = [engine EXCEPT ![e].pc = pc]

\* The coroutine of e ends with deleteEngine, which looks at no engine.
End(e) == Goto(e, "ended") /\ active' = NoEngine

\* waitForApproval resolves and the coroutine of e goes on.
Resume(e, decision) ==
  \/ /\ engine[e].stopped
     /\ End(e) /\ UNCHANGED <<status, saves>>
  \/ /\ ~engine[e].stopped /\ decision = "approved"
     /\ Goto(e, "pause") /\ KeepStatus
     /\ UNCHANGED active
  \/ /\ ~engine[e].stopped /\ decision = "denied"
     /\ End(e)
     /\ status' = "failed" /\ Save({status, "failed"})

\* RunEngine.handleApproval of the registered engine: it looks at no id, and
\* no one waits for the decision unless the engine is at waitForApproval.
HandleApproval(e, decision) ==
  IF approval.state = "none"
  THEN UNCHANGED <<approval, active, engine, status, saves>>
  ELSE /\ approval' = [approval EXCEPT !.state = decision]
       /\ IF engine[e].pc = "wait"
          THEN Resume(e, decision)
          ELSE KeepStatus /\ UNCHANGED <<active, engine>>

\* Mutant: a run can be canceled whatever its status.
CancelAny ==
  /\ status' = "canceled" /\ active' = NoEngine
  /\ engine' = IF active = NoEngine THEN engine
               ELSE [engine EXCEPT ![active].stopped = TRUE, ![active].pc = IF @ = "wait" THEN "ended" ELSE @]

\* runStore.cancel: the engine is stopped and forgotten; one that waits for a
\* decision is woken, and ends because it is stopped.
Cancel ==
  /\ status \in Cancelable
  /\ status' = "canceled"
  /\ active' = NoEngine
  /\ engine' = IF active = NoEngine THEN engine
               ELSE [engine EXCEPT ![active].stopped = TRUE,
                                   ![active].pc = IF @ = "wait" THEN "ended" ELSE @]

Receive(m) == m \in toApi /\ toApi' = toApi \ {m}
Send(m)    == toApi' = toApi \cup {m}

-----------------------------------------------------------------------------
(* HTTP *)

\* POST /runs: the run is queued and saved ...
CreateRun(m) ==
  /\ mode = "none"
  /\ mode' = m /\ SetStatus("queued") /\ creating' = TRUE
  /\ UNCHANGED <<approval, active, engine, canceling, db, desktopVars, histVars>>

\* ... and when it has been saved, run.start is dispatched.
DispatchRunStart ==
  /\ creating /\ db # "absent"
  /\ creating' = FALSE
  /\ dispatched' = dispatched \cup {"run.start"}
  /\ UNCHANGED <<storeVars, canceling, dbVars, desktopVars, consent, decisions, cancels, restarts>>

\* POST /runs/:runId/cancel: run.canceled is dispatched, and only then is the
\* run saved, as it is by that time.
CancelByUser ==
  /\ cancels < MaxCancels /\ cancels' = cancels + 1
  /\ Cancel
  /\ canceling' = TRUE
  /\ UNCHANGED <<mode, approval, creating, dbVars, desktopVars, dispatched, consent,
                 decisions, restarts>>

SaveCanceled ==
  /\ canceling
  /\ canceling' = FALSE
  /\ Save({status})
  /\ dispatched' = dispatched \cup {"run.canceled"}
  /\ UNCHANGED <<storeVars, creating, db, desktopVars, consent, decisions, cancels, restarts>>

-----------------------------------------------------------------------------
(* Messages of the desktop *)

\* Mutant: an engine is created without a look at the registered one.
AcceptTwice(e) ==
  /\ mode = "manual" /\ Receive([kind |-> "accept"])
  /\ status \in {"queued", "running"} /\ engine[e].pc = "none"
  /\ engine' = [engine EXCEPT ![e] = [NotCreated EXCEPT !.pc = "details"]]
  /\ active' = e
  /\ UNCHANGED <<mode, status, approval, httpVars, dbVars, starts, asked, local, histVars>>

\* device.run.accept of a manual run: an engine is created and started unless
\* one is registered or the run is neither queued nor running.
AcceptManual(e) ==
  /\ mode = "manual" /\ Receive([kind |-> "accept"])
  /\ active = NoEngine /\ status \in {"queued", "running"}
  /\ engine[e].pc = "none" /\ \A f \in Engine : f < e => engine[f].pc # "none"
  /\ engine' = [engine EXCEPT ![e] = [NotCreated EXCEPT !.pc = "details"]]
  /\ active' = e
  /\ UNCHANGED <<mode, status, approval, httpVars, dbVars, starts, asked, local, histVars>>

AcceptIgnored ==
  /\ mode = "manual" /\ Receive([kind |-> "accept"])
  /\ (active # NoEngine \/ status \notin {"queued", "running"})
  /\ UNCHANGED <<storeVars, httpVars, dbVars, starts, asked, local, histVars>>

\* device.run.accept of an ai_assist run: it is running, whatever it was.
AcceptAiAssist ==
  /\ mode = "ai_assist" /\ status # "absent" /\ Receive([kind |-> "accept"])
  /\ SetStatus("running")
  /\ UNCHANGED <<mode, approval, active, engine, httpVars, db, starts, asked, local, histVars>>

\* device.approval.decision: it must name the pending approval, and is lost
\* when no engine is registered.
ApprovalDecision(f, d) ==
  /\ Receive([kind |-> "decision", of |-> f, decision |-> d])
  /\ IF approval.of = f /\ active # NoEngine
     THEN /\ HandleApproval(active, d)
          /\ consent' = IF d = "approved" THEN consent \cup {f} ELSE consent
     ELSE UNCHANGED <<approval, active, engine, status, saves, consent>>
  /\ UNCHANGED <<mode, httpVars, db, starts, asked, local, dispatched, decisions, cancels, restarts>>

\* device.run.cancel.
CancelByDevice ==
  /\ Receive([kind |-> "cancel"])
  /\ \/ Cancel /\ Save({"canceled"})
     \/ status \notin Cancelable /\ UNCHANGED <<status, active, engine, saves>>
  /\ UNCHANGED <<mode, approval, httpVars, db, starts, asked, local, histVars>>

\* device.run.update: the status is what the desktop says.
RunUpdate(s) ==
  /\ status # "absent" /\ Receive([kind |-> "update", status |-> s])
  /\ SetStatus(s)
  /\ UNCHANGED <<mode, approval, active, engine, httpVars, db, starts, asked, local, histVars>>

\* A terminal nack of run.start fails a run that is still queued.
RunStartRejected ==
  /\ Receive([kind |-> "reject"])
  /\ \/ status = "queued" /\ SetStatus("failed")
     \/ status # "queued" /\ UNCHANGED <<status, saves>>
  /\ UNCHANGED <<mode, approval, active, engine, httpVars, db, starts, asked, local, histVars>>

\* A terminal nack of approval.request denies whatever approval is pending.
ApprovalRejected ==
  /\ Receive([kind |-> "rejectApproval"])
  /\ \/ active # NoEngine /\ HandleApproval(active, "denied")
     \/ /\ active = NoEngine /\ approval.state # "none"
        /\ approval' = [approval EXCEPT !.state = "denied"]
        /\ KeepStatus /\ UNCHANGED <<active, engine>>
     \/ /\ active = NoEngine /\ approval.state = "none"
        /\ UNCHANGED <<approval, active, engine, status, saves>>
  /\ UNCHANGED <<mode, httpVars, db, starts, asked, local, histVars>>

-----------------------------------------------------------------------------
(* The engine of a manual run *)

engineFrame == <<mode, httpVars, db, toApi, starts, local, histVars>>

\* run.details has been dispatched.  The run is running before anyone asks
\* whether the engine was stopped meanwhile.
EngineBegin(e) ==
  /\ engine[e].pc = "details"
  /\ SetStatus("running")
  /\ \/ engine[e].stopped /\ End(e)
     \/ /\ ~engine[e].stopped
        /\ engine' = [engine EXCEPT ![e].pc = "work", ![e].step = 1]
        /\ UNCHANGED active
  /\ UNCHANGED <<engineFrame, approval, asked>>

\* The delays of a step, then the check of the stopped flag.
EngineWork(e) ==
  /\ engine[e].pc = "work"
  /\ \/ engine[e].stopped /\ End(e)
     \/ ~engine[e].stopped /\ Goto(e, "closing") /\ UNCHANGED active
  /\ KeepStatus
  /\ UNCHANGED <<engineFrame, approval, asked>>

\* Mutant: the engine does not look at the stopped flag before it is done.
StepDoneUnchecked(e) ==
  /\ engine[e].pc = "closing"
  /\ IF engine[e].step < 4 THEN Goto(e, "pause") /\ KeepStatus /\ UNCHANGED active
                           ELSE End(e) /\ SetStatus("done")
  /\ UNCHANGED <<engineFrame, approval, asked>>

\* The step is done; after the last one so is the run, unless it was stopped.
EngineStepDone(e) ==
  /\ engine[e].pc = "closing"
  /\ \/ /\ engine[e].step < 4
        /\ Goto(e, "pause") /\ KeepStatus
        /\ UNCHANGED active
     \/ /\ engine[e].step = 4
        /\ End(e)
        /\ \/ engine[e].stopped /\ KeepStatus
           \/ ~engine[e].stopped /\ status' = "done" /\ Save({status, "done"})
  /\ UNCHANGED <<engineFrame, approval, asked>>

\* STEP_DELAY_MS between two steps.
EnginePause(e) ==
  /\ engine[e].pc = "pause"
  /\ \/ /\ engine[e].stopped /\ End(e) /\ UNCHANGED saves
     \/ /\ ~engine[e].stopped
        /\ engine' = [engine EXCEPT ![e].step = @ + 1,
                                    ![e].pc = IF engine[e].step + 1 = AskStep THEN "ask" ELSE "work"]
        /\ Save({status})
        /\ UNCHANGED active
  /\ UNCHANGED <<engineFrame, approval, asked, status>>

\* The approval is set and requested, the flag is not looked at.
EngineAsk(e) ==
  /\ engine[e].pc = "ask"
  /\ approval' = [of |-> e, state |-> "pending"]
  /\ status' = "waiting_for_user" /\ Save({status, "waiting_for_user"})
  /\ Goto(e, "request")
  /\ asked' = asked \cup {e}
  /\ UNCHANGED <<engineFrame, active>>

\* dispatchDeviceCommand of approval.request has returned: waitForApproval.
EngineWait(e) ==
  /\ engine[e].pc = "request"
  /\ Goto(e, "wait")
  /\ UNCHANGED <<engineFrame, status, approval, active, saves, asked>>

\* Mutant: the timer looks at the approval, which may be resolved early.
TimeoutIfPending(e) ==
  /\ engine[e].pc = "wait" /\ approval.state = "pending"
  /\ Resume(e, "denied")
  /\ UNCHANGED <<engineFrame, approval, asked>>

\* APPROVAL_TIMEOUT_MS.
EngineTimeout(e) ==
  /\ engine[e].pc = "wait"
  /\ Resume(e, "denied")
  /\ UNCHANGED <<engineFrame, approval, asked>>

-----------------------------------------------------------------------------
(* Postgres and restart *)

\* Saves run on connections of their own: any of them may be next.
SaveCommits(s) ==
  /\ s \in saves
  /\ db' = s /\ saves' = saves \ {s}
  /\ UNCHANGED <<storeVars, httpVars, desktopVars, histVars>>

\* The process stops and starts: runStore.load of the rows, then recovery,
\* which changes the rows of runs in progress and not the loaded records.
ApiRestart ==
  /\ restarts < MaxRestarts /\ restarts' = restarts + 1
  /\ status' = db
  /\ db' = IF db \in InProgress THEN Recovered ELSE db
  /\ approval' = NoApproval
  /\ active' = NoEngine
  /\ engine' = [e \in Engine |-> IF Live(e) THEN [engine[e] EXCEPT !.pc = "ended"] ELSE engine[e]]
  /\ creating' = FALSE /\ canceling' = FALSE /\ saves' = {} /\ toApi' = {}
  /\ UNCHANGED <<mode, starts, asked, local, dispatched, consent, decisions, cancels>>

-----------------------------------------------------------------------------
(* The desktop *)

desktopFrame == <<storeVars, httpVars, dbVars, asked, dispatched, consent, restarts>>

\* run.start: device.run.accept, and in ai_assist mode its own engine starts.
\* It is handled again when it is delivered again to a restarted desktop.
DesktopStart ==
  /\ "run.start" \in dispatched /\ starts < MaxStarts
  /\ starts' = starts + 1
  /\ Send([kind |-> "accept"])
  /\ local' = IF mode = "ai_assist" THEN "running" ELSE local
  /\ UNCHANGED <<desktopFrame, decisions, cancels>>

\* A run.start the desktop cannot parse gets a terminal nack and no accept.
DesktopRejectStart ==
  /\ "run.start" \in dispatched /\ starts = 0
  /\ starts' = MaxStarts
  /\ Send([kind |-> "reject"])
  /\ UNCHANGED <<desktopFrame, local, decisions, cancels>>

\* The user decides; a request that is delivered again can be decided again.
DesktopDecide(e, d) ==
  /\ e \in asked /\ decisions < MaxDecisions /\ decisions' = decisions + 1
  /\ Send([kind |-> "decision", of |-> e, decision |-> d])
  /\ UNCHANGED <<desktopFrame, starts, local, cancels>>

\* An approval.request the desktop cannot parse.
DesktopRejectApproval ==
  /\ asked # {} /\ decisions < MaxDecisions /\ decisions' = decisions + 1
  /\ Send([kind |-> "rejectApproval"])
  /\ UNCHANGED <<desktopFrame, starts, local, cancels>>

\* handleCancelRun: the desktop's own engine stops too.
DesktopCancel ==
  /\ starts > 0 /\ cancels < MaxCancels /\ cancels' = cancels + 1
  /\ Send([kind |-> "cancel"])
  /\ local' = IF local = "running" THEN "stopping" ELSE local
  /\ UNCHANGED <<desktopFrame, starts, decisions>>

\* run.canceled: stop() ends the loop at its next look at isRunning, which is
\* after the proposal it may be waiting for.
DesktopStop ==
  /\ "run.canceled" \in dispatched /\ local = "running"
  /\ local' = "stopping"
  /\ UNCHANGED <<desktopFrame, toApi, starts, decisions, cancels>>

\* The desktop's own engine ends: its model says done, stopped or not; it
\* could not start; or the user stops it.
DesktopFinish(s) ==
  /\ local = "running" \/ (local = "stopping" /\ s = "done")
  /\ local' = "over"
  /\ Send([kind |-> "update", status |-> s])
  /\ UNCHANGED <<desktopFrame, starts, decisions, cancels>>

-----------------------------------------------------------------------------
EngineStep(e) ==
  \/ EngineBegin(e) \/ EngineWork(e) \/ EngineStepDone(e) \/ EnginePause(e)
  \/ EngineAsk(e) \/ EngineWait(e) \/ EngineTimeout(e)

HttpStep == \/ \E m \in Mode : CreateRun(m)
            \/ DispatchRunStart \/ CancelByUser \/ SaveCanceled

MessageStep ==
  \/ \E e \in Engine : AcceptManual(e) \/ \E d \in Decision : ApprovalDecision(e, d)
  \/ AcceptIgnored \/ AcceptAiAssist \/ CancelByDevice
  \/ \E s \in Final : RunUpdate(s)
  \/ RunStartRejected \/ ApprovalRejected

DesktopStep ==
  \/ DesktopStart \/ DesktopRejectStart \/ DesktopRejectApproval \/ DesktopCancel \/ DesktopStop
  \/ \E e \in Engine, d \in Decision : DesktopDecide(e, d)
  \/ \E s \in Final : DesktopFinish(s)

Next ==
  \/ HttpStep \/ MessageStep \/ DesktopStep \/ ApiRestart
  \/ \E e \in Engine : EngineStep(e)
  \/ \E s \in saves : SaveCommits(s)

Spec == Init /\ [][Next]_vars

\* Timers fire and awaited calls return; no user, desktop or network owes
\* anything.
FairSpec == Spec /\ \A e \in Engine : WF_vars(EngineStep(e))

-----------------------------------------------------------------------------
(* Properties *)

\* The engine that cancel and approval decisions reach is the one that drives
\* the run: the registered engine runs and was not stopped, and an engine that
\* runs and was not stopped is registered.
RegistryConsistent ==
  \A e \in Engine : active = e <=> Live(e) /\ ~engine[e].stopped

\* An engine executes the step after the approval, and completes the run, only
\* if the user granted the approval of that very engine.
ConsentBeforeResult == \A e \in Engine : engine[e].step > AskStep => e \in consent

\* A manual run that is done was completed by an engine with the consent of
\* the user.
DoneWasGranted ==
  mode = "manual" /\ "done" \in {status, db} \cup saves =>
    \E e \in consent : engine[e].step = 4 /\ ~engine[e].stopped

\* Late accepts, decisions, cancels and engines do not change the outcome of a
\* manual run that is done or failed.
OutcomeStays ==
  [][mode = "manual" /\ status \in {"done", "failed"} /\ restarts' = restarts
       => status' = status]_vars

\* A stopped engine begins no other step of the run.
StoppedEngineStops ==
  [][\A e \in Engine : engine[e].stopped => engine'[e].step = engine[e].step]_vars

\* A manual run that has an engine gets an outcome, even if nobody answers,
\* unless the API restarts first.
RunSettles == active # NoEngine /\ restarts = 0 ~> status \in Final \/ restarts > 0

\* docs/protocol.md:824 "done | failed | canceled  <- Final states": a run that
\* has ended does not change its status.
FinalStatesFinal == [][(status \in Final) => status' = status]_vars
=============================================================================
