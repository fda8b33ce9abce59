------------------------ MODULE RunLifecycleProofs ------------------------
(***************************************************************************)
(* Proofs about RunLifecycle, for any bounds: first its inductive          *)
(* invariant, then the outcome of a manual run, that it is done only with  *)
(* consent, and that done and failed are final for it.                     *)
(***************************************************************************)
EXTENDS RunLifecycle, TLAPS

\* Only a manual run has engines, at most one of them runs, and one that was
\* stopped while it runs finds the run over: no other engine can be started
\* before it has ended.
OneLive      == \A e, f \in Engine : Live(e) /\ Live(f) => e = f
ManualOnly   == \A e \in Engine : Live(e) => mode = "manual"
StoppedIsOver ==
  \A e \in Engine : Live(e) /\ engine[e].stopped => status \notin {"queued", "running"}
AbsentIsEmpty ==
  status = "absent" => ~canceling /\ approval.state = "none" /\ \A e \in Engine : ~Live(e)
EngineInv == AbsentIsEmpty /\ OneLive /\ ManualOnly /\ StoppedIsOver /\ RegistryConsistent

\* Where an engine can be in each step, and what it has got by then.
Shape(e) ==
  /\ engine[e].pc = "none" => engine[e] = NotCreated
  /\ engine[e].pc = "details" => engine[e].step = 0
  /\ engine[e].pc \in {"work", "closing"} => engine[e].step \in {1, 2, 4}
  /\ engine[e].pc \in {"ask", "request", "wait"} => engine[e].step = AskStep
  /\ engine[e].pc = "pause" => engine[e].step \in {1, 2, 3}
  /\ engine[e].pc \in {"request", "wait"} => approval.of = e
  /\ engine[e].pc = "pause" /\ engine[e].step = AskStep => e \in consent
  /\ engine[e].step = 4 => e \in consent
StepShape == \A e \in Engine : Shape(e)

\* The inductive invariant.
IInv == TypeOK /\ EngineInv /\ StepShape

\* The inductive invariant holds before the run exists.
LEMMA InitIInv == Init => IInv
<1> SUFFICES ASSUME Init PROVE IInv
    OBVIOUS
<1>1. TypeOK
  BY DEF Init, TypeOK, NotCreated, NoApproval, EngineRecord, EnginePc
<1>2. EngineInv
  BY DEF Init, EngineInv, OneLive, ManualOnly, StoppedIsOver, AbsentIsEmpty, RegistryConsistent,
         Live, NotCreated, NoApproval, Engine, NoEngine
<1>3. StepShape
  BY DEF Init, StepShape, Shape, NotCreated
<1> QED BY <1>1, <1>2, <1>3 DEF IInv

\* runStore.cancel leaves the record well typed.
LEMMA CancelTypes ==
  ASSUME TypeOK, Cancel
  PROVE  /\ status' \in RunStatus /\ active' \in Engine \cup {NoEngine}
         /\ engine' \in [Engine -> EngineRecord]
<1>1. ASSUME NEW e \in Engine
      PROVE  [engine EXCEPT ![e].stopped = TRUE, ![e].pc = IF @ = "wait" THEN "ended" ELSE @]
               \in [Engine -> EngineRecord]
  <2>1. engine \in [Engine -> EngineRecord] BY DEF TypeOK
  <2> QED BY <2>1 DEF EngineRecord, EnginePc
<1>2. active = NoEngine \/ active \in Engine
  BY DEF TypeOK
<1>3. engine' \in [Engine -> EngineRecord]
  BY <1>1, <1>2 DEF Cancel, TypeOK, EngineRecord
<1> QED BY <1>3 DEF Cancel, RunStatus, Final

\* What the desktop sends are messages.
LEMMA MessageTypes ==
  /\ [kind |-> "accept"] \in Message
  /\ [kind |-> "reject"] \in Message
  /\ [kind |-> "cancel"] \in Message
  /\ [kind |-> "rejectApproval"] \in Message
  /\ \A e \in Engine, d \in Decision : [kind |-> "decision", of |-> e, decision |-> d] \in Message
  /\ \A s \in Final : [kind |-> "update", status |-> s] \in Message
BY DEF Message

\* A restart of the API leaves the state well typed.
LEMMA RestartTypes == ASSUME TypeOK, ApiRestart PROVE TypeOK'
<1>1. db' \in RunStatus \cup {"absent"} /\ status' \in RunStatus \cup {"absent"}
  BY RecoveredAssumption DEF ApiRestart, TypeOK, RunStatus, Final
<1>2. approval' \in [of : Engine \cup {NoEngine}, state : {"none", "pending"} \cup Decision]
  BY DEF ApiRestart, NoApproval
<1>3. engine' \in [Engine -> EngineRecord]
  <2>1. ASSUME NEW e \in Engine PROVE [engine[e] EXCEPT !.pc = "ended"] \in EngineRecord
    BY DEF TypeOK, EngineRecord, EnginePc
  <2> QED BY <2>1 DEF ApiRestart, TypeOK
<1>4. /\ active' \in Engine \cup {NoEngine}
      /\ creating' \in BOOLEAN /\ canceling' \in BOOLEAN
      /\ saves' \subseteq RunStatus /\ toApi' \subseteq Message
  BY DEF ApiRestart, TypeOK
<1>5. restarts' \in Nat /\ UNCHANGED <<mode, starts, asked, local, dispatched, consent, decisions, cancels>>
  BY DEF ApiRestart, TypeOK
<1> QED BY <1>1, <1>2, <1>3, <1>4, <1>5 DEF TypeOK

\* Every step keeps the types; the step counter of an engine stays in range
\* because of where the engine is (StepShape).
LEMMA TypeStep == IInv /\ [Next]_vars => TypeOK'
<1> SUFFICES ASSUME IInv, [Next]_vars PROVE TypeOK'
    OBVIOUS
<1> USE DEF IInv, TypeOK, storeVars, httpVars, dbVars, desktopVars, histVars, desktopFrame, engineFrame
<1>1. ASSUME NEW m \in Mode, CreateRun(m) PROVE TypeOK'
  BY <1>1 DEF CreateRun, SetStatus, Save, RunStatus, Cancelable, InProgress, Final
<1>2. ASSUME DispatchRunStart PROVE TypeOK'
  BY <1>2 DEF DispatchRunStart
<1>3. ASSUME CancelByUser PROVE TypeOK'
  BY <1>3, CancelTypes DEF CancelByUser
<1>4. ASSUME SaveCanceled PROVE TypeOK'
  BY <1>4 DEF SaveCanceled, Save, EngineInv, AbsentIsEmpty
<1>5. ASSUME NEW e \in Engine, AcceptManual(e) PROVE TypeOK'
  BY <1>5 DEF AcceptManual, NotCreated, Receive, EngineRecord, EnginePc
<1>6. ASSUME AcceptIgnored PROVE TypeOK'
  BY <1>6 DEF AcceptIgnored, Receive
<1>7. ASSUME AcceptAiAssist PROVE TypeOK'
  BY <1>7 DEF AcceptAiAssist, SetStatus, Save, Receive, RunStatus, Cancelable, InProgress, Final
<1>8. ASSUME NEW e \in Engine, NEW d \in Decision, ApprovalDecision(e, d) PROVE TypeOK'
  BY <1>8 DEF ApprovalDecision, HandleApproval, Resume, KeepStatus, Receive, Decision, EngineInv,
      AbsentIsEmpty, Save, StepShape, Shape, EngineRecord, EnginePc, Step, AskStep, End, Goto,
          RunStatus, Cancelable, InProgress, Final
<1>9. ASSUME CancelByDevice PROVE TypeOK'
  BY <1>9, CancelTypes DEF CancelByDevice, Receive, Save, RunStatus, Final
<1>10. ASSUME NEW s \in Final, RunUpdate(s) PROVE TypeOK'
  BY <1>10 DEF RunUpdate, SetStatus, Save, Receive, RunStatus
<1>11. ASSUME RunStartRejected PROVE TypeOK'
  BY <1>11 DEF RunStartRejected, SetStatus, Save, Receive, RunStatus, Final
<1>12. ASSUME ApprovalRejected PROVE TypeOK'
  BY <1>12 DEF ApprovalRejected, HandleApproval, Resume, KeepStatus, Receive, Decision,
      EngineInv, AbsentIsEmpty, Save, StepShape, Shape, EngineRecord, EnginePc, Step, AskStep,
          End, Goto, RunStatus, Cancelable, InProgress, Final
<1>13. ASSUME NEW e \in Engine, EngineBegin(e) PROVE TypeOK'
  BY <1>13 DEF EngineBegin, SetStatus, Save, StepShape, Shape, EngineRecord, EnginePc, Step,
      AskStep, End, Goto, RunStatus, Cancelable, InProgress, Final
<1>14. ASSUME NEW e \in Engine, EngineWork(e) PROVE TypeOK'
  BY <1>14 DEF EngineWork, KeepStatus, EngineInv, AbsentIsEmpty, Live, Save, StepShape, Shape,
      EngineRecord, EnginePc, Step, AskStep, End, Goto, RunStatus, Cancelable, InProgress, Final
<1>15. ASSUME NEW e \in Engine, EngineStepDone(e) PROVE TypeOK'
  BY <1>15 DEF EngineStepDone, KeepStatus, EngineInv, AbsentIsEmpty, Live, Save, StepShape,
      Shape, EngineRecord, EnginePc, Step, AskStep, End, Goto, RunStatus, Cancelable,
          InProgress, Final
<1>16. ASSUME NEW e \in Engine, EnginePause(e) PROVE TypeOK'
  BY <1>16 DEF EnginePause, EngineInv, AbsentIsEmpty, Live, Save, StepShape, Shape, EngineRecord,
      EnginePc, Step, AskStep, End, Goto, RunStatus, Cancelable, InProgress, Final
<1>17. ASSUME NEW e \in Engine, EngineAsk(e) PROVE TypeOK'
  BY <1>17 DEF EngineAsk, EngineInv, AbsentIsEmpty, Live, Save, StepShape, Shape, EngineRecord,
      EnginePc, Step, AskStep, End, Goto, RunStatus, Cancelable, InProgress, Final
<1>18. ASSUME NEW e \in Engine, EngineWait(e) PROVE TypeOK'
  BY <1>18 DEF EngineWait, StepShape, Shape, EngineRecord, EnginePc, Step, AskStep, End, Goto,
      RunStatus, Cancelable, InProgress, Final
<1>19. ASSUME NEW e \in Engine, EngineTimeout(e) PROVE TypeOK'
  BY <1>19 DEF EngineTimeout, Resume, KeepStatus, EngineInv, AbsentIsEmpty, Live, Save,
      StepShape, Shape, EngineRecord, EnginePc, Step, AskStep, End, Goto, RunStatus,
          Cancelable, InProgress, Final
<1>20. ASSUME NEW s \in saves, SaveCommits(s) PROVE TypeOK'
  BY <1>20 DEF SaveCommits
<1>21. ASSUME ApiRestart PROVE TypeOK'
  BY <1>21, RestartTypes DEF ApiRestart
<1>22. ASSUME DesktopStart PROVE TypeOK'
  BY <1>22, MessageTypes DEF DesktopStart, Send
<1>23. ASSUME DesktopRejectStart PROVE TypeOK'
  BY <1>23, MessageTypes, NumbersAssumption DEF DesktopRejectStart, Send
<1>24. ASSUME NEW e \in Engine, NEW d \in Decision, DesktopDecide(e, d) PROVE TypeOK'
  BY <1>24, MessageTypes DEF DesktopDecide, Send
<1>25. ASSUME DesktopRejectApproval PROVE TypeOK'
  BY <1>25, MessageTypes DEF DesktopRejectApproval, Send
<1>26. ASSUME DesktopCancel PROVE TypeOK'
  BY <1>26, MessageTypes DEF DesktopCancel, Send
<1>27. ASSUME DesktopStop PROVE TypeOK'
  BY <1>27 DEF DesktopStop
<1>28. ASSUME NEW s \in Final, DesktopFinish(s) PROVE TypeOK'
  BY <1>28, MessageTypes DEF DesktopFinish, Send
<1>29. CASE UNCHANGED vars
  BY <1>29 DEF vars
<1> QED
  BY <1>1, <1>2, <1>3, <1>4, <1>5, <1>6, <1>7, <1>8, <1>9, <1>10, <1>11, <1>12, <1>13, <1>14,
      <1>15, <1>16, <1>17, <1>18, <1>19, <1>20, <1>21, <1>22, <1>23, <1>24, <1>25, <1>26,
          <1>27, <1>28, <1>29 DEF Next, HttpStep, MessageStep, DesktopStep, EngineStep

\* The coroutine of the only live engine may end at any await.
LEMMA EndKeeps ==
  ASSUME IInv, NEW e \in Engine, Live(e), End(e), status' # "absent",
         UNCHANGED <<mode, canceling>>, consent \subseteq consent'
  PROVE  EngineInv' /\ StepShape'
<1> USE DEF IInv, TypeOK, EngineRecord, EngineInv, OneLive, Live, NoEngine
<1>1. /\ engine'[e].pc = "ended" /\ engine'[e].step = engine[e].step
      /\ \A f \in Engine \ {e} : engine'[f] = engine[f]
  BY DEF End, Goto
<1>2. \A f \in Engine : f # e => ~Live(f)
  OBVIOUS
<1>3. \A f \in Engine : ~Live(f)'
  BY <1>1, <1>2
<1>4. EngineInv'
  <2>1. active' \notin Engine
    BY DEF End, Engine
  <2> QED BY <1>3, <2>1 DEF ManualOnly, StoppedIsOver, AbsentIsEmpty, RegistryConsistent
<1>5. StepShape'
  <2>1. Shape(e)'
    BY <1>1 DEF StepShape, Shape, NotCreated
  <2>2. ASSUME NEW f \in Engine \ {e} PROVE Shape(f)'
    BY <1>1, <1>2 DEF StepShape, Shape
  <2> QED BY <2>1, <2>2 DEF StepShape
<1> QED BY <1>4, <1>5

\* The only live engine may move to another await that suits its step, unless
\* it was stopped and the status changes with the move.
LEMMA MoveKeeps ==
  ASSUME IInv, NEW e \in Engine, Live(e), UNCHANGED <<mode, canceling, active>>,
         engine'[e].pc \notin {"none", "ended"}, engine'[e].stopped = engine[e].stopped,
         \A f \in Engine \ {e} : engine'[f] = engine[f],
         status' # "absent", ~engine[e].stopped \/ status' = status,
         consent \subseteq consent', Shape(e)'
  PROVE  EngineInv' /\ StepShape'
<1> USE DEF IInv, EngineInv, OneLive, Live
<1>1. \A f \in Engine : f # e => ~Live(f)
  OBVIOUS
<1>2. \A f \in Engine : Live(f)' <=> Live(f)
  OBVIOUS
<1>3. OneLive' /\ ManualOnly' /\ AbsentIsEmpty'
  BY <1>2 DEF ManualOnly, AbsentIsEmpty
<1>4. StoppedIsOver'
  BY <1>1, <1>2 DEF StoppedIsOver
<1>5. RegistryConsistent'
  BY <1>1, <1>2 DEF RegistryConsistent
<1>6. ASSUME NEW f \in Engine \ {e} PROVE Shape(f)'
  BY <1>1 DEF StepShape, Shape
<1> QED BY <1>3, <1>4, <1>5, <1>6 DEF StepShape

\* waitForApproval may resolve, and go on if the approval is the engine's own.
LEMMA ResumeKeeps ==
  ASSUME IInv, NEW e \in Engine, engine[e].pc = "wait", NEW d \in Decision, Resume(e, d),
         UNCHANGED <<mode, canceling>>, consent \subseteq consent', d = "approved" => e \in consent'
  PROVE  EngineInv' /\ StepShape'
<1> USE DEF IInv
<1>1. Live(e) /\ status # "absent"
  BY DEF Live, EngineInv, AbsentIsEmpty
<1>2. CASE End(e)
  BY <1>1, <1>2, EndKeeps DEF Resume, KeepStatus
<1>3. CASE ~engine[e].stopped /\ d = "approved" /\ Goto(e, "pause") /\ KeepStatus /\ UNCHANGED active
  <2>1. /\ engine'[e].pc = "pause" /\ engine'[e].stopped = engine[e].stopped
        /\ engine'[e].step = AskStep
        /\ \A f \in Engine \ {e} : engine'[f] = engine[f]
    BY <1>3 DEF Goto, TypeOK, EngineRecord, StepShape, Shape
  <2>2. Shape(e)'
    BY <1>3, <2>1 DEF Shape, AskStep
  <2> QED BY <1>1, <1>3, <2>1, <2>2, MoveKeeps DEF KeepStatus
<1> QED BY <1>2, <1>3 DEF Resume

\* handleApproval of the registered engine, whoever decides.
LEMMA DecisionKeeps ==
  ASSUME IInv, NEW e \in Engine, active = e, NEW d \in Decision, HandleApproval(e, d),
         UNCHANGED <<mode, canceling>>, consent \subseteq consent',
         d = "approved" => approval.of \in consent'
  PROVE  EngineInv' /\ StepShape'
<1> USE DEF IInv
<1>1. Live(e) /\ status # "absent"
  BY DEF EngineInv, RegistryConsistent, AbsentIsEmpty
<1>2. CASE engine[e].pc = "wait" /\ approval.state # "none"
  <2>1. approval.of = e
    BY <1>2 DEF StepShape, Shape
  <2> QED BY <1>2, <2>1, ResumeKeeps DEF HandleApproval
<1>3. CASE engine[e].pc # "wait" \/ approval.state = "none"
  <2>1. UNCHANGED <<status, active, engine>> /\ approval'.of = approval.of
    BY <1>3 DEF HandleApproval, KeepStatus, TypeOK
  <2>2. EngineInv'
    BY <1>1, <2>1 DEF EngineInv, OneLive, ManualOnly, StoppedIsOver, AbsentIsEmpty,
        RegistryConsistent, Live
  <2>3. StepShape'
    BY <2>1 DEF StepShape, Shape
  <2> QED BY <2>2, <2>3
<1> QED BY <1>2, <1>3

\* runStore.cancel stops the live engine and leaves a run that is over.
LEMMA CancelKeeps ==
  ASSUME IInv, Cancel, UNCHANGED <<mode, approval, consent>>
  PROVE  EngineInv' /\ StepShape'
<1> USE DEF IInv, TypeOK, EngineRecord, EngineInv, Live, NoEngine
<1>1. CASE active = NoEngine
  BY <1>1 DEF Cancel, OneLive, ManualOnly, StoppedIsOver, AbsentIsEmpty, RegistryConsistent,
      StepShape, Shape
<1>2. CASE active # NoEngine
  <2>1. PICK e \in Engine : e = active /\ Live(e)
    BY <1>2 DEF RegistryConsistent
  <2>2. /\ engine'[e].stopped = TRUE /\ engine'[e].step = engine[e].step
        /\ engine'[e].pc = IF engine[e].pc = "wait" THEN "ended" ELSE engine[e].pc
        /\ \A f \in Engine \ {e} : engine'[f] = engine[f]
    BY <1>2, <2>1 DEF Cancel
  <2>3. \A f \in Engine : f # e => ~Live(f) /\ ~Live(f)'
    BY <2>1, <2>2 DEF OneLive
  <2>4. OneLive' /\ ManualOnly' /\ AbsentIsEmpty' /\ StoppedIsOver'
    BY <2>1, <2>2, <2>3 DEF Cancel, OneLive, ManualOnly, AbsentIsEmpty, StoppedIsOver
  <2>5. RegistryConsistent'
    BY <2>1, <2>2, <2>3 DEF Cancel, RegistryConsistent, Engine
  <2>6. StepShape'
    <3>1. Shape(e)'
      BY <2>1, <2>2 DEF StepShape, Shape
    <3>2. ASSUME NEW f \in Engine \ {e} PROVE Shape(f)'
      BY <2>2 DEF StepShape, Shape
    <3> QED BY <2>1, <3>1, <3>2 DEF Cancel, StepShape
  <2> QED BY <2>4, <2>5, <2>6
<1> QED BY <1>1, <1>2

\* Every step keeps the registry in line with the engines and every engine in
\* its place.
LEMMA EngineStepKeeps == IInv /\ [Next]_vars => EngineInv' /\ StepShape'
<1> SUFFICES ASSUME IInv, [Next]_vars PROVE EngineInv' /\ StepShape'
    OBVIOUS
<1> USE DEF storeVars, httpVars, dbVars, desktopVars, histVars, desktopFrame, engineFrame
<1>0. TypeOK /\ EngineInv /\ StepShape
  BY DEF IInv
<1>q. ASSUME UNCHANGED <<mode, status, approval, active, engine, canceling, consent>>
      PROVE  EngineInv' /\ StepShape'
  BY <1>0, <1>q DEF EngineInv, OneLive, ManualOnly, StoppedIsOver, AbsentIsEmpty,
      RegistryConsistent, StepShape, Shape, Live
<1>1. ASSUME NEW m \in Mode, CreateRun(m) PROVE EngineInv' /\ StepShape'
  BY <1>0, <1>1 DEF CreateRun, SetStatus, Save, TypeOK, EngineInv, OneLive, ManualOnly,
      StoppedIsOver, AbsentIsEmpty, RegistryConsistent, StepShape, Shape, Live
<1>2. ASSUME CancelByUser PROVE EngineInv' /\ StepShape'
  BY <1>2, CancelKeeps DEF CancelByUser
<1>3. ASSUME SaveCanceled PROVE EngineInv' /\ StepShape'
  BY <1>0, <1>3 DEF SaveCanceled, EngineInv, OneLive, ManualOnly, StoppedIsOver, AbsentIsEmpty,
      RegistryConsistent, StepShape, Shape, Live
<1>4. ASSUME NEW e \in Engine, AcceptManual(e) PROVE EngineInv' /\ StepShape'
  BY <1>0, <1>4 DEF AcceptManual, NotCreated, TypeOK, EngineRecord, Engine, NoEngine, EngineInv,
      OneLive, ManualOnly, StoppedIsOver, AbsentIsEmpty, RegistryConsistent, StepShape, Shape,
          Live
<1>5. ASSUME AcceptAiAssist PROVE EngineInv' /\ StepShape'
  BY <1>0, <1>5 DEF AcceptAiAssist, SetStatus, Save, EngineInv, OneLive, ManualOnly,
      StoppedIsOver, AbsentIsEmpty, RegistryConsistent, StepShape, Shape, Live
<1>6. ASSUME NEW f \in Engine, NEW d \in Decision, ApprovalDecision(f, d) PROVE EngineInv' /\ StepShape'
  <2>1. CASE approval.of = f /\ active # NoEngine
    <3>1. active \in Engine
      BY <1>0, <2>1 DEF TypeOK
    <3> QED BY <3>1, <1>6, <2>1, DecisionKeeps DEF ApprovalDecision
  <2>2. CASE ~(approval.of = f /\ active # NoEngine)
    BY <1>q, <1>6, <2>2 DEF ApprovalDecision
  <2> QED BY <2>1, <2>2
<1>7. ASSUME CancelByDevice PROVE EngineInv' /\ StepShape'
  <2>1. CASE Cancel
    BY <1>7, <2>1, CancelKeeps DEF CancelByDevice
  <2>2. CASE ~Cancel
    BY <1>q, <1>7, <2>2 DEF CancelByDevice
  <2> QED BY <2>1, <2>2
<1>8. ASSUME NEW s \in Final, RunUpdate(s) PROVE EngineInv' /\ StepShape'
  BY <1>0, <1>8 DEF RunUpdate, SetStatus, Final, EngineInv, OneLive, ManualOnly, StoppedIsOver,
      AbsentIsEmpty, RegistryConsistent, StepShape, Shape, Live
<1>9. ASSUME RunStartRejected PROVE EngineInv' /\ StepShape'
  BY <1>0, <1>9 DEF RunStartRejected, SetStatus, EngineInv, OneLive, ManualOnly, StoppedIsOver,
      AbsentIsEmpty, RegistryConsistent, StepShape, Shape, Live
<1>10. ASSUME ApprovalRejected PROVE EngineInv' /\ StepShape'
  <2>1. CASE active # NoEngine
    <3>1. active \in Engine
      BY <1>0, <2>1 DEF TypeOK
    <3>2. HandleApproval(active, "denied")
      BY <1>10, <2>1 DEF ApprovalRejected
    <3> QED BY <3>1, <3>2, <1>10, DecisionKeeps DEF ApprovalRejected, Decision
  <2>2. CASE active = NoEngine
    <3>1. UNCHANGED <<mode, status, active, engine, canceling, consent>> /\ approval'.of = approval.of
      BY <1>0, <1>10, <2>2 DEF ApprovalRejected, KeepStatus, TypeOK
    <3>2. status = "absent" => approval' = approval
      BY <1>0, <1>10, <2>2 DEF ApprovalRejected, EngineInv, AbsentIsEmpty
    <3> QED BY <1>0, <3>1, <3>2 DEF EngineInv, OneLive, ManualOnly, StoppedIsOver, AbsentIsEmpty,
        RegistryConsistent, StepShape, Shape, Live
  <2> QED BY <2>1, <2>2
<1>11. ASSUME NEW e \in Engine, EngineBegin(e) PROVE EngineInv' /\ StepShape'
  <2>1. Live(e) /\ status' = "running"
    BY <1>11 DEF EngineBegin, SetStatus, Live
  <2>2. CASE engine[e].stopped
    BY <1>11, <2>1, <2>2, EndKeeps DEF EngineBegin
  <2>3. CASE ~engine[e].stopped
    <3>1. /\ engine'[e].pc = "work" /\ engine'[e].step = 1 /\ engine'[e].stopped = engine[e].stopped
          /\ \A f \in Engine \ {e} : engine'[f] = engine[f]
      BY <1>0, <1>11, <2>3 DEF EngineBegin, TypeOK, EngineRecord
    <3> QED BY <1>11, <2>1, <2>3, <3>1, MoveKeeps DEF EngineBegin, Shape
  <2> QED BY <2>2, <2>3
<1>12. ASSUME NEW e \in Engine, EngineWork(e) PROVE EngineInv' /\ StepShape'
  <2>1. Live(e) /\ status' = status /\ status # "absent"
    BY <1>0, <1>12 DEF EngineWork, KeepStatus, Live, EngineInv, AbsentIsEmpty
  <2>2. CASE engine[e].stopped
    BY <1>12, <2>1, <2>2, EndKeeps DEF EngineWork
  <2>3. CASE ~engine[e].stopped
    <3>1. /\ engine'[e].pc = "closing" /\ engine'[e].stopped = engine[e].stopped
          /\ engine'[e].step = engine[e].step
          /\ \A f \in Engine \ {e} : engine'[f] = engine[f]
      BY <1>0, <1>12, <2>3 DEF EngineWork, Goto, TypeOK, EngineRecord
    <3>2. Shape(e)'
      BY <1>0, <1>12, <3>1 DEF EngineWork, StepShape, Shape
    <3> QED BY <1>12, <2>1, <2>3, <3>1, <3>2, MoveKeeps DEF EngineWork
  <2> QED BY <2>2, <2>3
<1>13. ASSUME NEW e \in Engine, EngineStepDone(e) PROVE EngineInv' /\ StepShape'
  <2>1. Live(e) /\ status # "absent"
    BY <1>0, <1>13 DEF EngineStepDone, Live, EngineInv, AbsentIsEmpty
  <2>2. CASE engine[e].step = 4
    BY <1>13, <2>1, <2>2, EndKeeps DEF EngineStepDone, KeepStatus
  <2>3. CASE engine[e].step # 4
    <3>1. /\ engine'[e].pc = "pause" /\ engine'[e].stopped = engine[e].stopped
          /\ engine'[e].step = engine[e].step
          /\ \A f \in Engine \ {e} : engine'[f] = engine[f]
      BY <1>0, <1>13, <2>3 DEF EngineStepDone, Goto, TypeOK, EngineRecord
    <3>2. Shape(e)'
      BY <1>0, <1>13, <2>3, <3>1 DEF EngineStepDone, StepShape, Shape, AskStep
    <3> QED BY <1>13, <2>1, <2>3, <3>1, <3>2, MoveKeeps DEF EngineStepDone, KeepStatus
  <2> QED BY <2>2, <2>3
<1>14. ASSUME NEW e \in Engine, EnginePause(e) PROVE EngineInv' /\ StepShape'
  <2>1. Live(e) /\ status' = status /\ status # "absent"
    BY <1>0, <1>14 DEF EnginePause, Live, EngineInv, AbsentIsEmpty
  <2>2. CASE engine[e].stopped
    BY <1>14, <2>1, <2>2, EndKeeps DEF EnginePause
  <2>3. CASE ~engine[e].stopped
    <3>1. /\ engine'[e].pc = IF engine[e].step + 1 = AskStep THEN "ask" ELSE "work"
          /\ engine'[e].step = engine[e].step + 1
          /\ engine'[e].stopped = engine[e].stopped
          /\ \A f \in Engine \ {e} : engine'[f] = engine[f]
      BY <1>0, <1>14, <2>3 DEF EnginePause, TypeOK, EngineRecord
    <3>2. Shape(e)'
      BY <1>0, <1>14, <3>1 DEF EnginePause, StepShape, Shape, AskStep
    <3> QED BY <1>14, <2>1, <2>3, <3>1, <3>2, MoveKeeps DEF EnginePause
  <2> QED BY <2>2, <2>3
<1>15. ASSUME NEW e \in Engine, EngineAsk(e) PROVE EngineInv' /\ StepShape'
  BY <1>0, <1>15 DEF EngineAsk, Goto, TypeOK, EngineRecord, EngineInv, OneLive, ManualOnly,
      StoppedIsOver, AbsentIsEmpty, RegistryConsistent, StepShape, Shape, Live
<1>16. ASSUME NEW e \in Engine, EngineWait(e) PROVE EngineInv' /\ StepShape'
  BY <1>0, <1>16 DEF EngineWait, Goto, TypeOK, EngineRecord, EngineInv, OneLive, ManualOnly,
      StoppedIsOver, AbsentIsEmpty, RegistryConsistent, StepShape, Shape, Live
<1>17. ASSUME NEW e \in Engine, EngineTimeout(e) PROVE EngineInv' /\ StepShape'
  BY <1>17, ResumeKeeps DEF EngineTimeout, Decision
<1>18. ASSUME ApiRestart PROVE EngineInv' /\ StepShape'
  BY <1>0, <1>18 DEF ApiRestart, NoApproval, TypeOK, EngineRecord, NotCreated, Engine, NoEngine,
      EngineInv, OneLive, ManualOnly, StoppedIsOver, AbsentIsEmpty, RegistryConsistent,
          StepShape, Shape, Live
<1>19. ASSUME DispatchRunStart PROVE EngineInv' /\ StepShape'
  BY <1>q, <1>19 DEF DispatchRunStart
<1>20. ASSUME AcceptIgnored PROVE EngineInv' /\ StepShape'
  BY <1>q, <1>20 DEF AcceptIgnored
<1>21. ASSUME NEW s \in saves, SaveCommits(s) PROVE EngineInv' /\ StepShape'
  BY <1>q, <1>21 DEF SaveCommits
<1>22. ASSUME DesktopStart PROVE EngineInv' /\ StepShape'
  BY <1>q, <1>22 DEF DesktopStart
<1>23. ASSUME DesktopRejectStart PROVE EngineInv' /\ StepShape'
  BY <1>q, <1>23 DEF DesktopRejectStart
<1>24. ASSUME NEW e \in Engine, NEW d \in Decision, DesktopDecide(e, d) PROVE EngineInv' /\ StepShape'
  BY <1>q, <1>24 DEF DesktopDecide
<1>25. ASSUME DesktopRejectApproval PROVE EngineInv' /\ StepShape'
  BY <1>q, <1>25 DEF DesktopRejectApproval
<1>26. ASSUME DesktopCancel PROVE EngineInv' /\ StepShape'
  BY <1>q, <1>26 DEF DesktopCancel
<1>27. ASSUME DesktopStop PROVE EngineInv' /\ StepShape'
  BY <1>q, <1>27 DEF DesktopStop
<1>28. ASSUME NEW s \in Final, DesktopFinish(s) PROVE EngineInv' /\ StepShape'
  BY <1>q, <1>28 DEF DesktopFinish
<1>29. CASE UNCHANGED vars
  BY <1>q, <1>29 DEF vars
<1> QED
  BY <1>1, <1>2, <1>3, <1>4, <1>5, <1>6, <1>7, <1>8, <1>9, <1>10, <1>11, <1>12, <1>13, <1>14,
      <1>15, <1>16, <1>17, <1>18, <1>19, <1>20, <1>21, <1>22, <1>23, <1>24, <1>25, <1>26,
          <1>27, <1>28, <1>29 DEF Next, HttpStep, MessageStep, DesktopStep, EngineStep
\* Every reachable state satisfies the inductive invariant.
THEOREM Invariance == Spec => []IInv
<1>1. IInv /\ [Next]_vars => IInv'
  BY TypeStep, EngineStepKeeps DEF IInv
<1> QED BY <1>1, InitIInv, PTL DEF Spec

\* The run record, its engines, its row and the messages are well typed.
THEOREM Typing == Spec => []TypeOK
<1>1. IInv => TypeOK BY DEF IInv
<1> QED BY <1>1, Invariance, PTL

\* activeEngines and the coroutines of runEngine.ts agree: cancel and approval
\* decisions always reach the engine that drives the run.
THEOREM Registry == Spec => []RegistryConsistent
<1>1. IInv => RegistryConsistent BY DEF IInv, EngineInv
<1> QED BY <1>1, Invariance, PTL

\* runEngine.ts executes the last step, and completes the run, only for an
\* engine whose own approval the user granted.
THEOREM Consent == Spec => []ConsentBeforeResult
<1>1. IInv => ConsentBeforeResult
  BY DEF IInv, TypeOK, EngineRecord, Step, StepShape, Shape, ConsentBeforeResult, AskStep
<1> QED BY <1>1, Invariance, PTL

\* An engine that was stopped begins no other step.
THEOREM StoppedEnginesStop == Spec => StoppedEngineStops
<1> DEFINE Stays == \A e \in Engine : engine[e].stopped => engine'[e].step = engine[e].step
<1>1. IInv /\ [Next]_vars => Stays
  <2> SUFFICES ASSUME IInv, [Next]_vars PROVE Stays
      OBVIOUS
  <2> USE DEF storeVars, httpVars, dbVars, desktopVars, histVars, desktopFrame, engineFrame
  <2>0. TypeOK /\ engine \in [Engine -> EngineRecord] /\ StepShape
    BY DEF IInv, TypeOK
  <2>q. ASSUME UNCHANGED engine PROVE Stays
    BY <2>q
  <2>e. ASSUME NEW e \in Engine, End(e) PROVE Stays
    BY <2>0, <2>e DEF End, Goto, EngineRecord
  <2>g. ASSUME NEW e \in Engine, NEW pc, Goto(e, pc) PROVE Stays
    BY <2>0, <2>g DEF Goto, EngineRecord
  <2>r. ASSUME NEW e \in Engine, NEW d \in Decision, Resume(e, d) PROVE Stays
    BY <2>e, <2>g, <2>r DEF Resume
  <2>h. ASSUME active \in Engine, NEW d \in Decision, HandleApproval(active, d) PROVE Stays
    BY <2>h, <2>q, <2>r DEF HandleApproval
  <2>c. ASSUME Cancel PROVE Stays
    BY <2>0, <2>c DEF Cancel, EngineRecord
  <2>1. ASSUME HttpStep PROVE Stays
    BY <2>1, <2>c, <2>q DEF HttpStep, CreateRun, DispatchRunStart, CancelByUser, SaveCanceled
  <2>2. ASSUME NEW e \in Engine, AcceptManual(e) PROVE Stays
    BY <2>0, <2>2 DEF AcceptManual, StepShape, Shape, NotCreated
  <2>3. ASSUME NEW e \in Engine, NEW d \in Decision, ApprovalDecision(e, d) PROVE Stays
    BY <2>0, <2>3, <2>h, <2>q DEF ApprovalDecision, TypeOK
  <2>4. ASSUME ApprovalRejected PROVE Stays
    BY <2>0, <2>4, <2>h, <2>q DEF ApprovalRejected, TypeOK, Decision
  <2>5. ASSUME CancelByDevice PROVE Stays
    BY <2>5, <2>c, <2>q DEF CancelByDevice
  <2>6. ASSUME AcceptIgnored \/ AcceptAiAssist \/ (\E s \in Final : RunUpdate(s)) \/ RunStartRejected
        PROVE  Stays
    BY <2>6, <2>q DEF AcceptIgnored, AcceptAiAssist, RunUpdate, RunStartRejected
  <2>7. ASSUME NEW e \in Engine, EngineBegin(e) PROVE Stays
    BY <2>0, <2>7, <2>e DEF EngineBegin, EngineRecord
  <2>8. ASSUME NEW e \in Engine, EnginePause(e) PROVE Stays
    BY <2>0, <2>8, <2>e DEF EnginePause, EngineRecord
  <2>9. ASSUME NEW e \in Engine,
               EngineWork(e) \/ EngineStepDone(e) \/ EngineAsk(e) \/ EngineWait(e) \/ EngineTimeout(e)
        PROVE  Stays
    BY <2>9, <2>e, <2>g, <2>r
       DEF EngineWork, EngineStepDone, EngineAsk, EngineWait, EngineTimeout, Decision
  <2>10. ASSUME ApiRestart PROVE Stays
    BY <2>0, <2>10 DEF ApiRestart, EngineRecord
  <2>11. ASSUME DesktopStep \/ (\E s \in saves : SaveCommits(s)) \/ UNCHANGED vars PROVE Stays
    BY <2>11, <2>q
       DEF vars, DesktopStep, SaveCommits, DesktopStart, DesktopRejectStart, DesktopRejectApproval,
           DesktopCancel, DesktopStop, DesktopDecide, DesktopFinish
  <2> QED
    BY <2>1, <2>2, <2>3, <2>4, <2>5, <2>6, <2>7, <2>8, <2>9, <2>10, <2>11
       DEF Next, MessageStep, EngineStep
<1>2. IInv /\ [Next]_vars =>
        [\A e \in Engine : engine[e].stopped => engine'[e].step = engine[e].step]_vars
  BY <1>1
<1> QED BY <1>2, Invariance, PTL DEF Spec, StoppedEngineStops

-----------------------------------------------------------------------------
(* The outcome of a manual run.                                              *)

AcceptComing == [kind |-> "accept"] \in toApi
RejectComing == [kind |-> "reject"] \in toApi
Quiet        == \A e \in Engine : ~Live(e)

\* The desktop drives a run itself, and reports its status, only in ai_assist
\* mode.
LocalIsAi == /\ local \in {"running", "stopping"} => mode = "ai_assist"
             /\ \A s \in Final : [kind |-> "update", status |-> s] \in toApi => mode = "ai_assist"

\* The desktop accepts a run or refuses it, never both.
Refused == /\ starts = 0 => ~AcceptComing /\ Quiet
           /\ RejectComing => ~AcceptComing /\ Quiet /\ starts = MaxStarts

\* No engine drives a manual run that is done or failed.
Over == mode = "manual" /\ status \in {"done", "failed"} => Quiet

\* The engine that completed the run has ended and was not stopped.
Completed(e) == e \in consent /\ engine[e].pc = "ended" /\ engine[e].step = 4 /\ ~engine[e].stopped
DoneSomewhere == "done" \in {status, db} \cup saves
DoneEnded == mode # "ai_assist" /\ DoneSomewhere => \E e \in Engine : Completed(e)

OutcomeInv == LocalIsAi /\ Refused /\ Over /\ DoneEnded

\* Nothing has happened before the run exists.
LEMMA InitOutcome == Init => OutcomeInv
BY DEF Init, OutcomeInv, LocalIsAi, Refused, Over, DoneEnded, DoneSomewhere, AcceptComing, RejectComing,
       Quiet, Live, NotCreated

\* What the desktop does leaves the record, the engines and the row alone.
LEMMA DesktopFrame == DesktopStep => UNCHANGED <<storeVars, dbVars, consent, restarts>>
BY DEF DesktopStep, DesktopStart, DesktopRejectStart, DesktopRejectApproval, DesktopCancel,
       DesktopStop, DesktopDecide, DesktopFinish, desktopFrame

\* Only the desktop adds messages, and only its steps change how it stands.
LEMMA ApiFrame ==
  [Next]_vars /\ ~DesktopStep => toApi' \subseteq toApi /\ UNCHANGED <<local, starts>>
BY DEF vars, storeVars, httpVars, dbVars, desktopVars, histVars, engineFrame, Next, HttpStep,
       MessageStep, EngineStep, CreateRun, DispatchRunStart, CancelByUser, SaveCanceled, Receive,
       AcceptManual, ApprovalDecision, AcceptIgnored, AcceptAiAssist, CancelByDevice, RunUpdate,
       RunStartRejected, ApprovalRejected, EngineBegin, EngineWork, EngineStepDone, EnginePause,
       EngineAsk, EngineWait, EngineTimeout, ApiRestart, SaveCommits
\* What a step may do to the engines and to the outcome.
Buried     == \A e \in Engine : engine[e].pc = "ended" => engine'[e] = engine[e]
NoneStarts == \A e \in Engine : Live(e)' => Live(e)
Outcome    ==
  \/ status' = status
  \/ status' \notin {"done", "failed"} /\ (~Quiet \/ status \notin {"done", "failed"} \/ mode = "none")
  \/ Quiet' /\ ~Quiet
  \/ Quiet' /\ restarts' # restarts
  \/ status' = "failed" /\ status = "queued" /\ RejectComing
DoneSource == DoneSomewhere' => DoneSomewhere \/ \E e \in Engine : Completed(e)'
Proper     == Buried /\ NoneStarts /\ Outcome /\ DoneSource

\* A step that ends the only live engine leaves no engine running.
LEMMA EndStep ==
  ASSUME IInv, NEW e \in Engine, Live(e), End(e)
  PROVE  /\ Buried /\ NoneStarts /\ Quiet' /\ ~Quiet
         /\ engine'[e] = [pc |-> "ended", step |-> engine[e].step, stopped |-> engine[e].stopped]
<1>1. /\ engine'[e] = [pc |-> "ended", step |-> engine[e].step, stopped |-> engine[e].stopped]
      /\ \A f \in Engine \ {e} : engine'[f] = engine[f]
  BY DEF End, Goto, IInv, TypeOK, EngineRecord
<1> QED BY <1>1 DEF IInv, EngineInv, OneLive, Live, Buried, NoneStarts, Quiet

\* A step that moves a live engine starts none.
LEMMA MoveStep ==
  ASSUME IInv, NEW e \in Engine, Live(e), \A f \in Engine \ {e} : engine'[f] = engine[f]
  PROVE  Buried /\ NoneStarts
BY DEF Live, Buried, NoneStarts

\* Goto moves one engine.
LEMMA GotoMoves ==
  ASSUME IInv, NEW e \in Engine, NEW pc, Goto(e, pc)
  PROVE  \A f \in Engine \ {e} : engine'[f] = engine[f]
BY DEF Goto, IInv, TypeOK

\* waitForApproval resolves: the run goes on, or it has failed.
LEMMA ResumeProper ==
  ASSUME IInv, NEW e \in Engine, engine[e].pc = "wait", NEW d \in Decision, Resume(e, d), UNCHANGED db
  PROVE  Proper
<1>1. Live(e)
  BY DEF Live
<1>2. CASE End(e)
  BY <1>1, <1>2, EndStep DEF Resume, KeepStatus, Save, Proper, Outcome, DoneSource, DoneSomewhere
<1>3. CASE Goto(e, "pause") /\ KeepStatus
  BY <1>1, <1>3, GotoMoves, MoveStep
     DEF KeepStatus, Save, Proper, Outcome, DoneSource, DoneSomewhere
<1> QED BY <1>2, <1>3 DEF Resume

\* A decision that reaches the registered engine.
LEMMA DecisionProper ==
  ASSUME IInv, active \in Engine, NEW d \in Decision, HandleApproval(active, d), UNCHANGED db
  PROVE  Proper
<1>1. CASE Resume(active, d) /\ engine[active].pc = "wait"
  BY <1>1, ResumeProper
<1>2. CASE UNCHANGED <<engine, status>> /\ (KeepStatus \/ UNCHANGED saves)
  BY <1>2 DEF KeepStatus, Save, Proper, Buried, NoneStarts, Outcome, DoneSource, DoneSomewhere, Live
<1> QED BY <1>1, <1>2 DEF HandleApproval, KeepStatus

\* runStore.cancel of a run that is not over.
LEMMA CancelProper ==
  ASSUME IInv, Cancel, UNCHANGED db, saves' \subseteq saves \cup {"canceled"}
  PROVE  Proper
<1>1. Buried /\ NoneStarts
  <2>1. active \in Engine => Live(active)
    BY DEF IInv, EngineInv, RegistryConsistent
  <2>2. active \in Engine \/ active = NoEngine
    BY DEF IInv, TypeOK
  <2>3. CASE active = NoEngine
    BY <2>3 DEF Cancel, Live, Buried, NoneStarts
  <2>4. CASE active \in Engine
    <3>1. \A f \in Engine \ {active} : engine'[f] = engine[f]
      BY <2>4 DEF Cancel, IInv, TypeOK
    <3> QED BY <2>1, <2>4, <3>1 DEF Live, Buried, NoneStarts
  <2> QED BY <2>2, <2>3, <2>4
<1>2. Outcome
  BY DEF Cancel, Cancelable, InProgress, Outcome
<1>3. DoneSource
  BY DEF Cancel, DoneSource, DoneSomewhere
<1> QED BY <1>1, <1>2, <1>3 DEF Proper

\* A step of an engine.
LEMMA EngineStepProper ==
  ASSUME IInv, NEW e \in Engine, EngineStep(e)
  PROVE  Proper
<1> USE DEF Proper, Outcome, DoneSource, DoneSomewhere, SetStatus, KeepStatus, Save, engineFrame
<1>0. Live(e) /\ ~Quiet
  BY DEF EngineStep, EngineBegin, EngineWork, EngineStepDone, EnginePause, EngineAsk, EngineWait,
         EngineTimeout, Live, Quiet
<1>1. ASSUME EngineBegin(e) PROVE Proper
  <2>1. CASE End(e)
    BY <1>0, <1>1, <2>1, EndStep DEF EngineBegin
  <2>2. CASE ~engine[e].stopped
    <3>1. \A f \in Engine \ {e} : engine'[f] = engine[f]
      BY <1>1, <2>2 DEF EngineBegin, IInv, TypeOK
    <3> QED BY <1>0, <1>1, <2>2, <3>1, MoveStep DEF EngineBegin
  <2> QED BY <1>1, <2>1, <2>2 DEF EngineBegin
<1>2. ASSUME EngineWork(e) PROVE Proper
  BY <1>0, <1>2, EndStep, GotoMoves, MoveStep DEF EngineWork
<1>3. ASSUME EngineStepDone(e) PROVE Proper
  <2>1. CASE Goto(e, "pause") /\ KeepStatus
    BY <1>0, <1>3, <2>1, GotoMoves, MoveStep DEF EngineStepDone
  <2>2. CASE engine[e].step = 4 /\ End(e)
    <3>1. ASSUME ~engine[e].stopped PROVE Completed(e)'
      <4>1. engine'[e] = [pc |-> "ended", step |-> 4, stopped |-> engine[e].stopped]
        BY <1>0, <2>2, EndStep
      <4>2. e \in consent'
        BY <1>3, <2>2 DEF EngineStepDone, histVars, IInv, StepShape, Shape
      <4> QED BY <3>1, <4>1, <4>2 DEF Completed
    <3> QED BY <1>0, <1>3, <2>2, <3>1, EndStep DEF EngineStepDone
  <2> QED BY <1>3, <2>1, <2>2 DEF EngineStepDone
<1>4. ASSUME EnginePause(e) PROVE Proper
  <2>1. CASE End(e)
    BY <1>0, <1>4, <2>1, EndStep DEF EnginePause
  <2>2. CASE ~engine[e].stopped
    <3>1. \A f \in Engine \ {e} : engine'[f] = engine[f]
      BY <1>4, <2>2 DEF EnginePause, IInv, TypeOK
    <3> QED BY <1>0, <1>4, <2>2, <3>1, MoveStep DEF EnginePause
  <2> QED BY <1>4, <2>1, <2>2 DEF EnginePause
<1>5. ASSUME EngineAsk(e) PROVE Proper
  BY <1>0, <1>5, GotoMoves, MoveStep DEF EngineAsk
<1>6. ASSUME EngineWait(e) PROVE Proper
  BY <1>0, <1>6, GotoMoves, MoveStep DEF EngineWait
<1>7. ASSUME EngineTimeout(e) PROVE Proper
  BY <1>7, ResumeProper DEF EngineTimeout, Decision
<1> QED BY <1>1, <1>2, <1>3, <1>4, <1>5, <1>6, <1>7 DEF EngineStep
\* Every step but those of the desktop, its accepts and its reports is proper.
LEMMA StepProper ==
  ASSUME IInv, LocalIsAi, [Next]_vars, mode # "ai_assist"
  PROVE  Proper \/ \E e \in Engine : AcceptManual(e)
<1> USE DEF storeVars, httpVars, dbVars, desktopVars, histVars
<1>q. ASSUME UNCHANGED <<status, engine>>, DoneSource PROVE Proper
  BY <1>q DEF Proper, Buried, NoneStarts, Outcome, Live
<1>u. ASSUME UNCHANGED <<status, engine, db>>, saves' \subseteq saves \cup {status} PROVE Proper
  BY <1>q, <1>u DEF DoneSource, DoneSomewhere
<1>1. ASSUME NEW m \in Mode, CreateRun(m) PROVE Proper
  BY <1>1 DEF CreateRun, SetStatus, Save, Proper, Buried, NoneStarts, Outcome, DoneSource,
              DoneSomewhere, Live, Quiet, IInv, EngineInv, ManualOnly
<1>2. ASSUME CancelByUser PROVE Proper
  BY <1>2, CancelProper DEF CancelByUser
<1>3. ASSUME CancelByDevice PROVE Proper
  BY <1>3, <1>u, CancelProper DEF CancelByDevice, Save
<1>4. ASSUME DispatchRunStart \/ SaveCanceled \/ AcceptIgnored PROVE Proper
  BY <1>4, <1>u DEF DispatchRunStart, SaveCanceled, AcceptIgnored, Save
<1>5. ASSUME NEW f \in Engine, NEW d \in Decision, ApprovalDecision(f, d) PROVE Proper
  BY <1>5, <1>u, DecisionProper DEF ApprovalDecision, IInv, TypeOK
<1>6. ASSUME ApprovalRejected PROVE Proper
  BY <1>6, <1>u, DecisionProper DEF ApprovalRejected, KeepStatus, Save, Decision, IInv, TypeOK
<1>7. ASSUME RunStartRejected PROVE Proper
  BY <1>7 DEF RunStartRejected, SetStatus, Save, Receive, RejectComing, Proper, Buried, NoneStarts,
              Outcome, DoneSource, DoneSomewhere, Live
<1>8. ASSUME NEW s \in saves, SaveCommits(s) PROVE Proper
  BY <1>8, <1>q DEF SaveCommits, DoneSource, DoneSomewhere
<1>9. ASSUME ApiRestart PROVE Proper
  <2>1. Quiet' /\ Buried /\ NoneStarts
    BY <1>9 DEF ApiRestart, IInv, TypeOK, EngineRecord, Live, Quiet, Buried, NoneStarts
  <2>2. restarts' # restarts
    BY <1>9 DEF ApiRestart, IInv, TypeOK
  <2>3. DoneSource
    BY <1>9, RecoveredAssumption DEF ApiRestart, DoneSource, DoneSomewhere
  <2> QED BY <2>1, <2>2, <2>3 DEF Proper, Outcome
<1>10. ASSUME DesktopStep \/ UNCHANGED vars PROVE Proper
  BY <1>10, <1>u, DesktopFrame DEF vars
<1>11. ASSUME AcceptAiAssist \/ \E s \in Final : RunUpdate(s) PROVE FALSE
  BY <1>11 DEF AcceptAiAssist, RunUpdate, Receive, LocalIsAi
<1> QED
  BY <1>1, <1>2, <1>3, <1>4, <1>5, <1>6, <1>7, <1>8, <1>9, <1>10, <1>11, EngineStepProper
     DEF Next, HttpStep, MessageStep

\* Only CreateRun sets the mode.
LEMMA ModeFrame ==
  [Next]_vars => mode' = mode \/ (mode = "none" /\ UNCHANGED <<engine, toApi, local, starts>>)
<1> SUFFICES ASSUME [Next]_vars
             PROVE  mode' = mode \/ (mode = "none" /\ UNCHANGED <<engine, toApi, local, starts>>)
    OBVIOUS
<1> USE DEF storeVars, httpVars, dbVars, desktopVars, histVars
<1>1. ASSUME NEW m \in Mode, CreateRun(m)
      PROVE  mode = "none" /\ UNCHANGED <<engine, toApi, local, starts>>
  BY <1>1 DEF CreateRun
<1>2. ASSUME DispatchRunStart \/ CancelByUser \/ SaveCanceled PROVE mode' = mode
  BY <1>2 DEF DispatchRunStart, CancelByUser, SaveCanceled
<1>3. ASSUME MessageStep PROVE mode' = mode
  BY <1>3
     DEF MessageStep, AcceptManual, ApprovalDecision, AcceptIgnored, AcceptAiAssist, CancelByDevice,
         RunUpdate, RunStartRejected, ApprovalRejected
<1>4. ASSUME NEW e \in Engine, EngineStep(e) PROVE mode' = mode
  BY <1>4 DEF engineFrame, EngineStep, EngineBegin, EngineWork, EngineStepDone, EnginePause,
              EngineAsk, EngineWait, EngineTimeout
<1>5. ASSUME DesktopStep PROVE mode' = mode
  BY <1>5, DesktopFrame
<1>6. ASSUME ApiRestart \/ \E s \in saves : SaveCommits(s) PROVE mode' = mode
  BY <1>6 DEF ApiRestart, SaveCommits
<1>7. CASE UNCHANGED vars
  BY <1>7 DEF vars
<1> QED BY <1>1, <1>2, <1>3, <1>4, <1>5, <1>6, <1>7 DEF Next, HttpStep

\* The user's consent is never taken back.
LEMMA ConsentStays == [Next]_vars => consent \subseteq consent'
BY DEF vars, storeVars, httpVars, dbVars, desktopVars, histVars, engineFrame, desktopFrame, Next,
       HttpStep, MessageStep, DesktopStep, EngineStep, CreateRun, DispatchRunStart, CancelByUser,
       SaveCanceled, AcceptManual, ApprovalDecision, AcceptIgnored, AcceptAiAssist, CancelByDevice,
       RunUpdate, RunStartRejected, ApprovalRejected, EngineBegin, EngineWork, EngineStepDone,
       EnginePause, EngineAsk, EngineWait, EngineTimeout, ApiRestart, SaveCommits, DesktopStart,
       DesktopRejectStart, DesktopRejectApproval, DesktopCancel, DesktopStop, DesktopDecide,
       DesktopFinish

\* The desktop runs and reports only an ai_assist run.
LEMMA LocalStep == IInv /\ OutcomeInv /\ [Next]_vars => LocalIsAi'
<1> SUFFICES ASSUME IInv, OutcomeInv, [Next]_vars PROVE LocalIsAi'
    OBVIOUS
<1>0. LocalIsAi /\ (mode = "ai_assist" => mode' = "ai_assist")
  BY ModeFrame DEF OutcomeInv
<1>1. CASE ~DesktopStep
  BY <1>0, <1>1, ApiFrame DEF LocalIsAi
<1>2. CASE DesktopStep
  <2>0. mode' = mode
    BY <1>2, DesktopFrame DEF storeVars
  <2>1. ASSUME DesktopStart \/ DesktopRejectStart \/ DesktopRejectApproval \/ DesktopCancel \/ DesktopStop
        PROVE  LocalIsAi'
    BY <1>0, <2>0, <2>1
       DEF DesktopStart, DesktopRejectStart, DesktopRejectApproval, DesktopCancel, DesktopStop, Send,
           LocalIsAi
  <2>2. ASSUME NEW e \in Engine, NEW d \in Decision, DesktopDecide(e, d) PROVE LocalIsAi'
    BY <1>0, <2>0, <2>2 DEF DesktopDecide, Send, LocalIsAi
  <2>3. ASSUME NEW s \in Final, DesktopFinish(s) PROVE LocalIsAi'
    BY <1>0, <2>0, <2>3 DEF DesktopFinish, Send, LocalIsAi
  <2> QED BY <1>2, <2>1, <2>2, <2>3 DEF DesktopStep
<1> QED BY <1>1, <1>2

\* A desktop that refused the run has not accepted it, and never will.
LEMMA RefusedStep == IInv /\ OutcomeInv /\ [Next]_vars => Refused'
<1> SUFFICES ASSUME IInv, OutcomeInv, [Next]_vars PROVE Refused'
    OBVIOUS
<1>0. LocalIsAi /\ Refused /\ TypeOK
  BY DEF OutcomeInv, IInv
<1>1. CASE DesktopStep
  <2>0. Quiet' <=> Quiet
    BY <1>1, DesktopFrame DEF storeVars, Quiet, Live
  <2>1. CASE DesktopStart
    BY <1>0, <2>0, <2>1, NumbersAssumption
       DEF DesktopStart, Send, Refused, AcceptComing, RejectComing, TypeOK
  <2>2. CASE DesktopRejectStart
    BY <1>0, <2>0, <2>2 DEF DesktopRejectStart, Send, Refused, AcceptComing, RejectComing
  <2>3. CASE DesktopRejectApproval \/ DesktopCancel \/ DesktopStop
    BY <1>0, <2>0, <2>3
       DEF DesktopRejectApproval, DesktopCancel, DesktopStop, Send, Refused, AcceptComing, RejectComing
  <2>4. ASSUME NEW e \in Engine, NEW d \in Decision, DesktopDecide(e, d) PROVE Refused'
    BY <1>0, <2>0, <2>4 DEF DesktopDecide, Send, Refused, AcceptComing, RejectComing
  <2>5. ASSUME NEW s \in Final, DesktopFinish(s) PROVE Refused'
    BY <1>0, <2>0, <2>5 DEF DesktopFinish, Send, Refused, AcceptComing, RejectComing
  <2> QED BY <1>1, <2>1, <2>2, <2>3, <2>4, <2>5 DEF DesktopStep
<1>2. CASE ~DesktopStep /\ NoneStarts
  <2>1. Quiet => Quiet'
    BY <1>2 DEF NoneStarts, Quiet
  <2> QED BY <1>0, <1>2, <2>1, ApiFrame DEF Refused, AcceptComing, RejectComing
<1>3. CASE ~DesktopStep /\ \E e \in Engine : AcceptManual(e)
  BY <1>0, <1>3, ApiFrame DEF AcceptManual, Receive, Refused, AcceptComing, RejectComing
<1>4. CASE ~DesktopStep /\ mode = "ai_assist"
  <2>1. Quiet /\ Quiet'
    <3>1. IInv'
      BY TypeStep, EngineStepKeeps DEF IInv
    <3>2. mode' = "ai_assist"
      BY <1>4, ModeFrame
    <3> QED BY <1>4, <3>1, <3>2 DEF IInv, EngineInv, ManualOnly, Quiet
  <2> QED BY <1>0, <1>4, <2>1, ApiFrame DEF Refused, AcceptComing, RejectComing
<1> QED BY <1>0, <1>1, <1>2, <1>3, <1>4, StepProper DEF Proper

\* A manual run that is done or failed has no engine left, and one that is done
\* was completed.
LEMMA OverStep == IInv /\ OutcomeInv /\ [Next]_vars => Over' /\ DoneEnded'
<1> SUFFICES ASSUME IInv, OutcomeInv, [Next]_vars PROVE Over' /\ DoneEnded'
    OBVIOUS
<1>0. LocalIsAi /\ Refused /\ Over /\ DoneEnded /\ consent \subseteq consent'
  BY ConsentStays DEF OutcomeInv
<1>1. CASE mode = "ai_assist"
  <2>1. mode' = "ai_assist"
    BY <1>1, ModeFrame
  <2> QED BY <2>1 DEF Over, DoneEnded
<1>2. ASSUME NEW e \in Engine, AcceptManual(e) PROVE Over' /\ DoneEnded'
  <2>1. status' \in {"queued", "running"} /\ UNCHANGED <<mode, status, db, saves>>
    BY <1>2 DEF AcceptManual, dbVars
  <2>2. \A f \in Engine : Completed(f) => Completed(f)'
    BY <1>0, <1>2 DEF AcceptManual, NotCreated, Completed, IInv, TypeOK
  <2> QED BY <1>0, <2>1, <2>2 DEF Over, DoneEnded, DoneSomewhere
<1>3. CASE mode # "ai_assist" /\ Proper
  <2>1. \A f \in Engine : Completed(f) => Completed(f)'
    BY <1>0, <1>3 DEF Proper, Buried, Completed
  <2>2. DoneEnded'
    BY <1>0, <1>3, <2>1 DEF Proper, DoneSource, DoneEnded
  <2>3. Quiet => Quiet'
    BY <1>3 DEF Proper, NoneStarts, Quiet
  <2>4. CASE mode' = mode
    <3>1. SUFFICES ASSUME mode = "manual", status' \in {"done", "failed"} PROVE Quiet'
      BY <2>2, <2>4 DEF Over
    <3>2. CASE status' = status \/ RejectComing
      BY <1>0, <2>3, <3>1, <3>2 DEF Over, Refused
    <3> QED BY <1>3, <3>1, <3>2 DEF Proper, Outcome
  <2>5. CASE mode' # mode
    <3>1. mode = "none" /\ UNCHANGED engine
      BY <2>5, ModeFrame
    <3> QED BY <2>2, <3>1 DEF Over, Quiet, Live, IInv, EngineInv, ManualOnly
  <2> QED BY <2>2, <2>4, <2>5
<1> QED BY <1>0, <1>1, <1>2, <1>3, StepProper

\* Every reachable state satisfies the invariant of the outcome.
THEOREM OutcomeInvariance == Spec => []OutcomeInv
<1>1. IInv /\ OutcomeInv /\ [Next]_vars => OutcomeInv'
  BY LocalStep, RefusedStep, OverStep DEF OutcomeInv
<1> QED BY <1>1, InitOutcome, Invariance, PTL DEF Spec

\* A manual run is reported done, in memory, in its row or on the way there,
\* only if an engine completed it with the consent of the user.
THEOREM DoneGranted == Spec => []DoneWasGranted
<1>1. OutcomeInv => DoneWasGranted
  BY DEF OutcomeInv, DoneEnded, DoneSomewhere, Completed, DoneWasGranted
<1> QED BY <1>1, OutcomeInvariance, PTL

\* done and failed are final for a manual run until the API restarts.
THEOREM OutcomeFinal == Spec => OutcomeStays
<1>1. IInv /\ OutcomeInv /\ [Next]_vars =>
        [mode = "manual" /\ status \in {"done", "failed"} /\ restarts' = restarts
           => status' = status]_vars
  <2> SUFFICES ASSUME IInv, OutcomeInv, [Next]_vars, mode = "manual",
                      status \in {"done", "failed"}, restarts' = restarts
               PROVE  status' = status
      OBVIOUS
  <2>1. Quiet
    BY DEF OutcomeInv, Over
  <2>2. CASE \E e \in Engine : AcceptManual(e)
    BY <2>2 DEF AcceptManual
  <2>3. CASE Proper
    BY <2>1, <2>3 DEF Proper, Outcome
  <2> QED BY <2>2, <2>3, StepProper DEF OutcomeInv
<1> QED BY <1>1, Invariance, OutcomeInvariance, PTL DEF Spec, OutcomeStays
=============================================================================
