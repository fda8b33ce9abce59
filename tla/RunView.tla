------------------------------ MODULE RunView ------------------------------
(***************************************************************************)
(* What the desktop shows of its manual runs and how it answers them: the  *)
(* active run, the list of recent activity, the dialog of an approval and  *)
(* the buttons of the task panel (apps/desktop/src/App.tsx,                *)
(* components/RunPanel.tsx, components/ApprovalModal.tsx), against the     *)
(* runs in the API's store and the engines that drive them.  RunLifecycle  *)
(* has ONE run in detail; here there are several, and only the engine's    *)
(* turns that tell the desktop of a status are left.  The queue is off     *)
(* (memory backend) and the socket stays up: what the API sends arrives in *)
(* order, and so does what the desktop sends.  CommandDelivery and         *)
(* ScreenPresence have the lost connections.                               *)
(*                                                                         *)
(* React runs the effect that lists the active run after the render that   *)
(* changed it and before the next message: it is part of the change.       *)
(***************************************************************************)
EXTENDS FiniteSets, Naturals, Sequences, TLC

CONSTANTS
  Runs,          \* bound: the device's runs
  HistoryLimit,  \* runs that are listed: 12 in the code
  MaxDown,       \* bound: messages on their way to the desktop
  MaxLoads,      \* bound: times the desktop loads GET /desktop/me
  MaxCancels     \* bound: cancel requests, of either kind

ASSUME NumbersAssumption ==
  HistoryLimit \in Nat \ {0} /\ MaxDown \in Nat /\ MaxLoads \in Nat /\ MaxCancels \in Nat

InProgress == {"queued", "running", "waiting_for_user"}
RunStatus  == InProgress \cup {"done", "failed", "canceled"}
Decision   == {"approved", "denied"}

\* A run as the desktop has it; at is its updatedAt.
View == [run : Runs, status : RunStatus, at : Nat]
NoView == [run |-> "none"]

Down ==
  [kind : {"run.details"}, view : View]
    \cup [kind : {"run.status"}, run : Runs, status : RunStatus]
    \cup [kind : {"run.step_blocked", "approval.request", "run.canceled"}, run : Runs]
Up ==
  [kind : {"run.cancel"}, run : Runs]
    \cup [kind : {"approval.decision"}, run : Runs, asked : Runs, decision : Decision]

VARIABLES
  \* the API: the run store and the engines
  status,    \* of each run, absent before it is created
  at,        \* updatedAt of each run
  approval,  \* pendingApproval of each run
  pc,        \* where the engine of each run is
  stopped,   \* runs whose engine was stopped
  clock,       \* the clock
  \* the network
  down, up,
  load,      \* GET /desktop/me on its way: nothing, asked, or its rows
  \* the desktop
  active,    \* activeRun
  recent,    \* recentRuns
  dialog,    \* pendingApproval: the run that asked
  \* history
  been,      \* statuses each run has had
  meant,     \* what the user decided on each run's approval
  loads, cancels

apiVars  == <<status, at, approval, pc, stopped, clock, been>>
viewVars == <<active, recent>>
deskVars == <<viewVars, dialog, meant>>
netVars  == <<down, up, load>>
vars     == <<apiVars, deskVars, netVars, loads, cancels>>

NoLoad == [kind |-> "none"]

\* Types of the stores, the messages and the views; a run is listed once, and the list
\* never grows beyond its limit.
ViewTypeOK ==
  /\ status \in [Runs -> RunStatus \cup {"absent"}] /\ at \in [Runs -> Nat]
  /\ approval \in [Runs -> {"none", "pending"} \cup Decision]
  /\ pc \in [Runs -> {"none", "queued", "details", "work", "wait", "last", "over"}]
  /\ stopped \subseteq Runs
  /\ clock \in Nat
  /\ down \in Seq(Down) /\ up \in Seq(Up)
  /\ active \in View \cup {NoView}
  /\ recent \subseteq View /\ Cardinality(recent) <= HistoryLimit
  /\ \A v, w \in recent : v.run = w.run => v = w
  /\ dialog \in Runs \cup {"none"}

ViewInit ==
  /\ status = [r \in Runs |-> "absent"] /\ at = [r \in Runs |-> 0]
  /\ approval = [r \in Runs |-> "none"] /\ pc = [r \in Runs |-> "none"]
  /\ stopped = {} /\ clock = 0
  /\ down = <<>> /\ up = <<>> /\ load = NoLoad
  /\ active = NoView /\ recent = {} /\ dialog = "none"
  /\ been = [r \in Runs |-> {}] /\ meant = [r \in Runs |-> {}]
  /\ loads = 0 /\ cancels = 0

-----------------------------------------------------------------------------
(* The API *)

\* updateStatus: the status, whatever it was, and updatedAt.
Becomes(r, s) ==
  /\ status' = [status EXCEPT ![r] = s]
  /\ clock' = clock + 1 /\ at' = [at EXCEPT ![r] = clock + 1]
  /\ been' = [been EXCEPT ![r] = @ \cup {s}]

Goes(r, p) == pc' = [pc EXCEPT ![r] = p]
Tell(ms) == Len(down) < MaxDown /\ down' = down \o ms
StatusMsg(r, s) == [kind |-> "run.status", run |-> r, status |-> s]
Stored(r) == [run |-> r, status |-> status[r], at |-> at[r]]
deskFrame == <<deskVars, up, load, loads>>

\* POST /desktop/runs and POST /runs: the run is saved before run.start is sent.
Create(r) ==
  /\ pc[r] = "none"
  /\ Becomes(r, "queued") /\ Goes(r, "queued")
  /\ UNCHANGED <<approval, stopped, down, deskFrame, cancels>>

\* device.run.accept: the engine of a run that is still queued sends run.details.
Accept(r) ==
  /\ pc[r] = "queued"
  /\ IF status[r] = "queued"
     THEN Goes(r, "details") /\ Tell(<<[kind |-> "run.details", view |-> Stored(r)]>>)
     ELSE Goes(r, "over") /\ UNCHANGED down
  /\ UNCHANGED <<status, at, approval, stopped, clock, been, deskFrame, cancels>>

\* The run is running before the engine looks whether it was stopped.
EngineBegin(r) ==
  /\ pc[r] = "details"
  /\ Becomes(r, "running") /\ Tell(<<StatusMsg(r, "running")>>)
  /\ Goes(r, IF r \in stopped THEN "over" ELSE "work")
  /\ UNCHANGED <<approval, stopped, deskFrame, cancels>>

\* A stopped engine ends between two steps, or between two delays of one.
EngineStops(r) ==
  /\ pc[r] \in {"work", "last"} /\ r \in stopped
  /\ Goes(r, "over")
  /\ UNCHANGED <<status, at, approval, stopped, clock, been, down, deskFrame, cancels>>

\* setPendingApproval, and resolveApproval of the run's approval, pending or not.
SetPendingApproval(r) == approval' = [approval EXCEPT ![r] = "pending"]
ResolveApproval(r, d) == approval' = [approval EXCEPT ![r] = d]

\* The third step asks for the approval, without a look at the flag.
EngineAsk(r) ==
  /\ pc[r] = "work"
  /\ SetPendingApproval(r)
  /\ Becomes(r, "waiting_for_user") /\ Goes(r, "wait")
  /\ Tell(<<StatusMsg(r, "waiting_for_user"), [kind |-> "run.step_blocked", run |-> r],
            [kind |-> "approval.request", run |-> r]>>)
  /\ UNCHANGED <<stopped, deskFrame, cancels>>

\* What waitForApproval returns.  An approved run stays waiting_for_user.
Resume(r, d) ==
  IF r \in stopped
  THEN Goes(r, "over") /\ UNCHANGED <<status, at, clock, been, down>>
  ELSE IF d = "approved"
       THEN Goes(r, "last") /\ UNCHANGED <<status, at, clock, been, down>>
       ELSE Goes(r, "over") /\ Becomes(r, "failed") /\ Tell(<<StatusMsg(r, "failed")>>)

EngineTimeout(r) ==
  /\ pc[r] = "wait"
  /\ Resume(r, "denied")
  /\ UNCHANGED <<approval, stopped, deskFrame, cancels>>

EngineDone(r) ==
  /\ pc[r] = "last" /\ r \notin stopped
  /\ Becomes(r, "done") /\ Goes(r, "over") /\ Tell(<<StatusMsg(r, "done")>>)
  /\ UNCHANGED <<approval, stopped, deskFrame, cancels>>

\* runStore.cancel, and run.canceled to the desktop.
Cancel(r) ==
  /\ Becomes(r, "canceled") /\ Tell(<<[kind |-> "run.canceled", run |-> r]>>)
  /\ IF pc[r] \in {"details", "work", "wait", "last"}
     THEN /\ stopped' = stopped \cup {r}
          /\ IF pc[r] = "wait" THEN Goes(r, "over") ELSE UNCHANGED pc
     ELSE UNCHANGED <<stopped, pc>>

CancelByUser(r) ==
  /\ status[r] \in InProgress
  /\ cancels < MaxCancels /\ cancels' = cancels + 1
  /\ Cancel(r)
  /\ UNCHANGED <<approval, deskFrame>>

CancelByDevice ==
  /\ up # <<>> /\ Head(up).kind = "run.cancel"
  /\ up' = Tail(up)
  /\ LET r == Head(up).run
     IN IF status[r] \in InProgress THEN Cancel(r)
        ELSE UNCHANGED <<status, at, pc, stopped, clock, been, down>>
  /\ UNCHANGED <<approval, deskVars, load, loads, cancels>>

\* Mutant: the decision is taken for the run it names, whichever asked.
DecidesAny(m) == approval[m.run] # "none"

\* device.approval.decision must name the pending approval of the run it names.
Decides(m) == approval[m.run] # "none" /\ m.asked = m.run

ApprovalDecision ==
  /\ up # <<>> /\ Head(up).kind = "approval.decision"
  /\ up' = Tail(up)
  /\ LET m == Head(up)
     IN IF Decides(m) /\ pc[m.run] \in {"details", "work", "wait", "last"} /\ m.run \notin stopped
        THEN /\ ResolveApproval(m.run, m.decision)
             /\ IF pc[m.run] = "wait" THEN Resume(m.run, m.decision)
                ELSE UNCHANGED <<status, at, pc, clock, been, down>>
        ELSE UNCHANGED <<status, at, approval, pc, clock, been, down>>
  /\ UNCHANGED <<stopped, deskVars, load, loads, cancels>>

-----------------------------------------------------------------------------
(* The desktop hears of its runs *)

\* upsertRunHistory: the newest of the listed runs, this one among them.
UpsertRunHistory(run) ==
  LET listed == {v \in recent : v.run # run.run} \cup {run}
  IN {v \in listed : Cardinality({w \in listed : w.at > v.at}) < HistoryLimit}

\* setActiveRun, and the effect that lists the active run.
SetActiveRun(v) ==
  /\ active' = v
  /\ recent' = IF v = NoView THEN recent ELSE UpsertRunHistory(v)

\* The messages about another run than the active one change nothing.
IsAbout(r) == active # NoView /\ active.run = r

ShowStatus(r, s) ==
  IF IsAbout(r) THEN SetActiveRun([active EXCEPT !.status = s]) ELSE UNCHANGED viewVars

Receive(kind) == down # <<>> /\ Head(down).kind = kind /\ down' = Tail(down)
hearFrame == <<apiVars, up, load, meant, loads, cancels>>

OnRunDetails ==
  /\ Receive("run.details") /\ SetActiveRun(Head(down).view)
  /\ UNCHANGED <<hearFrame, dialog>>

OnRunStatus ==
  /\ Receive("run.status") /\ ShowStatus(Head(down).run, Head(down).status)
  /\ UNCHANGED <<hearFrame, dialog>>

OnStepBlocked ==
  /\ Receive("run.step_blocked") /\ ShowStatus(Head(down).run, "waiting_for_user")
  /\ UNCHANGED <<hearFrame, dialog>>

\* The dialog opens for any run, in place of the one that was open.
OnApprovalRequest ==
  /\ Receive("approval.request") /\ ShowStatus(Head(down).run, "waiting_for_user")
  /\ dialog' = Head(down).run
  /\ UNCHANGED hearFrame

\* The dialog of the canceled run stays.
OnRunCanceled ==
  /\ Receive("run.canceled") /\ ShowStatus(Head(down).run, "canceled")
  /\ UNCHANGED <<hearFrame, dialog>>

-----------------------------------------------------------------------------
(* The desktop loads its runs *)

\* The effect runs again: what an earlier request brings is not used.
StartLoad ==
  /\ loads < MaxLoads /\ loads' = loads + 1
  /\ load' = [kind |-> "asked"]
  /\ UNCHANGED <<apiVars, deskVars, down, up, cancels>>

\* GET /desktop/me reads HistoryLimit rows, the newest by the time the run was
\* created, which is not kept here.  A row is the stored run: one that is saved
\* a little late is seen as the answer to an earlier load.
DesktopMe ==
  /\ load.kind = "asked"
  /\ \E rows \in SUBSET {Stored(r) : r \in {q \in Runs : pc[q] # "none"}} :
       /\ Cardinality(rows) <= HistoryLimit
       /\ \A r \in Runs : pc[r] # "none" /\ Stored(r) \notin rows => Cardinality(rows) = HistoryLimit
       /\ load' = [kind |-> "answer", runs |-> rows]
  /\ UNCHANGED <<apiVars, deskVars, down, up, loads, cancels>>

\* The list is what was read; the active run stays if there is one.
LoadAnswered ==
  /\ load.kind = "answer" /\ load' = NoLoad
  /\ IF active # NoView \/ load.runs = {}
     THEN recent' = load.runs /\ UNCHANGED active
     ELSE \E v \in load.runs :
            /\ (\E w \in load.runs : w.status \in InProgress) => v.status \in InProgress
            /\ active' = v /\ recent' = load.runs
  /\ UNCHANGED <<apiVars, dialog, meant, down, up, loads, cancels>>

-----------------------------------------------------------------------------
(* The user *)

\* The buttons: one for every listed run, Cancel Run for a run in progress,
\* Deny and Approve while the dialog is open.
Listed(v)  == v \in recent
CanCancel  == active # NoView /\ active.status \in InProgress
DialogOpen == dialog # "none"

\* handleSelectRecentRun: the run as it is listed.
SelectRecentRun(v) ==
  /\ Listed(v) /\ v # active
  /\ SetActiveRun(v)
  /\ UNCHANGED <<apiVars, dialog, meant, netVars, loads, cancels>>

\* handleApprovalDecision: the approval of the dialog, under the ACTIVE run.
HandleApprovalDecision(d) ==
  /\ DialogOpen /\ active # NoView
  /\ up' = Append(up, [kind |-> "approval.decision", run |-> active.run,
                       asked |-> dialog, decision |-> d])
  /\ dialog' = "none"
  /\ meant' = [meant EXCEPT ![dialog] = @ \cup {d}]
  /\ UNCHANGED <<apiVars, viewVars, down, load, loads, cancels>>

\* handleCancelRun.
HandleCancelRun ==
  /\ CanCancel
  /\ cancels < MaxCancels /\ cancels' = cancels + 1
  /\ up' = Append(up, [kind |-> "run.cancel", run |-> active.run])
  /\ UNCHANGED <<apiVars, deskVars, down, load, loads>>

-----------------------------------------------------------------------------
ApiStep(r) ==
  \/ Create(r) \/ Accept(r) \/ EngineBegin(r) \/ EngineStops(r) \/ EngineAsk(r)
  \/ EngineTimeout(r) \/ EngineDone(r) \/ CancelByUser(r)

DesktopStep ==
  \/ OnRunDetails \/ OnRunStatus \/ OnStepBlocked \/ OnApprovalRequest \/ OnRunCanceled
  \/ StartLoad \/ LoadAnswered
  \/ \E v \in recent : SelectRecentRun(v)
  \/ \E d \in Decision : HandleApprovalDecision(d)
  \/ HandleCancelRun

ViewNext ==
  (\E r \in Runs : ApiStep(r)) \/ CancelByDevice \/ ApprovalDecision \/ DesktopMe \/ DesktopStep

ViewSpec == ViewInit /\ [][ViewNext]_vars

\* The runs are alike.
RunSymmetry == Permutations(Runs)

-----------------------------------------------------------------------------
(* Properties *)

\* Whatever status the desktop shows for a run, as the active one or in its
\* list, the run has had it: a message about one run never marks another,
\* whichever the user selects and whatever a load brings back late.
ShownWasTrue ==
  \A v \in recent \cup ({active} \ {NoView}) : v.status \in been[v.run]

\* An approval is granted or denied only if the user decided so on that
\* approval, although the desktop names another run when another is selected.
ApprovedIsMeant ==
  \A r \in Runs : approval[r] \in Decision => approval[r] \in meant[r]

\* Violated: the step that asks for it waits for the user's approval
\* ("requires your approval to continue"), and once it is given and has
\* arrived the run waits no more.
DecisionIsTaken ==
  \A r \in Runs : pc[r] = "wait" /\ r \notin stopped /\ up = <<>> => meant[r] = {}

\* Violated: with room for every run, a run that is listed under recent
\* activity stays listed ("stays here for quick reference").
HistoryStays ==
  [][Cardinality(Runs) <= HistoryLimit =>
       {v.run : v \in recent} \subseteq {v.run : v \in recent'}]_vars

=============================================================================
