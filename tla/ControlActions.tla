--------------------------- MODULE ControlActions ---------------------------
(***************************************************************************)
(* Remote control of one desktop: an action asked for on the web is stored *)
(* by the API, sent to the desktop, approved there by its user, executed,  *)
(* and reported back; the desktop also reports the actions and tools of    *)
(* its own assistant.  The API handles a report only after an await (the   *)
(* rate limit), so reports of one connection may overtake each other, and  *)
(* it saves every record after another await.                              *)
(***************************************************************************)
EXTENDS Approvals, Naturals, FiniteSets, SequencesExt

CONSTANTS Web,        \* actions asked for on the web
          Own,        \* actions of the desktop's assistant
          Tools,      \* tool calls of the desktop's assistant
          MaxActive,  \* bound: actions that are started
          MaxFaults   \* bound: disconnects, restarts, messages dropped by the rate limit

ASSUME ActionsAssumption == Web \cap (Own \cup Tools) = {} /\ IsFiniteSet(Web)

VARIABLES rec,      \* the API's record of each action (actionStore, toolStore): its status
          row,      \* the row last saved (actionsRepo, toolsRepo)
          saves,    \* saves under way
          post,     \* the POST handler of each action
          cmd,      \* its action.request command: its entry in the stream of the queue
          stray,    \* commands whose XADD was executed but not answered: their entry has no key
          direct,   \* commands that were not queued and are on the socket instead
          item,     \* its approval on the desktop
          payload,  \* actions whose payload App.tsx still holds
          handled,  \* commands the desktop remembers (handledCommandAcks)
          ran,      \* times the desktop executed it, and the last outcome
          control,  \* "Allow Control" on the desktop
          online,   \* the desktop's connection
          wire,     \* reports on their way to the API
          inbox,    \* reports that wait for the rate limit
          faults,
          crossed,  \* history: actions with two saves under way, or reports that met
          hit       \* history: faults that happened

controlVars == <<rec, row, saves, post, cmd, stray, direct, item, payload, handled, ran, control,
                 online, wire, inbox, faults, crossed, hit>>
apiVars == <<rec, row, saves, post>>
deskVars == <<item, payload, handled, ran, control>>
queueVars == <<cmd, stray, direct>>

Actions == Web \cup Own \cup Tools
Started == {a \in Actions : IF a \in Web THEN post[a] # "none" ELSE item[a] # "none"}
Settled == {"executed", "failed", "denied"}
Statuses == {"none", "requested", "awaiting_user", "approved"} \cup Settled

ControlInit ==
  /\ rec = [a \in Actions |-> "none"] /\ row = rec
  /\ saves = {} /\ post = [a \in Web |-> "none"] /\ cmd = [a \in Web |-> "none"]
  /\ stray = {} /\ direct = {}
  /\ item = [a \in Actions |-> "none"] /\ payload = {} /\ handled = {}
  /\ ran = [a \in Actions |-> [times |-> 0, ok |-> FALSE]]
  /\ control = TRUE /\ online = TRUE /\ wire = <<>> /\ inbox = {}
  /\ faults = 0 /\ crossed = {} /\ hit = {}

(* actionStore.setStatus: a finished action keeps its status. *)
SetStatus(a, status) ==
  IF rec[a] \in Settled \cup {"none"} THEN rec[a] ELSE status

(* actionStore.setResult. *)
SetResult(a, ok) == IF rec[a] = "none" THEN "none" ELSE IF ok THEN "executed" ELSE "failed"

(* A new status in memory, and its save started. *)
Record(a, status) ==
  /\ rec' = [rec EXCEPT ![a] = status]
  /\ saves' = IF status = "none" THEN saves ELSE saves \cup {[a |-> a, status |-> status]}
  /\ crossed' = IF \E s \in saves : s.a = a THEN crossed \cup {a} ELSE crossed

(* WsClient.send: nothing is kept for later when the socket is not open. *)
Send(reports) == IF online THEN wire \o reports ELSE wire
Report(a, type, status) == [a |-> a, type |-> type, status |-> status]
SendLost(reports) == IF online \/ reports = <<>> THEN hit ELSE hit \cup {"lost"}

----------------------------------------------------------------------------
(* The API: POST /devices/:deviceId/actions.                                *)

Post(a) ==
  /\ post[a] = "none" /\ Cardinality(Started) < MaxActive
  /\ post' = [post EXCEPT ![a] = "saving"]
  /\ Record(a, "requested")
  /\ UNCHANGED <<row, queueVars, deskVars, online, wire, inbox, faults, hit>>

(* dispatchDeviceCommand: the command is queued; or XADD gives no stream id, whether Redis *)
(* executed it or not, and the command is sent on the socket; or there is no socket        *)
(* either, and the action is recorded as failed.                                           *)
Dispatch(a) ==
  /\ post[a] = "saving" /\ ~\E s \in saves : s.a = a
  /\ \/ /\ cmd' = [cmd EXCEPT ![a] = "queued"]
        /\ post' = [post EXCEPT ![a] = "dispatched"]
        /\ UNCHANGED <<rec, saves, crossed, stray, direct>>
     \/ /\ \/ UNCHANGED <<cmd, stray>>
           \/ cmd' = [cmd EXCEPT ![a] = "queued"] /\ stray' = stray \cup {a}
        /\ \/ /\ online /\ direct' = direct \cup {a}
              /\ post' = [post EXCEPT ![a] = "dispatched"]
              /\ UNCHANGED <<rec, saves, crossed>>
           \/ /\ ~online /\ direct' = direct
              /\ post' = [post EXCEPT ![a] = "failed"]
              /\ Record(a, SetResult(a, FALSE))
  /\ UNCHANGED <<row, deskVars, online, wire, inbox, faults, hit>>

(* Mutant: the status after the dispatch is not saved. *)
AwaitingNotSaved(a) ==
  /\ post[a] = "dispatched"
  /\ post' = [post EXCEPT ![a] = "done"]
  /\ rec' = [rec EXCEPT ![a] = SetStatus(a, "awaiting_user")]
  /\ UNCHANGED <<row, saves, queueVars, deskVars, online, wire, inbox, faults, crossed, hit>>

(* The handler goes on after its dispatch: the desktop may have answered. *)
Awaiting(a) ==
  /\ post[a] = "dispatched"
  /\ post' = [post EXCEPT ![a] = "done"]
  /\ Record(a, SetStatus(a, "awaiting_user"))
  /\ UNCHANGED <<row, queueVars, deskVars, online, wire, inbox, faults, hit>>

SaveLands(s) ==
  /\ saves' = saves \ {s}
  /\ row' = [row EXCEPT ![s.a] = s.status]
  /\ UNCHANGED <<rec, post, queueVars, deskVars, online, wire, inbox, faults, crossed, hit>>

(* A report reaches the API and waits for the rate limit. *)
Arrive ==
  /\ wire # <<>>
  /\ wire' = Tail(wire)
  /\ inbox' = inbox \cup {Head(wire)}
  /\ crossed' = IF \E m \in inbox : m.a = Head(wire).a THEN crossed \cup {Head(wire).a} ELSE crossed
  /\ UNCHANGED <<apiVars, queueVars, deskVars, online, faults, hit>>

(* A report whose rate limit allowed it changes the record. *)
Handles(m, type, status) ==
  /\ m.type = type
  /\ inbox' = inbox \ {m}
  /\ Record(m.a, status)
  /\ UNCHANGED <<row, post, queueVars, deskVars, online, wire, faults, hit>>

(* device.action.ack, device.action.result and device.action.create. *)
HandleAck(m)    == Handles(m, "ack", SetStatus(m.a, m.status))
HandleResult(m) == Handles(m, "result", SetResult(m.a, m.status = "executed"))
HandleCreate(m) == Handles(m, "create", "approved")

(* device.tool.request sets the record there is back to awaiting_user;      *)
(* device.tool.result makes a record if there is none.                      *)
HandleToolRequest(m) == Handles(m, "tool", "awaiting_user")
HandleToolResult(m)  == Handles(m, "toolresult", m.status)

(* device.command.ack: the command is finished; a rejection fails the action. *)
(* ackDeviceCommand ignores an answer to a command it finds no entry key of.  *)
HandleCommandAck(m) ==
  /\ m.type = "cmd"
  /\ inbox' = inbox \ {m}
  /\ IF cmd[m.a] \in {"none", "done"} \/ m.a \in stray
       THEN UNCHANGED <<cmd, rec, saves, crossed>>
       ELSE /\ cmd' = [cmd EXCEPT ![m.a] = "done"]
            /\ IF m.status = "ok" THEN UNCHANGED <<rec, saves, crossed>>
               ELSE Record(m.a, SetResult(m.a, FALSE))
  /\ UNCHANGED <<row, post, stray, direct, deskVars, online, wire, faults, hit>>

(* enforceSocketRateLimit refuses a report: it is dropped. *)
RateLimited(m) ==
  /\ m.type # "cmd" /\ faults < MaxFaults
  /\ faults' = faults + 1 /\ hit' = hit \cup {"lost"}
  /\ inbox' = inbox \ {m}
  /\ UNCHANGED <<apiVars, queueVars, deskVars, online, wire, crossed>>

----------------------------------------------------------------------------
(* The desktop.                                                             *)

(* A command arrives, on the socket or from the queue. *)
Arrives(a) ==
  /\ online
  /\ \/ a \in direct /\ direct' = direct \ {a} /\ cmd' = cmd
     \/ cmd[a] = "queued" /\ cmd' = [cmd EXCEPT ![a] = "sent"] /\ direct' = direct
  /\ stray' = stray

(* Mutant: handledCommandAcks is not consulted. *)
DeliverAgain(a) ==
  /\ Arrives(a)
  /\ handled' = handled \cup {a}
  /\ payload' = payload \cup {a} /\ item' = [item EXCEPT ![a] = "pending"]
  /\ wire' = Send(<<Report(a, "ack", "awaiting_user"), Report(a, "cmd", "ok")>>)
  /\ UNCHANGED <<apiVars, ran, control, online, inbox, faults, crossed, hit>>

(* handleServerCommand for action.request: a command it remembers is only   *)
(* acknowledged again; a new one becomes an approval, canceled at once when *)
(* control is off.                                                          *)
Deliver(a) ==
  /\ Arrives(a)
  /\ handled' = handled \cup {a}
  /\ IF a \in handled
       THEN /\ wire' = Send(<<Report(a, "cmd", IF item[a] = "canceled" THEN "nack" ELSE "ok")>>)
            /\ UNCHANGED <<item, payload>>
       ELSE IF control
       THEN /\ payload' = payload \cup {a} /\ item' = [item EXCEPT ![a] = "pending"]
            /\ wire' = Send(<<Report(a, "ack", "awaiting_user"), Report(a, "cmd", "ok")>>)
       ELSE /\ item' = [item EXCEPT ![a] = Transition("pending", "canceled")]
            /\ wire' = Send(<<Report(a, "result", "failed"), Report(a, "cmd", "nack")>>)
            /\ UNCHANGED payload
  /\ UNCHANGED <<apiVars, ran, control, online, inbox, faults, crossed, hit>>

Approve(a) ==
  LET reports == <<Report(a, "ack", "approved")>> IN
  /\ item[a] = "pending" /\ a \in payload /\ control
  /\ item' = [item EXCEPT ![a] = ApproveAndExecute(item[a])]
  /\ wire' = Send(reports) /\ hit' = SendLost(reports)
  /\ UNCHANGED <<apiVars, queueVars, payload, handled, ran, control, online, inbox, faults, crossed>>

(* executeAction comes back: the outcome is recorded and reported. *)
Executed(a, ok) ==
  LET reports == <<Report(a, "result", IF ok THEN "executed" ELSE "failed")>> IN
  /\ item[a] = "executing" /\ a \in payload
  /\ item' = [item EXCEPT ![a] = Transition(item[a], IF ok THEN "executed" ELSE "failed")]
  /\ payload' = payload \ {a}
  /\ ran' = [ran EXCEPT ![a] = [times |-> ran[a].times + 1, ok |-> ok]]
  /\ wire' = Send(reports) /\ hit' = SendLost(reports)
  /\ UNCHANGED <<apiVars, queueVars, handled, control, online, inbox, faults, crossed>>

(* Mutant: an approval that ends without being executed is not reported. *)
EndReportsNothing(a, next) == IF a \in payload /\ next = "denied" THEN <<Report(a, "ack", "denied")>> ELSE <<>>

(* handleApprovalEvent, if the payload is still held. *)
EndReports(a, next) ==
  IF a \notin payload THEN <<>>
  ELSE (IF next = "denied" THEN <<Report(a, "ack", "denied")>> ELSE <<>>)
         \o <<Report(a, "result", "failed")>>

(* The user denies, or the approval's minute is over. *)
EndApproval(a, next) ==
  /\ item[a] = "pending"
  /\ item' = [item EXCEPT ![a] = Transition(item[a], next)]
  /\ payload' = payload \ {a}
  /\ wire' = Send(EndReports(a, next)) /\ hit' = SendLost(EndReports(a, next))
  /\ UNCHANGED <<apiVars, queueVars, handled, ran, control, online, inbox, faults, crossed>>

(* "Allow Control" switched off (also by Stop All): what is pending is      *)
(* canceled, and reported if its payload is still held.                     *)
ControlOff ==
  LET ending == {a \in Web : item[a] = "pending"} IN
  /\ control
  /\ control' = FALSE
  /\ item' = EndPending(item, "canceled")
  /\ payload' = payload \ ending
  /\ \E order \in SetToSeqs(ending \cap payload) :
       LET reports == [i \in DOMAIN order |-> Report(order[i], "result", "failed")]
       IN wire' = Send(reports) /\ hit' = SendLost(reports)
  /\ UNCHANGED <<apiVars, queueVars, handled, ran, online, inbox, faults, crossed>>

ControlOn ==
  /\ ~control /\ control' = TRUE
  /\ UNCHANGED <<apiVars, queueVars, item, payload, handled, ran, online, wire, inbox, faults, crossed, hit>>

(* approveAction and approveTool of the assistant: the create or request    *)
(* goes out, and when the execution comes back its result.                  *)
OwnStart(a) ==
  LET reports == <<Report(a, IF a \in Tools THEN "tool" ELSE "create", "approved")>> IN
  /\ item[a] = "none" /\ Cardinality(Started) < MaxActive
  /\ item' = [item EXCEPT ![a] = "executing"]
  /\ wire' = Send(reports) /\ hit' = SendLost(reports)
  /\ UNCHANGED <<apiVars, queueVars, payload, handled, ran, control, online, inbox, faults, crossed>>

OwnDone(a, ok) ==
  LET reports == <<Report(a, IF a \in Tools THEN "toolresult" ELSE "result",
                          IF ok THEN "executed" ELSE "failed")>> IN
  /\ item[a] = "executing"
  /\ item' = [item EXCEPT ![a] = IF ok THEN "executed" ELSE "failed"]
  /\ ran' = [ran EXCEPT ![a] = [times |-> 1, ok |-> ok]]
  /\ wire' = Send(reports) /\ hit' = SendLost(reports)
  /\ UNCHANGED <<apiVars, queueVars, payload, handled, control, online, inbox, faults, crossed>>

----------------------------------------------------------------------------
(* Faults.                                                                  *)

(* A command that was sent and not acknowledged goes out again.             *)
Unacked == [a \in Web |-> IF cmd[a] = "sent" THEN "queued" ELSE cmd[a]]

Disconnect ==
  /\ online /\ faults < MaxFaults
  /\ faults' = faults + 1 /\ online' = FALSE
  /\ hit' = IF direct # {} \/ \E i \in DOMAIN wire : wire[i].type # "cmd"
              THEN hit \cup {"lost"} ELSE hit
  /\ wire' = <<>> /\ direct' = {} /\ cmd' = Unacked
  /\ UNCHANGED <<apiVars, stray, deskVars, inbox, crossed>>

Reconnect ==
  /\ ~online /\ online' = TRUE
  /\ UNCHANGED <<apiVars, queueVars, deskVars, wire, inbox, faults, crossed, hit>>

(* The desktop starts again: approvals come back as they were persisted,    *)
(* their payloads and the remembered commands do not.                       *)
DesktopRestart ==
  /\ faults < MaxFaults /\ faults' = faults + 1
  /\ hit' = hit \cup {"desktop"}
  /\ payload' = {} /\ handled' = {} /\ wire' = <<>> /\ online' = FALSE
  /\ direct' = {} /\ cmd' = Unacked
  /\ UNCHANGED <<apiVars, stray, item, ran, control, inbox, crossed>>

(* The API starts again: records are loaded from the rows. *)
ApiRestart ==
  /\ faults < MaxFaults /\ faults' = faults + 1
  /\ hit' = hit \cup {"api"}
  /\ rec' = row /\ saves' = {} /\ inbox' = {} /\ wire' = <<>> /\ online' = FALSE
  /\ direct' = {} /\ cmd' = Unacked
  /\ post' = [a \in Web |-> IF post[a] \in {"none", "failed"} THEN post[a] ELSE "done"]
  /\ UNCHANGED <<row, stray, deskVars, crossed>>

Api ==
  \/ Arrive
  \/ \E a \in Web : Dispatch(a) \/ Awaiting(a)
  \/ \E s \in saves : SaveLands(s)
  \/ \E m \in inbox : \/ HandleAck(m) \/ HandleResult(m) \/ HandleCreate(m)
                       \/ HandleToolRequest(m) \/ HandleToolResult(m) \/ HandleCommandAck(m)

Desktop ==
  \/ \E a \in Web : \/ Deliver(a) \/ EndApproval(a, "expired")
                    \/ \E ok \in BOOLEAN : Executed(a, ok)
  \/ \E a \in Own \cup Tools, ok \in BOOLEAN : OwnDone(a, ok)
  \/ Reconnect

ControlNext ==
  \/ Api \/ Desktop
  \/ \E a \in Web : Post(a) \/ Approve(a) \/ EndApproval(a, "denied")
  \/ \E a \in Own \cup Tools : OwnStart(a)
  \/ \E m \in inbox : RateLimited(m)
  \/ ControlOff \/ ControlOn \/ Disconnect \/ DesktopRestart \/ ApiRestart

ControlSpec == ControlInit /\ [][ControlNext]_controlVars

----------------------------------------------------------------------------

(* The POST handler takes a lost reply for a command that was not queued.   *)
Misjudged(a) == a \in stray /\ post[a] = "failed"

(* The dashboard is told the truth: an action reported executed was         *)
(* executed, and one reported failed or denied was not, in whatever order   *)
(* acks, results, command rejections and the POST handler meet.  Broken by  *)
(* a restart of the desktop, which forgets what it handled, and, of a       *)
(* failure, by a lost reply of Redis: the command of an action that was     *)
(* answered 503 is in the stream and is executed when the device is back.   *)
RecordTellsTheTruth ==
  \A a \in Web : "desktop" \notin hit =>
    /\ rec[a] = "executed" => ran[a].ok
    /\ rec[a] \in {"failed", "denied"} /\ ~Misjudged(a) => ~ran[a].ok

(* One click on the dashboard is one click on the desktop: a command that   *)
(* is delivered again after a lost acknowledgement is not executed again.   *)
(* A restart of the desktop, which forgets what it handled, lets at most    *)
(* one more execution through.                                              *)
RunsOnce ==
  \A a \in Web : ran[a].times <= 1 + (IF "desktop" \in hit THEN faults ELSE 0)

(* What a restart will load is what the dashboard was told, once the saves  *)
(* have landed; two saves of one action that overlap may land in either     *)
(* order.                                                                   *)
RowFollows == saves = {} => \A a \in Actions : a \in crossed \/ row[a] = rec[a]

(* Every action gets an outcome, because an approval nobody answers expires *)
(* and every end is reported; excused are a lost report, a restart, and     *)
(* reports of the assistant's own actions that overtook each other.         *)
EveryActionSettles ==
  \A a \in Actions :
    rec[a] # "none" ~> rec[a] \in Settled \/ hit # {} \/ (a \notin Web /\ a \in crossed)
=============================================================================
