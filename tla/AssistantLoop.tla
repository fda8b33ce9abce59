--------------------------- MODULE AssistantLoop ---------------------------
(***************************************************************************)
(* The desktop's legacy assistant engines (AiAssistController), the        *)
(* approvals App.tsx makes for their proposals, and the user who starts    *)
(* runs, approves, denies, answers, pauses, resumes and stops.  Every      *)
(* start of a run makes an engine.  assistantEngineRef holds at most one;  *)
(* the others cannot be reached any more, but their loops go on to the     *)
(* next proposal, and their approvals are shown like those of the engine   *)
(* in the ref.  A running runLoop waits for a screenshot or for the model; *)
(* nothing prevents two of one engine.  Proposals are numbered; an         *)
(* approval remembers the proposal it was made for, but approveAction()    *)
(* executes the one that is current in the engine of the ref.              *)
(***************************************************************************)
EXTENDS Approvals, Naturals, Sequences

CONSTANTS MaxStarts,     \* bound: runs that are started
          MaxProposals,  \* bound: proposals of the model
          MaxPauses,     \* bound: pauses
          MaxActions     \* constraints.maxActions

ASSUME AssistantBoundsAssumption ==
  MaxStarts \in Nat /\ MaxProposals \in Nat /\ MaxPauses \in Nat

VARIABLES eng,        \* the engines; one not made yet is idle
          engine,     \* the one in assistantEngineRef (0: null)
          startingRun,   \* assistantStartingRunIdRef: the start it names (0: null)
          begun,      \* starts so far
          checks,     \* starts whose provider App.tsx checks
          keys,       \* engines whose start() checks the provider again
          asked,      \* proposals received so far
          exec,       \* executions under way: proposal, approval it was for, engine
          items,      \* approvals in order of creation: state, proposal, kind, engine
          payloads,   \* approvals whose payload App.tsx holds
          pauses,
          performed,  \* history: proposals whose execution began
          silenced,   \* history: engines made before the user stopped or signed out
          mixed       \* history: engines that were Mixed

assistantVars == <<eng, engine, startingRun, begun, checks, keys, asked, exec, items, payloads,
                   pauses, performed, silenced, mixed>>
startVars == <<startingRun, begun, checks, keys>>

Engines == 1..MaxStarts
NoProposal == [p |-> 0, kind |-> "none"]
Ask == [p |-> 0, kind |-> "ask"]
Doable(kind) == kind \in {"action", "tool"}

(* isRunning, status, paused, statusBeforePause, the current proposal, the  *)
(* loops that wait for a screenshot and for the model, actionCount, aborted *)
NewEngine ==
  [running |-> FALSE, status |-> "idle", paused |-> FALSE, before |-> "capturing",
   cur |-> NoProposal, capture |-> 0, think |-> 0, count |-> 0, stopped |-> FALSE]

AssistantInit ==
  /\ eng = [k \in Engines |-> NewEngine]
  /\ engine = 0 /\ startingRun = 0 /\ begun = 0 /\ checks = {} /\ keys = {}
  /\ asked = 0 /\ exec = {} /\ items = <<>> /\ payloads = {} /\ pauses = 0
  /\ performed = {} /\ silenced = {} /\ mixed = {}

Becomes(k, r) == eng' = [j \in Engines |-> IF j = k THEN r ELSE eng[j]]
Pending == {i \in DOMAIN items : items[i].state = "pending"}
Waiting(k) == eng[k].capture + eng[k].think

(* More than one thing of the engine is under way, or it is in the ref      *)
(* while another one still has a loop or an approval.                       *)
Mixed(k) ==
  \/ Waiting(k) > 1
  \/ Waiting(k) = 1 /\ (Doable(eng[k].cur.kind) \/ \E i \in Pending : items[i].by = k)
  \/ k = engine /\ \E j \in Engines \ {k} : Waiting(j) > 0 \/ \E i \in Pending : items[i].by = j

(* resumeLoop: a new runLoop, unless stopped or paused. *)
Resumed(r) ==
  IF r.running /\ ~r.paused /\ ~r.stopped
    THEN [r EXCEPT !.capture = @ + 1, !.status = "capturing"] ELSE r

(* stop(): a loop that waits finds out later. *)
Stopped(r) ==
  IF r.running
    THEN [r EXCEPT !.running = FALSE, !.stopped = TRUE, !.paused = FALSE, !.status = "idle",
                   !.cur = NoProposal]
    ELSE r

(* dismissPendingProposal on whatever is current. *)
Dismissed(r, goesOn) ==
  IF ~Doable(r.cur.kind) THEN r
  ELSE IF goesOn THEN Resumed([r EXCEPT !.cur = NoProposal, !.status = "capturing"])
  ELSE [r EXCEPT !.cur = NoProposal, !.status = IF r.paused THEN "paused" ELSE @]

(* The effect that makes an approval of a proposal awaited, once; it looks  *)
(* at the state any engine showed last.                                     *)
AwaitApproval(k, r) ==
  IF r.status = "awaiting_approval" /\ Doable(r.cur.kind) /\ ~\E i \in payloads : items[i].p = r.cur.p
    THEN /\ items' = Append(items, [state |-> "pending", p |-> r.cur.p, kind |-> r.cur.kind, by |-> k])
         /\ payloads' = payloads \cup {Len(items) + 1}
    ELSE UNCHANGED <<items, payloads>>

(* startAssistantEngine for a run that is not the one of the ref: an engine *)
(* that is there is stopped and forgotten, its approvals are not canceled.  *)
Start ==
  /\ begun < MaxStarts
  /\ begun' = begun + 1 /\ startingRun' = begun + 1 /\ checks' = checks \cup {begun + 1}
  /\ IF startingRun # 0 /\ engine # 0
       THEN engine' = 0 /\ Becomes(engine, Stopped(eng[engine]))
       ELSE UNCHANGED <<eng, engine>>
  /\ UNCHANGED <<keys, asked, exec, items, payloads, pauses, performed, silenced>>

(* The provider is configured or not: the engine is made and put in the     *)
(* ref, whatever has happened to the ref in between.                        *)
ProviderChecked(k, ok) ==
  /\ k \in checks
  /\ checks' = checks \ {k}
  /\ IF ok THEN engine' = k /\ keys' = keys \cup {k} ELSE UNCHANGED <<engine, keys>>
  /\ UNCHANGED <<eng, startingRun, begun, asked, exec, items, payloads, pauses, performed, silenced>>

(* The engine's start() after its own check: the loop begins. A failed one  *)
(* empties the ref, whichever engine is there.                              *)
KeyChecked(k, ok) ==
  /\ k \in keys
  /\ keys' = keys \ {k}
  /\ IF ok THEN Becomes(k, Resumed([eng[k] EXCEPT !.running = TRUE])) /\ UNCHANGED <<engine, startingRun>>
           ELSE engine' = 0 /\ startingRun' = (IF startingRun = k THEN 0 ELSE startingRun) /\ UNCHANGED eng
  /\ UNCHANGED <<begun, checks, asked, exec, items, payloads, pauses, performed, silenced>>

(* The screenshot is there.  Only the pause is looked at. *)
Captured(k) ==
  /\ eng[k].capture > 0
  /\ Becomes(k, IF eng[k].paused THEN [eng[k] EXCEPT !.capture = @ - 1]
                ELSE [eng[k] EXCEPT !.capture = @ - 1, !.think = @ + 1, !.status = "thinking"])
  /\ UNCHANGED <<engine, startVars, asked, exec, items, payloads, pauses, performed, silenced>>

StatusAfter(kind) ==
  CASE kind = "done" -> "done" [] kind = "ask" -> "asking_user"
    [] Doable(kind) -> "awaiting_approval" [] OTHER -> "capturing"

(* The model has answered; neither a pause nor a stop is looked at.  A read *)
(* of the application's own state is executed without approval.             *)
Proposed(k, kind) ==
  LET more == kind = "read" /\ eng[k].running /\ ~eng[k].paused
      r == [eng[k] EXCEPT !.think = @ - 1, !.capture = @ + (IF more THEN 1 ELSE 0),
                          !.cur = IF kind = "read" THEN NoProposal ELSE [p |-> asked + 1, kind |-> kind],
                          !.status = StatusAfter(kind), !.running = @ /\ kind # "done"]
  IN /\ eng[k].think > 0 /\ asked < MaxProposals
     /\ asked' = asked + 1
     /\ Becomes(k, r) /\ AwaitApproval(k, r)
     /\ UNCHANGED <<engine, startVars, exec, pauses, performed, silenced>>

(* The screenshot or the model fails: the loop ends with a question, and    *)
(* setError has also ended a pause.                                         *)
LoopFails(k, wait) ==
  LET r == IF wait = "capture" THEN [eng[k] EXCEPT !.capture = @ - 1] ELSE [eng[k] EXCEPT !.think = @ - 1]
  IN /\ eng[k][wait] > 0
     /\ Becomes(k, IF r.stopped THEN r ELSE [r EXCEPT !.status = "asking_user", !.paused = FALSE, !.cur = Ask])
     /\ UNCHANGED <<engine, startVars, asked, exec, items, payloads, pauses, performed, silenced>>

(* Mutant: an approval that was given can be given again. *)
IsNextGiven(i) ==
  \A j \in 1..(i - 1) : items[j].state = "pending" => items[j].kind # items[i].kind

(* getNextPendingApproval: the oldest of its kind. *)
IsNext(i) ==
  /\ items[i].state = "pending"
  /\ \A j \in 1..(i - 1) : items[j].state = "pending" => items[j].kind # items[i].kind

(* handleAiApproveAction, handleAiApproveTool: the approval moves on and    *)
(* the engine of the ref executes its current proposal, if it awaits one of *)
(* this kind; whether it runs is not looked at.                             *)
Approve(i) ==
  LET r == eng[engine]
      goes == r.status = "awaiting_approval" /\ r.cur.kind = items[i].kind
  IN /\ engine # 0 /\ IsNext(i)
     /\ items' = [items EXCEPT ![i].state =
                    IF goes THEN ApproveAndExecute(@) ELSE Transition(ApproveAndExecute(@), "failed")]
     /\ IF goes THEN /\ Becomes(engine, [r EXCEPT !.status = "executing"])
                     /\ exec' = exec \cup {[p |-> r.cur.p, via |-> i, by |-> engine]}
                     /\ performed' = performed \cup {r.cur.p} /\ UNCHANGED payloads
                ELSE payloads' = payloads \ {i} /\ UNCHANGED <<eng, exec, performed>>
     /\ UNCHANGED <<engine, startVars, asked, pauses, silenced>>

ApproveAction(i) == items[i].kind = "action" /\ Approve(i)
ApproveTool(i)   == items[i].kind = "tool" /\ Approve(i)

(* The execution comes back. The next iteration follows, or a question: the *)
(* limit is reached or the execution failed.                                *)
Executed(e, ok) ==
  LET r == [eng[e.by] EXCEPT !.count = IF ok THEN @ + 1 ELSE @] IN
  /\ exec' = exec \ {e}
  /\ items' = [items EXCEPT ![e.via].state = Transition(@, IF ok THEN "executed" ELSE "failed")]
  /\ payloads' = payloads \ {e.via}
  /\ Becomes(e.by, IF ok /\ r.count < MaxActions
                     THEN Resumed([r EXCEPT !.status = "capturing", !.cur = NoProposal])
                     ELSE [r EXCEPT !.status = "asking_user", !.cur.kind = "ask"])
  /\ UNCHANGED <<engine, startVars, asked, pauses, performed, silenced>>

Cancel(gone) ==
  items' = [i \in DOMAIN items |-> [items[i] EXCEPT !.state = IF i \in gone THEN Transition(@, "canceled") ELSE @]]

(* An approval that ends without an execution dismisses the proposal of the *)
(* engine in the ref, whichever engine it was made for.                     *)
DismissCurrent(gone, goesOn) ==
  Becomes(engine, IF gone \cap payloads # {} THEN Dismissed(eng[engine], goesOn) ELSE eng[engine])

(* The user denies; when the minute is over the same happens. *)
Refuse(i) ==
  /\ items[i].state = "pending"
  /\ items' = [items EXCEPT ![i].state = Transition(@, "denied")]
  /\ payloads' = payloads \ {i}
  /\ DismissCurrent({i}, TRUE)
  /\ UNCHANGED <<engine, startVars, asked, exec, pauses, performed, silenced>>

(* pause(), from the controller, the tray, the screen preview switch or     *)
(* Stop All; the pending approvals are canceled without going on.           *)
Pause ==
  LET r == [eng[engine] EXCEPT !.paused = TRUE, !.before = eng[engine].status, !.status = "paused"] IN
  /\ engine # 0 /\ eng[engine].running /\ ~eng[engine].paused /\ pauses < MaxPauses
  /\ pauses' = pauses + 1
  /\ Cancel(Pending) /\ payloads' = payloads \ Pending
  /\ Becomes(engine, IF Pending \cap payloads # {} THEN Dismissed(r, FALSE) ELSE r)
  /\ UNCHANGED <<engine, startVars, asked, exec, performed, silenced>>

(* The preview is turned off from the tray, or Stop All meets an engine     *)
(* that is not running: the same without a pause.                           *)
PreviewOff ==
  /\ Pending # {}
  /\ Cancel(Pending) /\ payloads' = payloads \ Pending
  /\ DismissCurrent(Pending, FALSE)
  /\ UNCHANGED <<engine, startVars, asked, exec, pauses, performed, silenced>>

(* resume(): a loop is started if the pause interrupted one. *)
Resume ==
  LET r == [eng[engine] EXCEPT !.paused = FALSE, !.status = eng[engine].before]
      s == IF r.before \in {"capturing", "thinking"} THEN Resumed(r) ELSE r
  IN /\ engine # 0 /\ eng[engine].running /\ eng[engine].paused
     /\ Becomes(engine, s) /\ AwaitApproval(engine, s)
     /\ UNCHANGED <<engine, startVars, asked, exec, pauses, performed, silenced>>

(* userResponse(): a word like "stop" ends the task. *)
Respond(ends) ==
  /\ engine # 0 /\ eng[engine].status = "asking_user"
  /\ Becomes(engine, IF ends THEN [eng[engine] EXCEPT !.status = "done", !.running = FALSE]
                     ELSE Resumed([eng[engine] EXCEPT !.status = "capturing", !.cur = NoProposal]))
  /\ UNCHANGED <<engine, startVars, asked, exec, items, payloads, pauses, performed, silenced>>

(* The workspace is cleared: the approvals of tools that wait are canceled; *)
(* or one is found when the user approves it. The engine goes on.           *)
WorkspaceCleared(gone) ==
  /\ gone # {}
  /\ Cancel(gone) /\ payloads' = payloads \ gone
  /\ DismissCurrent(gone, TRUE)
  /\ UNCHANGED <<engine, startVars, asked, exec, pauses, performed, silenced>>

PendingTools == {i \in Pending : items[i].kind = "tool"}
NextTool == {i \in PendingTools : IsNext(i)}

Silence == silenced' = silenced \cup ((1..begun) \ checks)

(* Mutant: the engine stays in its ref. *)
StopKeepsEngine ==
  /\ startingRun # 0 \/ engine # 0
  /\ startingRun' = 0 /\ UNCHANGED engine
  /\ Cancel(Pending) /\ payloads' = payloads \ Pending
  /\ Becomes(engine, Stopped(IF Pending \cap payloads # {} THEN Dismissed(eng[engine], FALSE) ELSE eng[engine]))
  /\ Silence
  /\ UNCHANGED <<begun, checks, keys, asked, exec, pauses, performed>>

(* handleStopAi: the pending approvals are canceled, the engine is stopped  *)
(* and forgotten. A start that waits is not: it makes its engine later.     *)
Stop ==
  /\ startingRun # 0 \/ engine # 0
  /\ startingRun' = 0 /\ engine' = 0
  /\ Cancel(Pending) /\ payloads' = payloads \ Pending
  /\ Becomes(engine, Stopped(IF Pending \cap payloads # {} THEN Dismissed(eng[engine], FALSE) ELSE eng[engine]))
  /\ Silence
  /\ UNCHANGED <<begun, checks, keys, asked, exec, pauses, performed>>

(* The desktop signs out: a canceled approval makes the engine go on, which *)
(* is stopped then, and forgotten with what was to be approved.             *)
SignOut ==
  /\ startingRun # 0 \/ engine # 0
  /\ startingRun' = 0 /\ engine' = 0
  /\ Cancel(Pending) /\ payloads' = {}
  /\ Becomes(engine, Stopped(IF Pending \cap payloads # {} THEN Dismissed(eng[engine], TRUE) ELSE eng[engine]))
  /\ Silence
  /\ UNCHANGED <<begun, checks, keys, asked, exec, pauses, performed>>

(* onRunCanceled, handleCancelRun: the run was canceled by the server or by *)
(* the user's Cancel. The engine is stopped but stays in the ref, and its   *)
(* approvals stay pending.                                                  *)
RunCanceled ==
  /\ startingRun # 0 \/ engine # 0
  /\ startingRun' = 0
  /\ Becomes(engine, Stopped(eng[engine]))
  /\ UNCHANGED <<engine, begun, checks, keys, asked, exec, items, payloads, pauses, performed, silenced>>

AssistantStep ==
  \/ Start \/ Pause \/ PreviewOff \/ Resume \/ Stop \/ SignOut \/ RunCanceled
  \/ WorkspaceCleared(PendingTools) \/ WorkspaceCleared(NextTool)
  \/ \E k \in Engines, ok \in BOOLEAN : ProviderChecked(k, ok) \/ KeyChecked(k, ok)
  \/ \E k \in Engines : Captured(k) \/ \E wait \in {"capture", "think"} : LoopFails(k, wait)
  \/ \E k \in Engines, kind \in {"action", "tool", "ask", "read", "done"} : Proposed(k, kind)
  \/ \E i \in DOMAIN items : ApproveAction(i) \/ ApproveTool(i) \/ Refuse(i)
  \/ \E e \in exec, ok \in BOOLEAN : Executed(e, ok)
  \/ \E ends \in BOOLEAN : Respond(ends)

AssistantNext == AssistantStep /\ mixed' = mixed \cup {k \in Engines : Mixed(k)'}

AssistantSpec == AssistantInit /\ [][AssistantNext]_assistantVars

----------------------------------------------------------------------------

Statuses == {"idle", "capturing", "thinking", "awaiting_approval", "executing", "asking_user", "paused", "done"}

EngineType ==
  [running : BOOLEAN, status : Statuses, paused : BOOLEAN, before : Statuses \ {"paused"},
   cur : [p : 0..MaxProposals, kind : {"none", "action", "tool", "ask", "done"}],
   capture : Nat, think : Nat, count : Nat, stopped : BOOLEAN]

(* Types of the engines, their starts and the approvals. *)
AssistantTypeOK ==
  /\ eng \in [Engines -> EngineType]
  /\ engine \in 0..begun /\ startingRun \in 0..begun /\ begun \in 0..MaxStarts
  /\ checks \subseteq 1..begun /\ keys \subseteq 1..begun
  /\ items \in Seq([state : ApprovalStates, p : 1..MaxProposals, kind : {"action", "tool"}, by : Engines])
  /\ exec \subseteq [p : 1..MaxProposals, via : DOMAIN items, by : Engines]
  /\ payloads \subseteq DOMAIN items
  /\ asked \in 0..MaxProposals /\ pauses \in 0..MaxPauses
  /\ performed \subseteq 1..asked /\ silenced \subseteq (1..begun) \ checks /\ mixed \subseteq Engines

(* README.md:375 "Every action requires explicit local approval": what is   *)
(* executed is the proposal whose approval the user gave, and never one     *)
(* that was executed before, unless the engine was Mixed: a resumed loop    *)
(* met one that was still waiting or had just proposed, or the engine came  *)
(* into the ref while another one had a loop or an approval left.           *)
ApprovedIsExecutedOnce ==
  [][\A e \in exec' \ exec :
       e.by \notin mixed => e.p \notin performed /\ items[e.via].p = e.p]_assistantVars

(* Whatever the user approves after Stop or a sign-out, none of the engines *)
(* made before executes it, although a loop that was waiting goes on to     *)
(* propose and an approval is made for it, and one whose start() was        *)
(* waiting starts after all.                                                *)
NothingAfterStop == [][\A e \in exec' \ exec : e.by \notin silenced]_assistantVars
=============================================================================
