------------------------ MODULE ControlActionsProofs ------------------------
(***************************************************************************)
(* Proofs about ControlActions, for any numbers of actions and faults.     *)
(***************************************************************************)
EXTENDS ControlActions, SequenceTheorems, FiniteSetTheorems, TLAPS

ItemTyped == item \in [Actions -> ApprovalStates]
RanTyped  == ran \in [Actions -> [times : Nat, ok : BOOLEAN]]
HistoryTyped == faults \in Nat

\* What restarts of the desktop may have let through.
Excused == IF "desktop" \in hit THEN faults ELSE 0

\* A payload is held for a command the desktop remembers.  An action of the web
\* has been executed once more than is excused only if its command is remembered
\* and its approval is at its end.
Once(a) ==
  /\ a \in payload => a \in handled
  /\ ran[a].times <= 1 + Excused
  /\ a \notin handled \/ item[a] \notin Ended => ran[a].times <= Excused

\* The inductive invariant.
OnceInv == ItemTyped /\ RanTyped /\ HistoryTyped /\ \A a \in Web : Once(a)

\* transitionApprovalState, by the state it is called in.
LEMMA TransitionFacts ==
  /\ \A s, n \in ApprovalStates : Transition(s, n) \in ApprovalStates
  /\ \A n \in {"denied", "expired", "canceled"} : Transition("pending", n) = n
  /\ \A n \in {"executed", "failed"} : Transition("executing", n) = n
  /\ ApproveAndExecute("pending") = "executing"
BY DEF Transition, Allowed, ApprovalStates, ApproveAndExecute

\* Faults and restarts are only added to.
HistoryGrows == faults' \in Nat /\ faults <= faults' /\ hit \subseteq hit'

LEMMA ExcusedGrows ==
  ASSUME OnceInv, HistoryGrows
  PROVE  Excused \in Nat /\ Excused' \in Nat /\ Excused <= Excused'
BY DEF OnceInv, HistoryTyped, HistoryGrows, Excused

\* A step that leaves the approvals of the web, and what ran, as they are.
LEMMA Untouched ==
  ASSUME OnceInv, HistoryGrows, ItemTyped', RanTyped', UNCHANGED <<handled, payload>>,
         \A a \in Web : item'[a] = item[a] /\ ran'[a] = ran[a]
  PROVE  OnceInv'
<1>1. ASSUME NEW a \in Web PROVE Once(a)'
  <2>1. ran[a].times \in Nat
    BY DEF OnceInv, RanTyped, Actions
  <2> QED BY <2>1, ExcusedGrows DEF OnceInv, Once
<1> QED BY <1>1 DEF OnceInv, HistoryGrows, HistoryTyped

\* A step of one approval of the web.
LEMMA OneMoves ==
  ASSUME OnceInv, NEW a \in Web, NEW state \in ApprovalStates, NEW r \in [times : Nat, ok : BOOLEAN],
         item' = [item EXCEPT ![a] = state], ran' = [ran EXCEPT ![a] = r],
         HistoryGrows, handled \subseteq handled', handled' \subseteq handled \cup {a},
         payload' \subseteq payload \cup {a}, a \in payload' => a \in handled',
         r.times <= 1 + Excused,
         a \notin handled' \/ state \notin Ended => r.times <= Excused
  PROVE  OnceInv'
<1>1. a \in Actions
  BY DEF Actions
<1>2. /\ ItemTyped' /\ RanTyped' /\ item'[a] = state /\ ran'[a] = r
      /\ \A b \in Web \ {a} : item'[b] = item[b] /\ ran'[b] = ran[b]
  BY <1>1 DEF OnceInv, ItemTyped, RanTyped, Actions
<1>3. ASSUME NEW b \in Web PROVE Once(b)'
  <2>1. Once(b) /\ ran[b].times \in Nat
    BY DEF OnceInv, RanTyped, Actions
  <2>2. CASE b = a
    BY <1>2, <2>2, ExcusedGrows DEF Once
  <2>3. CASE b # a
    BY <1>2, <2>1, <2>3, ExcusedGrows DEF Once
  <2> QED BY <2>2, <2>3
<1> QED BY <1>2, <1>3 DEF OnceInv, HistoryGrows, HistoryTyped

\* The steps of the API and of the network leave the desktop as it is.
LEMMA ApiSteps ==
  ASSUME OnceInv,
         Api \/ Disconnect \/ Reconnect \/ ApiRestart \/ ControlOn
         \/ (\E a \in Web : Post(a)) \/ (\E m \in inbox : RateLimited(m))
  PROVE  UNCHANGED <<item, ran, handled, payload>> /\ HistoryGrows
<1>0. faults \in Nat
  BY DEF OnceInv, HistoryTyped
<1>1. CASE Api
  <2>1. UNCHANGED <<deskVars, hit, faults>>
    BY <1>1 DEF Api, Arrive, Dispatch, Awaiting, SaveLands, HandleAck, HandleResult, HandleCreate,
                HandleToolRequest, HandleToolResult, HandleCommandAck, Handles
  <2> QED BY <1>0, <2>1 DEF deskVars, HistoryGrows
<1>2. CASE \E a \in Web : Post(a)
  BY <1>0, <1>2 DEF Post, deskVars, HistoryGrows
<1>3. CASE Disconnect \/ ApiRestart
  <2>1. UNCHANGED deskVars /\ faults' = faults + 1 /\ hit \subseteq hit'
    BY <1>3 DEF Disconnect, ApiRestart
  <2> QED BY <1>0, <2>1 DEF deskVars, HistoryGrows
<1>4. CASE Reconnect \/ ControlOn
  BY <1>0, <1>4 DEF Reconnect, ControlOn, deskVars, HistoryGrows
<1>5. CASE \E m \in inbox : RateLimited(m)
  BY <1>0, <1>5 DEF RateLimited, deskVars, HistoryGrows
<1> QED BY <1>1, <1>2, <1>3, <1>4, <1>5

\* A report that cannot be sent leaves a trace.
LEMMA SendLostGrows ==
  ASSUME OnceInv, faults' = faults, NEW reports, hit' = hit \/ hit' = SendLost(reports)
  PROVE  HistoryGrows
BY DEF SendLost, OnceInv, HistoryTyped, HistoryGrows

\* The steps of the desktop with an action of the web.
LEMMA WebSteps ==
  ASSUME OnceInv, NEW a \in Web,
         \/ Deliver(a) \/ Approve(a) \/ (\E ok \in BOOLEAN : Executed(a, ok))
         \/ (\E next \in {"denied", "expired"} : EndApproval(a, next))
  PROVE  OnceInv'
<1>0. a \in Actions
  BY DEF Actions
<1>1. item \in [Actions -> ApprovalStates] /\ item[a] \in ApprovalStates
  BY <1>0 DEF OnceInv, ItemTyped
<1>2. ran \in [Actions -> [times : Nat, ok : BOOLEAN]] /\ ran[a] \in [times : Nat, ok : BOOLEAN]
  BY <1>0 DEF OnceInv, RanTyped
<1>3. ran = [ran EXCEPT ![a] = ran[a]] /\ item = [item EXCEPT ![a] = item[a]]
  BY <1>1, <1>2
<1>4. Once(a) /\ Excused \in Nat
  BY DEF OnceInv, Excused, HistoryTyped
<1>5. CASE Deliver(a)
  <2>1. ran' = ran /\ hit' = hit /\ handled' = handled \cup {a} /\ faults' = faults
    BY <1>5 DEF Deliver
  <2>2. HistoryGrows
    BY <2>1 DEF OnceInv, HistoryTyped, HistoryGrows
  <2>3. CASE a \in handled
    <3>1. item' = item /\ payload' = payload /\ handled' = handled
      BY <1>5, <2>1, <2>3 DEF Deliver
    <3> QED BY <2>1, <2>2, <3>1, Untouched DEF OnceInv, ItemTyped, RanTyped
  <2>4. CASE a \notin handled
    <3>1. PICK state \in {"pending", "canceled"} : item' = [item EXCEPT ![a] = state]
      BY <1>5, <2>4, TransitionFacts DEF Deliver
    <3>2. payload' \subseteq payload \cup {a}
      BY <1>5, <2>4 DEF Deliver
    <3>3. ran[a].times <= Excused /\ ran[a].times <= 1 + Excused
      BY <1>4, <2>4 DEF Once
    <3>4. state \in ApprovalStates
      BY DEF ApprovalStates
    <3> QED BY <1>2, <1>3, <2>1, <2>2, <3>1, <3>2, <3>3, <3>4, OneMoves
  <2> QED BY <2>3, <2>4
<1>6. CASE Approve(a)
  <2>1. /\ item[a] = "pending" /\ item' = [item EXCEPT ![a] = "executing"]
        /\ UNCHANGED <<ran, handled, payload, faults>>
    BY <1>6, TransitionFacts DEF Approve
  <2>2. HistoryGrows
    BY <1>6, <2>1, SendLostGrows DEF Approve
  <2>3. ran[a].times <= Excused /\ ran[a].times <= 1 + Excused /\ (a \in payload' => a \in handled')
    BY <1>4, <2>1 DEF Once, Ended
  <2>4. "executing" \in ApprovalStates
    BY DEF ApprovalStates
  <2> QED BY <1>2, <1>3, <2>1, <2>2, <2>3, <2>4, OneMoves
<1>7. ASSUME NEW ok \in BOOLEAN, Executed(a, ok) PROVE OnceInv'
  <2>1. PICK state \in {"executed", "failed"} : item' = [item EXCEPT ![a] = state]
    BY <1>7, TransitionFacts DEF Executed
  <2> DEFINE r == [times |-> ran[a].times + 1, ok |-> ok]
  <2>2. /\ item[a] = "executing" /\ a \in payload /\ payload' = payload \ {a}
        /\ ran' = [ran EXCEPT ![a] = r] /\ handled' = handled /\ faults' = faults
    BY <1>7 DEF Executed
  <2>3. HistoryGrows
    BY <1>7, <2>2, SendLostGrows DEF Executed
  <2>4. a \in handled /\ ran[a].times <= Excused
    BY <1>4, <2>2 DEF Once, Ended
  <2>5. r \in [times : Nat, ok : BOOLEAN] /\ r.times <= 1 + Excused
    BY <1>2, <1>4, <2>4
  <2>6. state \in ApprovalStates /\ state \in Ended
    BY DEF ApprovalStates, Ended
  <2> HIDE DEF r
  <2> QED BY <2>1, <2>2, <2>3, <2>4, <2>5, <2>6, OneMoves
<1>8. ASSUME NEW next \in {"denied", "expired"}, EndApproval(a, next) PROVE OnceInv'
  <2>1. /\ item[a] = "pending" /\ item' = [item EXCEPT ![a] = next] /\ payload' = payload \ {a}
        /\ UNCHANGED <<ran, handled, faults>>
    BY <1>8, TransitionFacts DEF EndApproval
  <2>2. HistoryGrows
    BY <1>8, <2>1, SendLostGrows DEF EndApproval
  <2>3. ran[a].times <= Excused /\ ran[a].times <= 1 + Excused
    BY <1>4, <2>1 DEF Once, Ended
  <2>4. next \in ApprovalStates
    BY DEF ApprovalStates
  <2> QED BY <1>2, <1>3, <2>1, <2>2, <2>3, <2>4, OneMoves
<1> QED BY <1>5, <1>6, <1>7, <1>8

\* Control switched off: only pending approvals move, and those may still run.
LEMMA ControlOffKeeps ==
  ASSUME OnceInv, ControlOff
  PROVE  OnceInv'
<1>1. /\ item' = EndPending(item, "canceled") /\ payload' \subseteq payload
      /\ UNCHANGED <<ran, handled, faults>>
  BY DEF ControlOff
<1>2. HistoryGrows
  BY <1>1, SendLostGrows DEF ControlOff
<1>3. item \in [Actions -> ApprovalStates] /\ "canceled" \in ApprovalStates
  BY DEF OnceInv, ItemTyped, ApprovalStates
<1>4. item' = [i \in Actions |-> IF item[i] = "pending" THEN "canceled" ELSE item[i]]
  BY <1>1, <1>3, TransitionFacts DEF EndPending
<1>5. ItemTyped' /\ RanTyped' /\ HistoryTyped'
  BY <1>1, <1>2, <1>3, <1>4 DEF OnceInv, ItemTyped, RanTyped, HistoryTyped, HistoryGrows
<1>6. ASSUME NEW a \in Web PROVE Once(a)'
  <2>1. Once(a) /\ a \in Actions /\ ran[a].times \in Nat
    BY DEF OnceInv, Actions, RanTyped
  <2>2. item'[a] = IF item[a] = "pending" THEN "canceled" ELSE item[a]
    BY <1>4, <2>1
  <2>3. item'[a] \notin Ended => item[a] \notin Ended
    BY <2>2 DEF Ended
  <2> QED BY <1>1, <1>2, <2>1, <2>3, ExcusedGrows DEF Once
<1> QED BY <1>5, <1>6 DEF OnceInv

\* A restart of the desktop: what is remembered and held is gone, but one more
\* execution is excused.
LEMMA RestartKeeps ==
  ASSUME OnceInv, DesktopRestart
  PROVE  OnceInv'
<1>1. /\ UNCHANGED <<item, ran>> /\ payload' = {} /\ faults' = faults + 1 /\ "desktop" \in hit'
  BY DEF DesktopRestart
<1>2. faults \in Nat /\ Excused \in Nat /\ Excused' = faults + 1 /\ Excused <= faults
  BY <1>1 DEF OnceInv, HistoryTyped, Excused
<1>3. ASSUME NEW a \in Web PROVE Once(a)'
  <2>1. Once(a) /\ ran[a].times \in Nat
    BY DEF OnceInv, RanTyped, Actions
  <2>2. ran[a].times <= Excused'
    BY <1>2, <2>1 DEF Once
  <2>3. ran'[a].times <= Excused' /\ ran'[a].times <= 1 + Excused'
    BY <1>1, <1>2, <2>1, <2>2
  <2> QED BY <1>1, <2>3 DEF Once
<1> QED BY <1>1, <1>2, <1>3 DEF OnceInv, ItemTyped, RanTyped, HistoryTyped

\* The assistant's own actions are no actions of the web.
LEMMA OwnSteps ==
  ASSUME OnceInv, NEW a \in Own \cup Tools, OwnStart(a) \/ (\E ok \in BOOLEAN : OwnDone(a, ok))
  PROVE  OnceInv'
<1>1. a \in Actions /\ a \notin Web
  BY ActionsAssumption DEF Actions
<1>2. HistoryGrows /\ UNCHANGED <<handled, payload>>
  BY SendLostGrows DEF OwnStart, OwnDone
<1>3. PICK state \in ApprovalStates : item' = [item EXCEPT ![a] = state]
  BY DEF OwnStart, OwnDone, ApprovalStates
<1>4. \E ok \in BOOLEAN : ran' = ran \/ ran' = [ran EXCEPT ![a] = [times |-> 1, ok |-> ok]]
  BY DEF OwnStart, OwnDone
<1>5. ItemTyped' /\ \A b \in Web : item'[b] = item[b]
  BY <1>1, <1>3 DEF OnceInv, ItemTyped, Actions
<1>6. RanTyped' /\ \A b \in Web : ran'[b] = ran[b]
  BY <1>1, <1>4 DEF OnceInv, RanTyped, Actions
<1> QED BY <1>2, <1>5, <1>6, Untouched

\* Every step keeps the invariant.
LEMMA NextOnceInv == OnceInv /\ [ControlNext]_controlVars => OnceInv'
<1> SUFFICES ASSUME OnceInv, [ControlNext]_controlVars PROVE OnceInv'
  OBVIOUS
<1>1. ASSUME UNCHANGED <<item, ran, handled, payload>>, HistoryGrows PROVE OnceInv'
  BY <1>1, Untouched DEF OnceInv, ItemTyped, RanTyped
<1>2. CASE UNCHANGED controlVars
  BY <1>1, <1>2 DEF controlVars, HistoryGrows, OnceInv, HistoryTyped
<1> QED BY <1>1, <1>2, ApiSteps, WebSteps, ControlOffKeeps, OwnSteps, RestartKeeps DEF ControlNext, Desktop

LEMMA InitOnceInv == ControlInit => OnceInv
<1> SUFFICES ASSUME ControlInit PROVE OnceInv
  OBVIOUS
<1>1. ItemTyped /\ RanTyped /\ HistoryTyped /\ Excused = 0
  BY DEF ControlInit, ItemTyped, RanTyped, HistoryTyped, Excused, ApprovalStates
<1>2. ASSUME NEW a \in Web PROVE Once(a)
  <2>1. ran[a].times = 0 /\ payload = {}
    BY DEF ControlInit, Actions
  <2> QED BY <1>1, <2>1 DEF Once
<1> QED BY <1>1, <1>2 DEF OnceInv

\* Commands, approvals and executions of the desktop stay as OnceInv says,
\* however many actions are asked for and however the connection fails.
THEOREM OnceInvariance == ControlSpec => []OnceInv
BY InitOnceInv, NextOnceInv, PTL DEF ControlSpec

\* handledCommandAcks and the approval states together keep a command that is
\* delivered twice from being executed twice, but for restarts of the desktop.
THEOREM CommandsRunOnce == ControlSpec => []RunsOnce
<1>1. OnceInv => RunsOnce
  BY DEF OnceInv, Once, Excused, RunsOnce
<1> QED BY <1>1, OnceInvariance, PTL

-----------------------------------------------------------------------------
(* What the records, the rows and the reports say is true.                  *)

\* The reports of the desktop, by who sends them.
Message ==
  [a : Web, type : {"ack"}, status : {"awaiting_user", "approved", "denied"}]
  \cup [a : Actions, type : {"result"}, status : {"executed", "failed"}]
  \cup [a : Web, type : {"cmd"}, status : {"ok", "nack"}]
  \cup [a : Own \cup Tools, type : {"create", "tool"}, status : {"approved"}]
  \cup [a : Own \cup Tools, type : {"toolresult"}, status : {"executed", "failed"}]
OnWay == inbox \cup {wire[i] : i \in DOMAIN wire}

RecordsTyped ==
  /\ rec \in [Actions -> Statuses] /\ row \in [Actions -> Statuses]
  /\ saves \subseteq [a : Actions, status : Statuses \ {"none"}]
  /\ DOMAIN post = Web /\ DOMAIN cmd = Web
  /\ wire \in Seq(Message) /\ inbox \subseteq Message

\* An action of the web has succeeded, or will not any more: its approval is at
\* another end, or it was never sent and never will be.  A misjudged one may.
Sent(a) == cmd[a] # "none" \/ a \in direct
Yes(a) == ran[a].ok
No(a) ==
  /\ ~ran[a].ok
  /\ \/ item[a] \in Ended \ {"executed"}
     \/ item[a] = "none" /\ post[a] \in {"done", "failed"} /\ ~Sent(a)

Told(status, a) ==
  /\ status = "executed" => Yes(a)
  /\ status \in {"failed", "denied"} => No(a) \/ Misjudged(a)
Says(m) == Told(m.status, m.a) /\ (m.status = "nack" => No(m.a))

\* A command comes after its POST, an approval after its command, a report after
\* its approval; what is delivered is remembered; only the end "executed" ran well.
Follows(a) ==
  /\ Sent(a) \/ item[a] # "none" => post[a] \in {"dispatched", "done", "failed"}
  /\ item[a] # "none" <=> a \in handled
  /\ ran[a].ok => item[a] = "executed"

Truth(a) ==
  /\ Follows(a) /\ Told(rec[a], a) /\ Told(row[a], a)
  /\ \A s \in saves : s.a = a => Told(s.status, a)
  /\ \A m \in OnWay : m.a = a => item[a] # "none" /\ Says(m)

\* The inductive invariant; nothing is said after a restart of the desktop.
TruthInv == OnceInv /\ RecordsTyped /\ ("desktop" \notin hit => \A a \in Web : Truth(a))

\* What is said of an action stays true.
Stays(a) ==
  /\ Follows(a)' /\ (Yes(a) => Yes(a)') /\ (No(a) => No(a)') /\ (Misjudged(a) => Misjudged(a)')
  /\ item[a] # "none" => item'[a] # "none"

LEMMA ApiStays ==
  ASSUME TruthInv, NEW a \in Web, Truth(a),
         Api \/ Disconnect \/ Reconnect \/ ApiRestart \/ ControlOn
         \/ (\E b \in Web : Post(b)) \/ (\E m \in inbox : RateLimited(m))
  PROVE  Stays(a)
<1>1. UNCHANGED <<item, ran, handled>>
  BY ApiSteps DEF TruthInv
<1>2. DOMAIN post = Web /\ DOMAIN cmd = Web
  BY DEF TruthInv, RecordsTyped
<1>3. ASSUME UNCHANGED <<queueVars, post>> PROVE Stays(a)
  BY <1>1, <1>3 DEF Truth, Follows, Stays, Yes, No, Sent, Misjudged, queueVars
<1>5. ASSUME NEW b \in Web, Post(b) \/ Dispatch(b) \/ Awaiting(b) PROVE Stays(a)
  <2>1. CASE a # b
    <3>1. /\ cmd'[a] = cmd[a] /\ post'[a] = post[a]
          /\ (a \in direct' <=> a \in direct) /\ (a \in stray' <=> a \in stray)
      BY <1>2, <1>5, <2>1 DEF Post, Dispatch, Awaiting, queueVars
    <3> QED BY <1>1, <3>1 DEF Truth, Follows, Stays, Yes, No, Sent, Misjudged
  <2>2. CASE a = b /\ (Post(b) \/ Dispatch(b))
    <3>1. post[a] \in {"none", "saving"}
      BY <2>2 DEF Post, Dispatch
    <3>2. ~Sent(a) /\ item[a] = "none" /\ ~ran[a].ok /\ a \notin handled
      BY <3>1 DEF Truth, Follows
    <3>3. Sent(a)' => post'[a] \in {"dispatched", "failed"}
      BY <1>2, <2>2, <3>2 DEF Post, Dispatch, Sent, queueVars
    <3> QED BY <1>1, <3>1, <3>2, <3>3 DEF Follows, Stays, Yes, No, Misjudged
  <2>3. CASE a = b /\ Awaiting(b)
    BY <1>1, <1>2, <2>3 DEF Awaiting, Truth, Follows, Stays, Yes, No, Sent, Misjudged, queueVars
  <2> QED BY <1>5, <2>1, <2>2, <2>3
<1>6. ASSUME NEW m \in inbox, HandleCommandAck(m) PROVE Stays(a)
  <2>1. UNCHANGED <<post, stray, direct>> /\ cmd'[a] \in {cmd[a], "done"} /\ (cmd[a] = "none" => cmd'[a] = "none")
    BY <1>2, <1>6 DEF HandleCommandAck
  <2>2. Sent(a)' <=> Sent(a)
    BY <2>1 DEF Sent
  <2> QED BY <1>1, <2>1, <2>2 DEF Truth, Follows, Stays, Yes, No, Misjudged
<1>7. CASE Disconnect \/ ApiRestart
  <2>1. /\ cmd'[a] = (IF cmd[a] = "sent" THEN "queued" ELSE cmd[a]) /\ direct' = {} /\ stray' = stray
        /\ post'[a] = post[a] \/ (post'[a] = "done" /\ post[a] \notin {"none", "failed"})
    BY <1>2, <1>7 DEF Disconnect, ApiRestart, Unacked, apiVars
  <2>2. Sent(a)' => Sent(a)
    BY <2>1 DEF Sent
  <2> QED BY <1>1, <2>1, <2>2 DEF Truth, Follows, Stays, Yes, No, Misjudged
<1>9. CASE Reconnect \/ ControlOn \/ (\E m \in inbox : RateLimited(m))
  BY <1>3, <1>9 DEF Reconnect, ControlOn, RateLimited, apiVars
<1>10. CASE Api
  <2>1. CASE Arrive \/ (\E s \in saves : SaveLands(s))
    BY <1>3, <2>1 DEF Arrive, SaveLands, apiVars
  <2>2. ASSUME NEW m \in inbox, HandleAck(m) \/ HandleResult(m) \/ HandleCreate(m) \/ HandleToolRequest(m) \/ HandleToolResult(m)
        PROVE  Stays(a)
    BY <1>3, <2>2 DEF HandleAck, HandleResult, HandleCreate, HandleToolRequest, HandleToolResult, Handles
  <2> QED BY <1>5, <1>6, <1>10, <2>1, <2>2 DEF Api
<1> QED BY <1>5, <1>7, <1>9, <1>10

LEMMA OwnStays ==
  ASSUME TruthInv, NEW a \in Web, Truth(a), NEW b \in Own \cup Tools,
         OwnStart(b) \/ (\E ok \in BOOLEAN : OwnDone(b, ok))
  PROVE  Stays(a)
<1>1. a # b
  BY ActionsAssumption
<1>2. item'[a] = item[a] /\ ran'[a] = ran[a] /\ UNCHANGED <<queueVars, post, handled>>
  BY <1>1 DEF OwnStart, OwnDone, apiVars, TruthInv, OnceInv, ItemTyped, RanTyped, Actions
<1> QED BY <1>2 DEF Truth, Follows, Stays, Yes, No, Sent, Misjudged, queueVars

LEMMA WebStays ==
  ASSUME TruthInv, NEW a \in Web, Truth(a), NEW b \in Web,
         \/ Deliver(b) \/ Approve(b) \/ (\E ok \in BOOLEAN : Executed(b, ok))
         \/ (\E next \in {"denied", "expired"} : EndApproval(b, next))
  PROVE  Stays(a)
<1>1. /\ item \in [Actions -> ApprovalStates] /\ ran \in [Actions -> [times : Nat, ok : BOOLEAN]]
      /\ DOMAIN cmd = Web /\ a \in Actions /\ b \in Actions
  BY DEF TruthInv, OnceInv, ItemTyped, RanTyped, RecordsTyped, Actions
<1>2. post' = post /\ stray' = stray
  BY DEF Deliver, Arrives, Approve, Executed, EndApproval, apiVars, queueVars
<1>3. CASE a # b
  <2>1. /\ item'[a] = item[a] /\ ran'[a] = ran[a] /\ cmd'[a] = cmd[a]
        /\ (a \in handled' <=> a \in handled) /\ (a \in direct' <=> a \in direct)
    BY <1>1, <1>3 DEF Deliver, Arrives, Approve, Executed, EndApproval, queueVars
  <2> QED BY <1>2, <2>1 DEF Truth, Follows, Stays, Yes, No, Sent, Misjudged
<1>4. CASE a = b /\ Deliver(b)
  <2>1. Sent(a) /\ a \in handled' /\ ran' = ran
    BY <1>1, <1>4 DEF Deliver, Arrives, Sent
  <2>2. Follows(a)
    BY DEF Truth
  <2>3. \/ item'[a] = item[a] /\ item[a] # "none"
        \/ item[a] = "none" /\ item'[a] \in {"pending", "canceled"}
    <3>1. CASE a \in handled
      BY <1>4, <2>2, <3>1 DEF Deliver, Follows
    <3>2. CASE a \notin handled
      <4>1. PICK state \in {"pending", "canceled"} : item' = [item EXCEPT ![a] = state]
        BY <1>4, <3>2, TransitionFacts DEF Deliver
      <4>2. item'[a] = state
        BY <1>1, <4>1
      <4> QED BY <2>2, <3>2, <4>2 DEF Follows
    <3> QED BY <3>1, <3>2
  <2>4. CASE item'[a] = item[a] /\ item[a] # "none"
    BY <1>2, <2>1, <2>2, <2>4 DEF Follows, Stays, Yes, No, Sent, Misjudged
  <2>5. CASE item[a] = "none" /\ item'[a] \in {"pending", "canceled"}
    <3>1. ~ran[a].ok /\ ~ran'[a].ok /\ post'[a] \in {"dispatched", "done", "failed"}
      BY <1>2, <2>1, <2>2, <2>5 DEF Follows
    <3> QED BY <1>2, <2>1, <2>5, <3>1 DEF Follows, Stays, Yes, No, Sent, Misjudged, Ended, queueVars
  <2> QED BY <2>3, <2>4, <2>5
<1>5. CASE a = b /\ Approve(b)
  <2>1. item[a] = "pending" /\ item'[a] = "executing" /\ UNCHANGED <<ran, queueVars, handled>>
    BY <1>1, <1>5, TransitionFacts DEF Approve
  <2> QED BY <1>2, <2>1 DEF Truth, Follows, Stays, Yes, No, Sent, Misjudged, Ended, queueVars
<1>6. ASSUME NEW ok \in BOOLEAN, a = b, Executed(b, ok) PROVE Stays(a)
  <2>1. /\ item[a] = "executing" /\ item'[a] = IF ok THEN "executed" ELSE "failed"
        /\ ran'[a].ok = ok /\ UNCHANGED <<queueVars, handled>>
    BY <1>1, <1>6, TransitionFacts DEF Executed
  <2>2. ~ran[a].ok
    BY <2>1 DEF Truth, Follows
  <2> QED BY <1>2, <2>1, <2>2 DEF Truth, Follows, Stays, Yes, No, Sent, Misjudged, Ended, queueVars
<1>7. ASSUME NEW next \in {"denied", "expired"}, a = b, EndApproval(b, next) PROVE Stays(a)
  <2>1. item[a] = "pending" /\ item'[a] = next /\ UNCHANGED <<ran, queueVars, handled>>
    BY <1>1, <1>7, TransitionFacts DEF EndApproval
  <2> QED BY <1>2, <2>1 DEF Truth, Follows, Stays, Yes, No, Sent, Misjudged, Ended, queueVars
<1> QED BY <1>3, <1>4, <1>5, <1>6, <1>7

LEMMA ControlOffStays ==
  ASSUME TruthInv, NEW a \in Web, Truth(a), ControlOff
  PROVE  Stays(a)
<1>1. item \in [Actions -> ApprovalStates] /\ a \in Actions
  BY DEF TruthInv, OnceInv, ItemTyped, Actions
<1>2. item'[a] = IF item[a] = "pending" THEN "canceled" ELSE item[a]
  BY <1>1, TransitionFacts DEF ControlOff, EndPending
<1>3. UNCHANGED <<ran, queueVars, post, handled>>
  BY DEF ControlOff, apiVars
<1> QED BY <1>2, <1>3 DEF Truth, Follows, Stays, Yes, No, Sent, Misjudged, Ended, queueVars

LEMMA AllStays ==
  ASSUME TruthInv, ControlNext, "desktop" \notin hit', NEW a \in Web, Truth(a)
  PROVE  Stays(a)
<1>1. ~DesktopRestart
  BY DEF DesktopRestart
<1> QED BY <1>1, ApiStays, OwnStays, WebStays, ControlOffStays DEF ControlNext, Desktop

\* The reports that a step puts on the way are true when it is over.
NewSay(reports) ==
  /\ reports \in Seq(Message) /\ wire' = Send(reports) /\ inbox' = inbox
  /\ \A i \in DOMAIN reports, a \in Web :
       "desktop" \notin hit' /\ reports[i].a = a => item'[a] # "none" /\ Says(reports[i])'

LEMMA FunctionIsSeq ==
  ASSUME NEW S, NEW n \in Nat, NEW f \in [1..n -> S]
  PROVE  f \in Seq(S)
BY SeqDef

\* What is new on the way is one of the reports.
LEMMA SendReaches ==
  ASSUME RecordsTyped, NEW reports \in Seq(Message), wire' = Send(reports)
  PROVE  /\ wire' \in Seq(Message)
         /\ \A i \in DOMAIN wire' : \/ \E j \in DOMAIN wire : wire'[i] = wire[j]
                                    \/ \E j \in DOMAIN reports : wire'[i] = reports[j]
<1>1. wire \in Seq(Message)
  BY DEF RecordsTyped
<1>2. CASE ~online
  BY <1>1, <1>2 DEF Send
<1>3. CASE online
  <2>1. wire' = wire \o reports
    BY <1>3 DEF Send
  <2>2. /\ wire' \in Seq(Message) /\ Len(wire') = Len(wire) + Len(reports)
        /\ \A i \in 1..Len(wire) + Len(reports) :
             wire'[i] = IF i <= Len(wire) THEN wire[i] ELSE reports[i - Len(wire)]
    BY <1>1, <2>1, ConcatProperties
  <2>3. /\ DOMAIN wire = 1..Len(wire) /\ DOMAIN reports = 1..Len(reports) /\ DOMAIN wire' = 1..Len(wire')
        /\ Len(wire) \in Nat /\ Len(reports) \in Nat
    BY <1>1, <2>2, LenProperties
  <2>4. ASSUME NEW i \in DOMAIN wire'
        PROVE  \/ \E j \in DOMAIN wire : wire'[i] = wire[j]
               \/ \E j \in DOMAIN reports : wire'[i] = reports[j]
    <3>1. i \in 1..Len(wire) + Len(reports)
      BY <2>2, <2>3, <2>4
    <3>2. CASE i <= Len(wire)
      BY <2>2, <2>3, <3>1, <3>2
    <3>3. CASE i > Len(wire)
      <4>1. i - Len(wire) \in DOMAIN reports /\ wire'[i] = reports[i - Len(wire)]
        BY <2>2, <2>3, <3>1, <3>3
      <4> QED BY <4>1
    <3> QED BY <2>3, <3>1, <3>2, <3>3
  <2> QED BY <2>2, <2>4
<1> QED BY <1>2, <1>3

\* A step of the desktop leaves the records; the reports on the way stay true.
LEMMA DeskKeeps ==
  ASSUME TruthInv, OnceInv', UNCHANGED <<rec, row, saves>>, DOMAIN post' = Web, DOMAIN cmd' = Web,
         NEW reports, NewSay(reports), "desktop" \notin hit' => "desktop" \notin hit,
         \A a \in Web : "desktop" \notin hit' /\ Truth(a) => Stays(a)
  PROVE  TruthInv'
<1>1. RecordsTyped'
  BY SendReaches DEF TruthInv, RecordsTyped, NewSay
<1>2. ASSUME "desktop" \notin hit', NEW a \in Web PROVE Truth(a)'
  <2>1. Truth(a) /\ Stays(a)
    BY <1>2 DEF TruthInv
  <2>2. ASSUME NEW v, Told(v, a) PROVE Told(v, a)'
    BY <2>1, <2>2 DEF Told, Stays
  <2>3. ASSUME NEW m \in OnWay', m.a = a PROVE item'[a] # "none" /\ Says(m)'
    <3>1. CASE m \in OnWay
      <4>1. item[a] # "none" /\ Says(m)
        BY <2>1, <2>3, <3>1 DEF Truth
      <4> QED BY <2>1, <2>3, <4>1 DEF Stays, Says, Told
    <3>2. CASE m \notin OnWay
      <4>1. PICK i \in DOMAIN wire' : m = wire'[i]
        BY <2>3, <3>2 DEF OnWay, NewSay
      <4>2. \E j \in DOMAIN reports : m = reports[j]
        BY <3>2, <4>1, SendReaches DEF TruthInv, NewSay, OnWay
      <4> QED BY <1>2, <2>3, <4>2 DEF NewSay
    <3> QED BY <3>1, <3>2
  <2> QED BY <2>1, <2>2, <2>3 DEF Truth, Stays
<1> QED BY <1>1, <1>2 DEF TruthInv

\* One report is a sequence, and so are two.
LEMMA FewReports ==
  ASSUME NEW m \in Message, NEW n \in Message
  PROVE  /\ <<m>> \in Seq(Message) /\ <<m, n>> \in Seq(Message)
         /\ DOMAIN <<m>> = {1} /\ <<m>>[1] = m
         /\ DOMAIN <<m, n>> = {1, 2} /\ <<m, n>>[1] = m /\ <<m, n>>[2] = n
OBVIOUS

LEMMA TwoReports ==
  ASSUME NEW m \in Message, NEW n \in Message
  PROVE  <<m>> \o <<n>> \in Seq(Message) /\ \A i \in DOMAIN (<<m>> \o <<n>>) : (<<m>> \o <<n>>)[i] \in {m, n}
<1>1. PICK x, y : x = <<m>> /\ y = <<n>>
  OBVIOUS
<1>2. x \in Seq(Message) /\ y \in Seq(Message) /\ Len(x) = 1 /\ Len(y) = 1 /\ x[1] = m /\ y[1] = n
  BY <1>1
<1>3. x \o y \in Seq(Message) /\ Len(x \o y) = 2 /\ \A i \in 1..2 : (x \o y)[i] = IF i <= 1 THEN x[i] ELSE y[i - 1]
  <2>1. /\ x \o y \in Seq(Message) /\ Len(x \o y) = Len(x) + Len(y)
        /\ \A i \in 1..(Len(x) + Len(y)) : (x \o y)[i] = IF i <= Len(x) THEN x[i] ELSE y[i - Len(x)]
    BY <1>2, ConcatProperties
  <2> QED BY <1>2, <2>1
<1>4. DOMAIN (x \o y) = 1..2
  BY <1>3, LenProperties
<1>5. ASSUME NEW i \in 1..2 PROVE (x \o y)[i] \in {m, n}
  BY <1>2, <1>3, <1>5
<1> QED BY <1>1, <1>3, <1>4, <1>5

\* What the desktop says when an action of the web moves.
LEMMA DeskSteps ==
  ASSUME TruthInv, OnceInv', NEW b \in Web,
         \/ Deliver(b) \/ Approve(b) \/ (\E ok \in BOOLEAN : Executed(b, ok))
         \/ (\E next \in {"denied", "expired"} : EndApproval(b, next))
  PROVE  TruthInv'
<1>1. /\ item \in [Actions -> ApprovalStates] /\ ran \in [Actions -> [times : Nat, ok : BOOLEAN]] /\ b \in Actions
  BY DEF TruthInv, OnceInv, ItemTyped, RanTyped, Actions
<1>2. \A a \in Web : Truth(a) => Stays(a)
  BY WebStays
<1>3. /\ UNCHANGED <<rec, row, saves, post, inbox>> /\ DOMAIN post' = Web /\ DOMAIN cmd' = Web
      /\ "desktop" \notin hit' => "desktop" \notin hit
  BY DEF Deliver, Approve, Executed, EndApproval, apiVars, SendLost, TruthInv, RecordsTyped, Arrives, queueVars
<1>4. "desktop" \notin hit' => Follows(b)
  BY <1>3 DEF TruthInv, Truth
<1>5. ASSUME NEW m \in Message, m.a = b, m.status \in {"failed", "denied", "nack"} => No(b)',
             m.status = "executed" => Yes(b)'
      PROVE  Says(m)'
  BY <1>5 DEF Says, Told
<1>6. ASSUME NEW m \in Message, wire' = Send(<<m>>), m.a = b,
             "desktop" \notin hit' => item'[b] # "none" /\ Says(m)'
      PROVE  TruthInv'
  <2>1. NewSay(<<m>>)
    BY <1>3, <1>6, FewReports DEF NewSay
  <2> QED BY <1>2, <1>3, <2>1, DeskKeeps
<1>7. ASSUME NEW m \in Message, NEW n \in Message, m.a = b, n.a = b,
             NEW reports \in Seq(Message), wire' = Send(reports), \A i \in DOMAIN reports : reports[i] \in {m, n},
             "desktop" \notin hit' => item'[b] # "none" /\ Says(m)' /\ Says(n)'
      PROVE  TruthInv'
  <2>1. ASSUME NEW i \in DOMAIN reports, NEW a \in Web, "desktop" \notin hit', reports[i].a = a
        PROVE  item'[a] # "none" /\ Says(reports[i])'
    <3>1. CASE reports[i] = m
      BY <1>7, <2>1, <3>1
    <3>2. CASE reports[i] = n
      BY <1>7, <2>1, <3>2
    <3> QED BY <1>7, <3>1, <3>2
  <2>2. NewSay(reports)
    BY <1>3, <1>7, <2>1 DEF NewSay
  <2> QED BY <1>2, <1>3, <2>2, DeskKeeps
<1>8. ASSUME "desktop" \notin hit', item[b] # "executed", ran' = ran, item'[b] \in Ended \ {"executed"} PROVE No(b)'
  BY <1>4, <1>8 DEF Follows, No
<1>9. CASE Deliver(b)
  <2>1. ran' = ran /\ hit' = hit
    BY <1>9 DEF Deliver
  <2>2. CASE b \in handled
    <3>1. PICK status \in {"ok", "nack"} :
            /\ wire' = Send(<<Report(b, "cmd", status)>>)
            /\ status = "nack" => item[b] = "canceled"
      BY <1>9, <2>2 DEF Deliver
    <3>2. PICK m \in Message : m = Report(b, "cmd", status)
      BY DEF Report, Message
    <3>3. item' = item
      BY <1>9, <2>2 DEF Deliver
    <3>4. m.a = b /\ m.status = status /\ wire' = Send(<<m>>)
      BY <3>1, <3>2 DEF Report
    <3>5. ASSUME "desktop" \notin hit' PROVE item'[b] # "none" /\ Says(m)'
      <4>1. status = "nack" => No(b)'
        BY <1>8, <2>1, <3>1, <3>3, <3>5 DEF Ended
      <4> QED BY <1>4, <1>5, <2>2, <3>3, <3>4, <3>5, <4>1 DEF Follows
    <3> QED BY <1>6, <3>4, <3>5
  <2>3. CASE b \notin handled
    <3>1. PICK state \in {"pending", "canceled"}, m \in Message, n \in Message :
            /\ item' = [item EXCEPT ![b] = state] /\ wire' = Send(<<m, n>>) /\ m.a = b /\ n.a = b
            /\ \/ state = "pending" /\ m.status = "awaiting_user" /\ n.status = "ok"
               \/ state = "canceled" /\ m.status = "failed" /\ n.status = "nack"
      <4>1. /\ \A status \in {"ok", "nack"} : Report(b, "cmd", status) \in Message
            /\ Report(b, "ack", "awaiting_user") \in Message /\ Report(b, "result", "failed") \in Message
        BY <1>1 DEF Report, Message
      <4>2. CASE control
        BY <1>9, <2>3, <4>1, <4>2 DEF Deliver, Report
      <4>3. CASE ~control
        BY <1>9, <2>3, <4>1, <4>3, TransitionFacts DEF Deliver, Report
      <4> QED BY <4>2, <4>3
    <3>2. item'[b] = state
      BY <1>1, <3>1
    <3>3. ASSUME "desktop" \notin hit' PROVE item'[b] # "none" /\ Says(m)' /\ Says(n)'
      <4>1. state = "canceled" => No(b)'
        BY <1>4, <1>8, <2>1, <2>3, <3>2, <3>3 DEF Follows, Ended
      <4> QED BY <1>5, <3>1, <3>2, <4>1
    <3>4. PICK reports : reports = <<m, n>>
      OBVIOUS
    <3>5. reports \in Seq(Message) /\ \A i \in DOMAIN reports : reports[i] \in {m, n}
      BY <3>4, FewReports
    <3> QED BY <1>7, <3>1, <3>3, <3>4, <3>5
  <2> QED BY <2>2, <2>3
<1>10. CASE Approve(b)
  <2>1. PICK m \in Message : m = Report(b, "ack", "approved")
    BY DEF Report, Message
  <2>2. m.a = b /\ m.status = "approved" /\ wire' = Send(<<m>>) /\ item'[b] = "executing"
    BY <1>1, <1>10, <2>1, TransitionFacts DEF Approve, Report
  <2> QED BY <1>5, <1>6, <2>2
<1>11. ASSUME NEW ok \in BOOLEAN, Executed(b, ok) PROVE TruthInv'
  <2>1. PICK status \in {"executed", "failed"} : status = IF ok THEN "executed" ELSE "failed"
    OBVIOUS
  <2>2. PICK m \in Message : m = Report(b, "result", status)
    BY <1>1 DEF Report, Message
  <2>3. m.a = b /\ m.status = status /\ wire' = Send(<<m>>)
    BY <1>11, <2>1, <2>2 DEF Executed, Report
  <2>4. item'[b] = status /\ ran'[b].ok = ok
    BY <1>1, <1>11, <2>1, TransitionFacts DEF Executed
  <2>5. (status = "executed" => Yes(b)') /\ (status = "failed" => No(b)')
    BY <2>1, <2>4 DEF Yes, No, Ended
  <2> QED BY <1>5, <1>6, <2>3, <2>4, <2>5
<1>12. ASSUME NEW next \in {"denied", "expired"}, EndApproval(b, next) PROVE TruthInv'
  <2>1. PICK reports : reports = EndReports(b, next) /\ wire' = Send(reports)
    BY <1>12 DEF EndApproval
  <2>2. item[b] = "pending" /\ item'[b] = next /\ ran' = ran
    BY <1>1, <1>12, TransitionFacts DEF EndApproval
  <2>3. "desktop" \notin hit' => No(b)'
    BY <1>8, <2>2 DEF Ended
  <2>4. CASE b \notin payload
    <3>1. wire' = Send(<<>>)
      BY <2>1, <2>4 DEF EndReports
    <3>2. NewSay(<<>>)
      BY <1>3, <3>1 DEF NewSay
    <3> QED BY <1>2, <1>3, <3>2, DeskKeeps
  <2>5. CASE b \in payload
    <3>1. PICK m \in Message, n \in Message : m = Report(b, "ack", "denied") /\ n = Report(b, "result", "failed")
      BY <1>1 DEF Report, Message
    <3>2. m.a = b /\ n.a = b /\ ("desktop" \notin hit' => Says(m)' /\ Says(n)')
      BY <1>5, <2>3, <3>1 DEF Report
    <3>3. reports \in Seq(Message) /\ \A i \in DOMAIN reports : reports[i] \in {m, n}
      <4>1. CASE next = "denied"
        <5>1. reports = <<m>> \o <<n>>
          BY <2>1, <2>5, <3>1, <4>1 DEF EndReports
        <5> QED BY <5>1, TwoReports
      <4>2. CASE next # "denied"
        <5>1. reports = <<>> \o <<n>> /\ <<n>> \in Seq(Message)
          BY <2>1, <2>5, <3>1, <4>2, FewReports DEF EndReports
        <5>2. reports = <<n>>
          BY <5>1, ConcatEmptySeq
        <5> QED BY <5>1, <5>2, FewReports
      <4> QED BY <4>1, <4>2
    <3> QED BY <1>7, <2>1, <2>2, <3>1, <3>2, <3>3
  <2> QED BY <2>4, <2>5
<1> QED BY <1>9, <1>10, <1>11, <1>12

\* The same for the assistant's own actions.
LEMMA OwnSays ==
  ASSUME TruthInv, OnceInv', NEW b \in Own \cup Tools, OwnStart(b) \/ (\E ok \in BOOLEAN : OwnDone(b, ok))
  PROVE  TruthInv'
<1>1. PICK m \in Message : m.a = b /\ wire' = Send(<<m>>)
  <2>1. \A type \in {"create", "tool"} : Report(b, type, "approved") \in Message
    BY DEF Report, Message
  <2>2. \A type \in {"toolresult", "result"}, status \in {"executed", "failed"} : Report(b, type, status) \in Message
    BY DEF Report, Message, Actions
  <2>3. \A type, status : Report(b, type, status).a = b
    BY DEF Report
  <2> QED BY <2>1, <2>2, <2>3 DEF OwnStart, OwnDone
<1>2. /\ UNCHANGED <<rec, row, saves, post, inbox>> /\ DOMAIN post' = Web /\ DOMAIN cmd' = Web
      /\ "desktop" \notin hit' => "desktop" \notin hit
  BY DEF OwnStart, OwnDone, apiVars, SendLost, TruthInv, RecordsTyped, queueVars
<1>3. NewSay(<<m>>)
  BY <1>1, <1>2, FewReports, ActionsAssumption DEF NewSay
<1> QED BY <1>2, <1>3, OwnStays, DeskKeeps

\* Control switched off cancels what is pending, and says so.
LEMMA ControlOffSays ==
  ASSUME TruthInv, OnceInv', ControlOff
  PROVE  TruthInv'
<1> DEFINE ending == {a \in Web : item[a] = "pending"} \cap payload
<1>1. PICK order \in SetToSeqs(ending) :
        wire' = Send([i \in DOMAIN order |-> Report(order[i], "result", "failed")])
  BY DEF ControlOff
<1> DEFINE reports == [i \in DOMAIN order |-> Report(order[i], "result", "failed")]
<1>2. Cardinality(ending) \in Nat
  BY ActionsAssumption, FS_Subset, FS_CardinalityType
<1>3. DOMAIN order = 1..Cardinality(ending) /\ \A i \in DOMAIN order : order[i] \in ending
  BY <1>1 DEF SetToSeqs
<1>4. reports \in Seq(Message) /\ DOMAIN reports = DOMAIN order
  <2>1. \A a \in ending : Report(a, "result", "failed") \in Message
    BY DEF Report, Message, Actions
  <2>2. reports \in [1..Cardinality(ending) -> Message]
    BY <1>3, <2>1
  <2> QED BY <1>2, <1>3, <2>2, FunctionIsSeq
<1>5. /\ UNCHANGED <<rec, row, saves, post, inbox, ran, cmd>> /\ DOMAIN post' = Web /\ DOMAIN cmd' = Web
      /\ "desktop" \notin hit' => "desktop" \notin hit
  BY DEF ControlOff, apiVars, SendLost, TruthInv, RecordsTyped, queueVars
<1>6. ASSUME "desktop" \notin hit', NEW a \in ending PROVE item'[a] = "canceled" /\ No(a)'
  <2>1. item \in [Actions -> ApprovalStates] /\ a \in Actions /\ Follows(a)
    BY <1>5, <1>6 DEF TruthInv, OnceInv, ItemTyped, Actions, Truth
  <2>2. item'[a] = "canceled"
    BY <1>6, <2>1, TransitionFacts DEF ControlOff, EndPending
  <2> QED BY <1>5, <1>6, <2>1, <2>2 DEF No, Follows, Ended
<1>7. ASSUME NEW i \in DOMAIN reports, NEW a \in Web, "desktop" \notin hit', reports[i].a = a
      PROVE  item'[a] # "none" /\ Says(reports[i])'
  <2>1. PICK m \in Message : m = reports[i]
    BY <1>4
  <2>2. m.a = a /\ m.status = "failed" /\ a \in ending
    BY <1>3, <1>4, <1>7, <2>1 DEF Report
  <2>3. item'[a] # "none" /\ Says(m)'
    BY <1>6, <1>7, <2>2 DEF Says, Told
  <2> QED BY <2>1, <2>3
<1>8. NewSay(reports)
  BY <1>1, <1>4, <1>5, <1>7 DEF NewSay
<1> QED BY <1>5, <1>8, ControlOffStays, DeskKeeps

\* Record writes one record and starts its save.
LEMMA RecordTyped ==
  ASSUME RecordsTyped, NEW b \in Actions, NEW status \in Statuses, Record(b, status)
  PROVE  /\ rec' \in [Actions -> Statuses] /\ rec'[b] = status /\ \A a \in Actions \ {b} : rec'[a] = rec[a]
         /\ saves' \subseteq [a : Actions, status : Statuses \ {"none"}]
         /\ saves \subseteq saves'
         /\ \A s \in saves' \ saves : s.a = b /\ s.status = status
         /\ status # "none" => \E s \in saves' : s.a = b
<1>1. /\ rec \in [Actions -> Statuses] /\ rec' = [rec EXCEPT ![b] = status]
      /\ saves \subseteq [a : Actions, status : Statuses \ {"none"}]
      /\ saves' = IF status = "none" THEN saves ELSE saves \cup {[a |-> b, status |-> status]}
  BY DEF RecordsTyped, Record
<1>2. rec' \in [Actions -> Statuses] /\ rec'[b] = status /\ \A a \in Actions \ {b} : rec'[a] = rec[a]
  BY <1>1
<1>3. PICK s : s = [a |-> b, status |-> status]
  OBVIOUS
<1>4. s.a = b /\ s.status = status /\ (status # "none" => s \in [a : Actions, status : Statuses \ {"none"}])
  BY <1>3
<1> QED BY <1>1, <1>2, <1>3, <1>4

\* What a record is set to by a report that is true.
LEMMA SetFacts ==
  ASSUME RecordsTyped, NEW a \in Actions
  PROVE  /\ \A status \in Statuses : SetStatus(a, status) \in {rec[a], status} /\ SetStatus(a, status) \in Statuses
         /\ SetResult(a, TRUE) \in {"none", "executed"} /\ SetResult(a, FALSE) \in {"none", "failed"}
         /\ \A ok \in BOOLEAN : SetResult(a, ok) = "none" => rec[a] = "none"
         /\ \A status \in Statuses \ {"none"} : SetStatus(a, status) = "none" => rec[a] = "none"
BY DEF RecordsTyped, SetStatus, SetResult, Settled, Statuses

\* The reports, seen by their handlers.
LEMMA MessageFacts ==
  ASSUME NEW m \in Message
  PROVE  /\ m.a \in Actions
         /\ m.type = "ack" => m.status \in {"awaiting_user", "approved", "denied"}
         /\ m.type = "result" => m.status \in {"executed", "failed"}
         /\ m.type = "cmd" => m.a \in Web /\ m.status \in {"ok", "nack"}
         /\ m.type \in {"create", "tool", "toolresult"} => m.a \notin Web
         /\ m.type = "toolresult" => m.status \in {"executed", "failed"}
BY ActionsAssumption DEF Message, Actions

\* A report that arrives is still on its way.
LEMMA ArriveFacts ==
  ASSUME RecordsTyped, Arrive
  PROVE  wire' \in Seq(Message) /\ inbox' \subseteq Message /\ OnWay' \subseteq OnWay
<1>1. wire \in Seq(Message) /\ wire # <<>> /\ wire' = Tail(wire) /\ inbox' = inbox \cup {Head(wire)}
  BY DEF RecordsTyped, Arrive
<1>2. /\ Head(wire) = wire[1] /\ 1 \in DOMAIN wire /\ wire[1] \in Message
      /\ wire' \in Seq(Message) /\ \A i \in DOMAIN wire' : i + 1 \in DOMAIN wire /\ wire'[i] = wire[i + 1]
  <2>1. /\ Head(wire) = wire[1] /\ wire[1] \in Message /\ Len(wire) \in Nat \ {0}
        /\ wire' \in Seq(Message) /\ Len(wire') = Len(wire) - 1 /\ \A i \in 1..Len(wire') : wire'[i] = wire[i + 1]
    BY <1>1, HeadTailProperties, EmptySeq
  <2>2. DOMAIN wire = 1..Len(wire) /\ DOMAIN wire' = 1..Len(wire')
    BY <1>1, <2>1, LenProperties
  <2> QED BY <2>1, <2>2
<1> QED BY <1>1, <1>2 DEF RecordsTyped, OnWay

\* Every value that a record, a row or a save has after the step is true.
TrueWrites(a) ==
  \A v \in Statuses : (v = rec'[a] \/ v = row'[a] \/ \E s \in saves' : s.a = a /\ s.status = v) => Told(v, a)'

LEMMA ApiKeeps ==
  ASSUME TruthInv, OnceInv',
         Api \/ Disconnect \/ Reconnect \/ ApiRestart \/ ControlOn
         \/ (\E b \in Web : Post(b)) \/ (\E m \in inbox : RateLimited(m))
  PROVE  TruthInv'
<1>1. hit \subseteq hit' /\ \A a \in Web : a \in Actions /\ (Truth(a) => Stays(a))
  BY ApiSteps, ApiStays DEF TruthInv, HistoryGrows, Actions
<1>2. RecordsTyped /\ DOMAIN cmd = Web /\ DOMAIN post = Web
  BY DEF TruthInv, RecordsTyped
<1>3. ASSUME "desktop" \notin hit', NEW a \in Web PROVE Truth(a) /\ Stays(a)
  BY <1>1, <1>3 DEF TruthInv
<1>4. ASSUME "desktop" \notin hit', NEW a \in Web, NEW v, Told(v, a) PROVE Told(v, a)'
  BY <1>3, <1>4 DEF Stays, Told
<1>5. ASSUME RecordsTyped', OnWay' \subseteq OnWay, \A a \in Web : "desktop" \notin hit' => TrueWrites(a)
      PROVE  TruthInv'
  <2>1. ASSUME "desktop" \notin hit', NEW a \in Web PROVE Truth(a)'
    <3>1. Truth(a) /\ Stays(a)
      BY <1>3, <2>1
    <3>2. ASSUME NEW m \in OnWay', m.a = a PROVE item'[a] # "none" /\ Says(m)'
      BY <1>5, <3>1, <3>2 DEF Truth, Stays, Says, Told
    <3>3. Told(rec[a], a)' /\ Told(row[a], a)'
      <4>1. PICK v \in Statuses, w \in Statuses : v = rec'[a] /\ w = row'[a]
        BY <1>1, <1>5 DEF RecordsTyped
      <4>2. Told(v, a)' /\ Told(w, a)'
        BY <1>5, <2>1, <4>1 DEF TrueWrites
      <4> QED BY <4>1, <4>2
    <3>4. ASSUME NEW s \in saves', s.a = a PROVE Told(s.status, a)'
      <4>1. s.status \in Statuses
        BY <1>5, <3>4 DEF RecordsTyped
      <4> QED BY <1>5, <2>1, <3>4, <4>1 DEF TrueWrites
    <3> QED BY <3>1, <3>2, <3>3, <3>4 DEF Truth, Stays
  <2> QED BY <1>5, <2>1 DEF TruthInv
<1>6. ASSUME UNCHANGED <<rec, row, saves>>, NEW a \in Web, "desktop" \notin hit' PROVE TrueWrites(a)
  BY <1>3, <1>4, <1>6 DEF TrueWrites, Truth
<1>7. ASSUME NEW b \in Actions, NEW status \in Statuses, Record(b, status), row' = row,
             wire' = wire, inbox' \subseteq inbox, DOMAIN post' = Web, DOMAIN cmd' = Web,
             "desktop" \notin hit' /\ b \in Web => Told(status, b)'
      PROVE  TruthInv'
  <2>1. RecordsTyped' /\ OnWay' \subseteq OnWay
    BY <1>2, <1>7, RecordTyped DEF RecordsTyped, OnWay
  <2>2. ASSUME NEW a \in Web, "desktop" \notin hit' PROVE TrueWrites(a)
    <3>1. Truth(a) /\ a \in Actions
      BY <1>1, <1>3, <2>2
    <3>2. ASSUME NEW v \in Statuses, v = rec'[a] PROVE Told(v, a)'
      <4>1. CASE a = b
        BY <1>2, <1>7, <2>2, <3>2, <4>1, RecordTyped
      <4>2. CASE a # b
        <5>1. v = rec[a]
          BY <1>2, <1>7, <3>1, <3>2, <4>2, RecordTyped
        <5> QED BY <1>4, <2>2, <3>1, <5>1 DEF Truth
      <4> QED BY <4>1, <4>2
    <3>3. ASSUME NEW v \in Statuses, NEW s \in saves', s.a = a, s.status = v PROVE Told(v, a)'
      <4>1. CASE s \in saves
        BY <1>4, <2>2, <3>1, <3>3, <4>1 DEF Truth
      <4>2. CASE s \notin saves
        BY <1>2, <1>7, <2>2, <3>3, <4>2, RecordTyped
      <4> QED BY <4>1, <4>2
    <3> QED BY <1>4, <1>7, <2>2, <3>1, <3>2, <3>3 DEF TrueWrites, Truth
  <2> QED BY <1>5, <2>1, <2>2
<1>8. ASSUME UNCHANGED <<rec, row, saves>>, DOMAIN post' = Web, DOMAIN cmd' = Web,
             wire' \in Seq(Message), inbox' \subseteq Message, OnWay' \subseteq OnWay
      PROVE  TruthInv'
  BY <1>2, <1>5, <1>6, <1>8 DEF RecordsTyped
<1>9. ASSUME NEW b \in Web, "desktop" \notin hit'
      PROVE  /\ \A v \in Statuses \ {"executed", "failed", "denied"} : Told(v, b)'
             /\ \A v : v = rec[b] => Told(v, b)'
  BY <1>3, <1>4, <1>9 DEF Told, Truth
<1>10. ASSUME NEW m \in inbox
       PROVE  m \in Message /\ m.a \in Actions /\ ("desktop" \notin hit' /\ m.a \in Web => Says(m)')
  <2>1. m \in Message /\ m \in OnWay
    BY <1>2 DEF RecordsTyped, OnWay
  <2>2. ASSUME "desktop" \notin hit', m.a \in Web PROVE Says(m)'
    BY <1>3, <2>1, <2>2 DEF Truth, Stays, Says, Told
  <2> QED BY <2>1, <2>2, MessageFacts
<1>11. ASSUME NEW b \in Web, Post(b) \/ Awaiting(b) PROVE TruthInv'
  <2>1. b \in Actions /\ row' = row /\ wire' = wire /\ inbox' = inbox /\ DOMAIN post' = Web /\ DOMAIN cmd' = Web
    BY <1>2, <1>11 DEF Post, Awaiting, Actions, queueVars
  <2>2. PICK status \in Statuses : Record(b, status) /\ status \in {"requested", "awaiting_user", rec[b]}
    <3>1. CASE Post(b)
      BY <3>1 DEF Post, Statuses
    <3>2. CASE Awaiting(b)
      <4>1. SetStatus(b, "awaiting_user") \in {rec[b], "awaiting_user"} /\ SetStatus(b, "awaiting_user") \in Statuses
        BY <1>2, <2>1, SetFacts DEF Statuses
      <4> QED BY <3>2, <4>1 DEF Awaiting
    <3> QED BY <1>11, <3>1, <3>2
  <2>3. "desktop" \notin hit' => Told(status, b)'
    BY <1>9, <2>2
  <2> QED BY <1>7, <2>1, <2>2, <2>3
<1>12. ASSUME NEW b \in Web, Dispatch(b) PROVE TruthInv'
  <2>1. /\ b \in Actions /\ row' = row /\ wire' = wire /\ inbox' = inbox /\ DOMAIN post' = Web /\ DOMAIN cmd' = Web
        /\ post[b] = "saving"
    BY <1>2, <1>12 DEF Dispatch, Actions
  <2>2. CASE UNCHANGED <<rec, saves>>
    <3>1. OnWay' \subseteq OnWay
      BY <2>1 DEF OnWay
    <3> QED BY <1>2, <1>8, <2>1, <2>2, <3>1 DEF RecordsTyped
  <2>3. CASE Record(b, SetResult(b, FALSE)) /\ post' = [post EXCEPT ![b] = "failed"] /\ direct' = direct
    <3>1. PICK status \in {"none", "failed"} : Record(b, status)
      BY <1>2, <2>1, <2>3, SetFacts
    <3>2. ASSUME "desktop" \notin hit' PROVE No(b)' \/ Misjudged(b)'
      <4>1. ~Sent(b) /\ item[b] = "none" /\ ~ran[b].ok
        BY <1>3, <2>1, <3>2 DEF Truth, Follows
      <4>2. item' = item /\ ran' = ran /\ post'[b] = "failed"
        BY <1>2, <1>12, <2>3 DEF Dispatch, deskVars
      <4>3. CASE cmd' = cmd
        BY <2>3, <4>1, <4>2, <4>3 DEF No, Sent
      <4>4. CASE cmd' # cmd
        BY <1>2, <1>12, <4>2, <4>4 DEF Dispatch, Misjudged
      <4> QED BY <4>3, <4>4
    <3>3. "desktop" \notin hit' => Told(status, b)'
      BY <3>2 DEF Told
    <3>4. status \in Statuses
      BY DEF Statuses, Settled
    <3> QED BY <1>7, <2>1, <3>1, <3>3, <3>4
  <2> QED BY <1>12, <2>2, <2>3 DEF Dispatch
<1>13. ASSUME NEW m \in inbox,
              HandleAck(m) \/ HandleResult(m) \/ HandleCreate(m) \/ HandleToolRequest(m) \/ HandleToolResult(m)
       PROVE  TruthInv'
  <2>1. row' = row /\ wire' = wire /\ inbox' \subseteq inbox /\ DOMAIN post' = Web /\ DOMAIN cmd' = Web
    BY <1>2, <1>13 DEF HandleAck, HandleResult, HandleCreate, HandleToolRequest, HandleToolResult, Handles, queueVars
  <2>2. PICK status \in Statuses :
          Record(m.a, status) /\ (m.a \in Web => status \in {"none", rec[m.a], m.status})
    <3>1. CASE HandleAck(m)
      <4>1. m.status \in Statuses
        BY <1>10, <3>1, MessageFacts DEF HandleAck, Handles, Statuses, Settled
      <4> QED BY <1>2, <1>10, <3>1, <4>1, SetFacts DEF HandleAck, Handles
    <3>2. CASE HandleResult(m)
      <4>1. m.status \in {"executed", "failed"}
        BY <1>10, <3>2, MessageFacts DEF HandleResult, Handles
      <4>2. SetResult(m.a, m.status = "executed") \in {"none", m.status}
        BY <4>1 DEF SetResult
      <4> QED BY <3>2, <4>1, <4>2 DEF HandleResult, Handles, Statuses, Settled
    <3>3. CASE HandleCreate(m) \/ HandleToolRequest(m) \/ HandleToolResult(m)
      <4>1. m.a \notin Web /\ (m.type = "toolresult" => m.status \in {"executed", "failed"})
        BY <1>10, <3>3, MessageFacts DEF HandleCreate, HandleToolRequest, HandleToolResult, Handles
      <4> QED BY <3>3, <4>1 DEF HandleCreate, HandleToolRequest, HandleToolResult, Handles, Statuses, Settled
    <3> QED BY <1>13, <3>1, <3>2, <3>3
  <2>3. ASSUME "desktop" \notin hit', m.a \in Web PROVE Told(status, m.a)'
    <3>1. Told(m.status, m.a)'
      BY <1>10, <2>3 DEF Says
    <3>2. "none" \in Statuses \ {"executed", "failed", "denied"}
      BY DEF Statuses
    <3> QED BY <1>9, <2>2, <2>3, <3>1, <3>2
  <2> QED BY <1>7, <1>10, <2>1, <2>2, <2>3
<1>14. ASSUME NEW m \in inbox, HandleCommandAck(m) PROVE TruthInv'
  <2>1. row' = row /\ wire' = wire /\ inbox' \subseteq inbox /\ DOMAIN post' = Web /\ DOMAIN cmd' = Web
    BY <1>2, <1>14 DEF HandleCommandAck
  <2>2. CASE UNCHANGED <<rec, saves>>
    <3>1. OnWay' \subseteq OnWay /\ inbox' \subseteq Message
      BY <1>2, <2>1 DEF OnWay, RecordsTyped
    <3> QED BY <1>2, <1>8, <2>1, <2>2, <3>1 DEF RecordsTyped
  <2>3. CASE m.status # "ok" /\ Record(m.a, SetResult(m.a, FALSE))
    <3>1. PICK status \in {"none", "failed"} : Record(m.a, status)
      BY <1>2, <1>10, <2>3, SetFacts
    <3>2. m.status = "nack"
      BY <1>10, <1>14, <2>3, MessageFacts DEF HandleCommandAck
    <3>3. "desktop" \notin hit' /\ m.a \in Web => Told(status, m.a)'
      BY <1>10, <3>2 DEF Says, Told
    <3>4. status \in Statuses
      BY DEF Statuses, Settled
    <3> QED BY <1>7, <1>10, <2>1, <3>1, <3>3, <3>4
  <2> QED BY <1>14, <2>2, <2>3 DEF HandleCommandAck
<1>15. ASSUME NEW s \in saves, SaveLands(s) PROVE TruthInv'
  <2>1. /\ s.a \in Actions /\ s.status \in Statuses /\ rec' = rec /\ saves' \subseteq saves
        /\ row' = [row EXCEPT ![s.a] = s.status] /\ UNCHANGED <<post, cmd, wire, inbox>>
    BY <1>2, <1>15 DEF SaveLands, RecordsTyped, queueVars
  <2>2. RecordsTyped' /\ OnWay' \subseteq OnWay
    BY <1>2, <2>1 DEF RecordsTyped, OnWay
  <2>3. ASSUME NEW a \in Web, "desktop" \notin hit', NEW v \in Statuses,
               v = rec'[a] \/ v = row'[a] \/ \E t \in saves' : t.a = a /\ t.status = v
        PROVE  Told(v, a)'
    <3>1. v = rec[a] \/ v = row[a] \/ \E t \in saves : t.a = a /\ t.status = v
      BY <1>1, <1>2, <2>1, <2>3 DEF RecordsTyped
    <3> QED BY <1>3, <1>4, <2>3, <3>1 DEF Truth
  <2> QED BY <1>5, <2>2, <2>3 DEF TrueWrites
<1>16. CASE Arrive
  BY <1>2, <1>8, <1>16, ArriveFacts DEF Arrive, apiVars, queueVars
<1>17. CASE Disconnect \/ Reconnect \/ ControlOn \/ (\E m \in inbox : RateLimited(m))
  <2>1. UNCHANGED <<rec, row, saves, post>> /\ DOMAIN cmd' = Web /\ inbox' \subseteq inbox /\ wire' \in {wire, <<>>}
    BY <1>2, <1>17 DEF Disconnect, Reconnect, ControlOn, RateLimited, Unacked, apiVars, queueVars
  <2>2. wire' \in Seq(Message) /\ inbox' \subseteq Message /\ OnWay' \subseteq OnWay
    <3>1. wire \in Seq(Message) /\ <<>> \in Seq(Message) /\ inbox \subseteq Message
      BY <1>2, EmptySeq DEF RecordsTyped
    <3>2. {wire'[i] : i \in DOMAIN wire'} \subseteq {wire[i] : i \in DOMAIN wire}
      BY <2>1
    <3> QED BY <2>1, <3>1, <3>2 DEF OnWay
  <2> QED BY <1>2, <1>8, <2>1, <2>2
<1>18. CASE ApiRestart
  <2>1. rec' = row /\ row' = row /\ saves' = {} /\ DOMAIN post' = Web /\ DOMAIN cmd' = Web /\ inbox' = {} /\ wire' = <<>>
    BY <1>2, <1>18 DEF ApiRestart, Unacked
  <2>2. RecordsTyped' /\ OnWay' = {}
    BY <1>2, <2>1, EmptySeq DEF RecordsTyped, OnWay
  <2>3. ASSUME NEW a \in Web, "desktop" \notin hit' PROVE TrueWrites(a)
    BY <1>3, <1>4, <2>1, <2>3 DEF TrueWrites, Truth
  <2> QED BY <1>5, <2>2, <2>3
<1> QED BY <1>11, <1>12, <1>13, <1>14, <1>15, <1>16, <1>17, <1>18 DEF Api

LEMMA NextTruthInv == TruthInv /\ [ControlNext]_controlVars => TruthInv'
<1> SUFFICES ASSUME TruthInv, [ControlNext]_controlVars PROVE TruthInv'
  OBVIOUS
<1>1. OnceInv'
  BY NextOnceInv DEF TruthInv
<1>2. CASE DesktopRestart
  <2>1. /\ UNCHANGED <<rec, row, saves, post, inbox>> /\ wire' = <<>> /\ DOMAIN cmd' = DOMAIN cmd /\ "desktop" \in hit'
    BY <1>2 DEF DesktopRestart, Unacked, apiVars, TruthInv, RecordsTyped
  <2> QED BY <1>1, <2>1, EmptySeq DEF TruthInv, RecordsTyped
<1>3. CASE UNCHANGED controlVars
  <2>1. RecordsTyped' /\ OnWay' = OnWay
    BY <1>3 DEF controlVars, TruthInv, RecordsTyped, OnWay
  <2>2. ASSUME NEW a \in Web, Truth(a) PROVE Truth(a)'
    <3>1. /\ Follows(a)' /\ \A v : Told(v, a)' <=> Told(v, a)
          /\ UNCHANGED <<rec, row, saves, item, ran, post>>
      BY <1>3, <2>2 DEF controlVars, queueVars, Truth, Follows, Told, Yes, No, Sent, Misjudged
    <3>2. No(a)' <=> No(a)
      BY <1>3 DEF controlVars, No, Sent
    <3> QED BY <2>1, <2>2, <3>1, <3>2 DEF Truth, Says
  <2> QED BY <1>1, <1>3, <2>1, <2>2 DEF controlVars, TruthInv
<1> QED BY <1>1, <1>2, <1>3, ApiKeeps, DeskSteps, OwnSays, ControlOffSays DEF ControlNext, Desktop

LEMMA InitTruthInv == ControlInit => TruthInv
<1> SUFFICES ASSUME ControlInit PROVE TruthInv
  OBVIOUS
<1>1. OnceInv
  BY InitOnceInv
<1>2. RecordsTyped /\ OnWay = {}
  BY EmptySeq DEF ControlInit, RecordsTyped, OnWay, Statuses
<1>3. ASSUME NEW a \in Web PROVE Truth(a)
  <2>1. rec[a] = "none" /\ row[a] = "none" /\ item[a] = "none" /\ ~Sent(a) /\ ran[a].ok = FALSE /\ saves = {} /\ handled = {}
    BY DEF ControlInit, Actions, Sent
  <2> QED BY <1>2, <2>1 DEF Truth, Follows, Told
<1> QED BY <1>1, <1>2, <1>3 DEF TruthInv

\* The record, the row and the reports of an action of the web say of it what is
\* so, for any numbers of actions and faults, until the desktop starts again.
THEOREM TruthInvariance == ControlSpec => []TruthInv
BY InitTruthInv, NextTruthInv, PTL DEF ControlSpec

\* The dashboard is told the truth: acks, results, rejected commands and the POST
\* handler may meet in any order (actionStore, ws-handler.ts, index.ts), and commands
\* come from the queue and on the socket; but for a 503 after a lost reply of XADD.
THEOREM RecordsAreTrue == ControlSpec => []RecordTellsTheTruth
<1>1. TruthInv => RecordTellsTheTruth
  BY DEF TruthInv, Truth, Told, Yes, No, RecordTellsTheTruth
<1> QED BY <1>1, TruthInvariance, PTL

-----------------------------------------------------------------------------
(* The rows follow the records.                                             *)

\* Of an action without overlapping saves at most one save is under way: it saves
\* what the record is, and without one the row is what the record is.
Rows(a) ==
  /\ \A s, t \in saves : s.a = a /\ t.a = a => s = t
  /\ \A s \in saves : s.a = a => s.status = rec[a]
  /\ (~\E s \in saves : s.a = a) => row[a] = rec[a]
RowInv == TruthInv /\ \A a \in Actions : a \in crossed \/ Rows(a)

\* A record, written and saved; what has no status has none before and after.
LEMMA RecordRows ==
  ASSUME RowInv, NEW b \in Actions, NEW status \in Statuses, Record(b, status), row' = row,
         status = "none" => rec[b] = "none"
  PROVE  \A a \in Actions : a \in crossed' \/ Rows(a)'
<1>1. RecordsTyped
  BY DEF RowInv, TruthInv
<1>2. ASSUME NEW a \in Actions, a \notin crossed' PROVE Rows(a)'
  <2>1. Rows(a)
    BY <1>2 DEF RowInv, Record
  <2>2. CASE a # b
    <3>1. rec'[a] = rec[a] /\ \A s : s.a = a => (s \in saves' <=> s \in saves)
      BY <1>1, <2>2, RecordTyped
    <3> QED BY <2>1, <3>1 DEF Rows
  <2>3. CASE a = b
    <3>1. ~\E s \in saves : s.a = a
      BY <1>2, <2>3 DEF Record
    <3>2. rec'[a] = status /\ \A s \in saves' : s.a = a => s.status = status
      BY <1>1, <2>3, <3>1, RecordTyped
    <3>3. saves' = IF status = "none" THEN saves ELSE saves \cup {[a |-> b, status |-> status]}
      BY DEF Record
    <3>4. \A s, t \in saves' : s.a = a /\ t.a = a => s = t
      BY <3>1, <3>3
    <3>5. CASE status = "none"
      BY <2>1, <2>3, <3>1, <3>2, <3>3, <3>4, <3>5 DEF Rows
    <3>6. CASE status # "none"
      <4>1. \E s \in saves' : s.a = a
        BY <1>1, <2>3, <3>6, RecordTyped
      <4> QED BY <3>2, <3>4, <4>1 DEF Rows
    <3> QED BY <3>5, <3>6
  <2> QED BY <2>2, <2>3
<1> QED BY <1>2

LEMMA NextRowInv == RowInv /\ [ControlNext]_controlVars => RowInv'
<1> SUFFICES ASSUME RowInv, [ControlNext]_controlVars PROVE \A a \in Actions : a \in crossed' \/ Rows(a)'
  BY NextTruthInv DEF RowInv
<1>1. RecordsTyped
  BY DEF RowInv, TruthInv
<1>2. ASSUME UNCHANGED <<rec, row, saves>>, crossed \subseteq crossed'
      PROVE  \A a \in Actions : a \in crossed' \/ Rows(a)'
  BY <1>2 DEF RowInv, Rows
<1>3. ASSUME NEW m \in inbox PROVE m \in Message /\ m.a \in Actions
  BY <1>1, MessageFacts DEF RecordsTyped
<1>4. ASSUME NEW b \in Web, Post(b) \/ Awaiting(b) \/ Dispatch(b)
      PROVE  \A a \in Actions : a \in crossed' \/ Rows(a)'
  <2>1. b \in Actions /\ row' = row
    BY <1>4 DEF Post, Awaiting, Dispatch, Actions
  <2>2. \/ UNCHANGED <<rec, saves, crossed>>
        \/ \E status \in Statuses : Record(b, status) /\ (status = "none" => rec[b] = "none")
    <3>1. "requested" \in Statuses \ {"none"} /\ "awaiting_user" \in Statuses \ {"none"} /\ {"none", "failed"} \subseteq Statuses
      BY DEF Statuses, Settled
    <3>2. CASE Post(b)
      BY <3>1, <3>2 DEF Post
    <3>3. CASE Awaiting(b)
      BY <1>1, <2>1, <3>1, <3>3, SetFacts DEF Awaiting
    <3>4. CASE Dispatch(b)
      BY <1>1, <2>1, <3>1, <3>4, SetFacts DEF Dispatch
    <3> QED BY <1>4, <3>2, <3>3, <3>4
  <2> QED BY <1>2, <2>1, <2>2, RecordRows
<1>5. ASSUME NEW m \in inbox, \/ HandleAck(m) \/ HandleResult(m) \/ HandleCreate(m)
                              \/ HandleToolRequest(m) \/ HandleToolResult(m) \/ HandleCommandAck(m)
      PROVE  \A a \in Actions : a \in crossed' \/ Rows(a)'
  <2>1. row' = row /\ m.a \in Actions
    BY <1>3, <1>5 DEF HandleAck, HandleResult, HandleCreate, HandleToolRequest, HandleToolResult, HandleCommandAck, Handles
  <2>2. \/ UNCHANGED <<rec, saves, crossed>>
        \/ \E status \in Statuses : Record(m.a, status) /\ (status = "none" => rec[m.a] = "none")
    <3>1. {"none", "awaiting_user", "approved", "executed", "failed", "denied"} \subseteq Statuses
      BY DEF Statuses, Settled
    <3>2. CASE HandleAck(m)
      <4>1. m.status \in Statuses \ {"none"}
        BY <1>3, <3>1, <3>2, MessageFacts DEF HandleAck, Handles
      <4> QED BY <1>1, <2>1, <3>2, <4>1, SetFacts DEF HandleAck, Handles
    <3>3. CASE HandleResult(m) \/ HandleCommandAck(m)
      <4>1. \A ok \in BOOLEAN : SetResult(m.a, ok) \in Statuses /\ (SetResult(m.a, ok) = "none" => rec[m.a] = "none")
        BY <1>1, <2>1, <3>1 DEF SetResult
      <4> QED BY <3>3, <4>1 DEF HandleResult, HandleCommandAck, Handles
    <3>4. CASE HandleCreate(m) \/ HandleToolRequest(m) \/ HandleToolResult(m)
      <4>1. m.type = "toolresult" => m.status \in {"executed", "failed"}
        BY <1>3, MessageFacts
      <4> QED BY <3>1, <3>4, <4>1 DEF HandleCreate, HandleToolRequest, HandleToolResult, Handles
    <3> QED BY <1>5, <3>2, <3>3, <3>4
  <2> QED BY <1>2, <2>1, <2>2, RecordRows
<1>6. ASSUME NEW s \in saves, SaveLands(s) PROVE \A a \in Actions : a \in crossed' \/ Rows(a)'
  <2>1. /\ rec' = rec /\ crossed' = crossed /\ saves' = saves \ {s} /\ row' = [row EXCEPT ![s.a] = s.status]
        /\ row \in [Actions -> Statuses] /\ s.a \in Actions
    BY <1>1, <1>6 DEF SaveLands, RecordsTyped
  <2>2. ASSUME NEW a \in Actions, Rows(a) PROVE Rows(a)'
    <3>1. CASE a = s.a
      BY <2>1, <2>2, <3>1 DEF Rows
    <3>2. CASE a # s.a
      <4>1. row'[a] = row[a] /\ \A t : t.a = a => (t \in saves' <=> t \in saves)
        BY <2>1, <3>2
      <4> QED BY <2>1, <2>2, <4>1 DEF Rows
    <3> QED BY <3>1, <3>2
  <2> QED BY <2>1, <2>2 DEF RowInv
<1>7. CASE ApiRestart
  BY <1>7 DEF ApiRestart, Rows
<1>8. CASE Arrive \/ Disconnect \/ Reconnect \/ ControlOn \/ (\E m \in inbox : RateLimited(m)) \/ DesktopRestart \/ ControlOff
  <2>1. UNCHANGED <<rec, row, saves>> /\ crossed \subseteq crossed'
    BY <1>8 DEF Arrive, Disconnect, Reconnect, ControlOn, RateLimited, DesktopRestart, ControlOff, apiVars
  <2> QED BY <1>2, <2>1
<1>9. CASE \/ \E b \in Web : \/ Deliver(b) \/ Approve(b) \/ \E next \in {"denied", "expired"} : EndApproval(b, next)
                            \/ \E ok \in BOOLEAN : Executed(b, ok)
           \/ \E b \in Own \cup Tools : OwnStart(b) \/ \E ok \in BOOLEAN : OwnDone(b, ok)
  <2>1. UNCHANGED <<rec, row, saves, crossed>>
    BY <1>9 DEF Deliver, Approve, EndApproval, Executed, OwnStart, OwnDone, apiVars
  <2> QED BY <1>2, <2>1
<1>10. CASE UNCHANGED controlVars
  BY <1>2, <1>10 DEF controlVars
<1> QED BY <1>4, <1>5, <1>6, <1>7, <1>8, <1>9, <1>10 DEF ControlNext, Api, Desktop

\* What a restart of the API would load is what the dashboard was told, once the
\* saves have landed, unless two saves of one action overlapped (the write queue
\* of the action store and the rows of actionsRepo and toolsRepo).
THEOREM RowsFollow == ControlSpec => []RowFollows
<1>1. ControlInit => RowInv
  <2> SUFFICES ASSUME ControlInit PROVE \A a \in Actions : Rows(a)
    BY InitTruthInv DEF RowInv
  <2> QED BY DEF ControlInit, Rows
<1>2. RowInv => RowFollows
  BY DEF RowInv, Rows, RowFollows
<1> QED BY <1>1, <1>2, NextRowInv, PTL DEF ControlSpec
=============================================================================
