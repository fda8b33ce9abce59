----------------------------- MODULE RunRecord -----------------------------
(***************************************************************************)
(* What the API keeps of one run of the assistant (ai_assist, with an      *)
(* owner): the run and its actions in memory, and their rows.  Texts are   *)
(* redacted on the way to a row, and a restart loads the rows in place of  *)
(* what was in memory.  A handler goes on over its awaits, handlers of one *)
(* socket overlap, and a save writes the run as it was when it was called. *)
(***************************************************************************)
EXTENDS Naturals, FiniteSets, Sequences, SequencesExt

CONSTANTS Actions,      \* actionIds the desktop makes
          Lengths,      \* lengths of the texts of users
          MaxEvents     \* bound: messages of the desktop and restarts

ASSUME RecordAssumption == Lengths \subseteq Nat /\ MaxEvents \in Nat

VARIABLES store,        \* the run in memory: status, latestProposal, actionCount, its last log line
          row,          \* its row
          saves,        \* snapshots on their way to the row, in the order of the calls
          actions,      \* actions in memory
          actionRows,   \* their rows
          handler,      \* what device.action.create awaits, for each action
          recovered,    \* history: the run was marked at a restart
          events

recordVars == <<store, row, saves, actions, actionRows, handler, recovered, events>>

(* A text: of a user, redacted, or of the program; its own length and the  *)
(* blanks around it, the length it tells, and (history) the length of what *)
(* it stands for.  A command is one word, its arguments are separate.      *)
Kinds == {"none", "type", "action", "fs", "terminal", "ask_user", "done", "answer"}
Text(kind, n) == [kind |-> kind, form |-> "raw", len |-> n, blanks |-> 0, says |-> n, of |-> n]
Fixed(kind) == [kind |-> kind, form |-> "fixed", len |-> 0, blanks |-> 0, says |-> 0, of |-> 0]
NoText == Fixed("none")

Digits(n) == IF n < 10 THEN 1 ELSE IF n < 100 THEN 2 ELSE 3
RedactedLength(n) == 17 + Digits(n)       \* '[redacted n chars]'

\* The schemas' limits on the text typed, on the command, and on a question, a summary
\* or a rationale; contents of files have none.
SchemaLimit(kind) == CASE kind = "type" -> 500 [] kind = "terminal" -> 64 [] OTHER -> 2000

Accepted(p) == p.kind = "fs" \/ p.len <= SchemaLimit(p.kind)

(* sanitizeAgentProposalForPersistence: a text that is typed is replaced by  *)
(* its length, the arguments of tools, questions and summaries by fixed      *)
(* ones.  The name of a command stays, and so does any other action, with    *)
(* the application it opens, or tool; only its rationale is replaced.        *)
SanitizeProposal(p) ==
  CASE p.kind = "type" -> [p EXCEPT !.form = "redacted", !.says = p.len, !.len = RedactedLength(p.len)]
    [] p.kind = "terminal" -> [p EXCEPT !.form = "name"]
    [] p.kind \in {"fs", "ask_user", "done"} -> Fixed(p.kind)
    [] OTHER -> p

(* sanitizeRunLogLine: an answer of the user is replaced by its length        *)
(* without the blanks around it; a line that was replaced is left as it is. *)
SanitizeLogLine(l) == IF l.form = "raw" THEN [l EXCEPT !.form = "redacted", !.says = l.len - l.blanks] ELSE l

SanitizeRun(run) ==
  [run EXCEPT !.latestProposal = SanitizeProposal(@), !.log = SanitizeLogLine(@)]

IsInProgress(run) == run.status = "running"

-----------------------------------------------------------------------------
RecordInit ==
  /\ store = [status |-> "running", latestProposal |-> NoText, actionCount |-> 0, log |-> NoText]
  /\ row = store
  /\ saves = <<>>
  /\ actions = [a \in Actions |-> NoText] /\ actionRows = actions
  /\ handler = [a \in Actions |-> "none"]
  /\ recovered = FALSE
  /\ events = 0

Event == events < MaxEvents /\ events' = events + 1

\* persistRun after a change of the run in memory.
ChangeRun(run) == store' = run /\ saves' = Append(saves, SanitizeRun(run))

DeviceAgentProposal(p) ==
  /\ Event
  /\ IF Accepted(p)
     THEN ChangeRun([store EXCEPT !.latestProposal = p])
     ELSE UNCHANGED <<store, saves>>
  /\ UNCHANGED <<row, actions, actionRows, handler, recovered>>

(* The answer of the user, as the desktop sends it and as it is received;  *)
(* one that is blank cannot be given.                                       *)
DeviceRunLog(n, blanks) ==
  /\ Event /\ blanks < n
  /\ LET sent == SanitizeLogLine([Text("answer", n) EXCEPT !.blanks = blanks])
     IN ChangeRun([store EXCEPT !.log = SanitizeLogLine(sent)])
  /\ UNCHANGED <<row, actions, actionRows, handler, recovered>>

(* device.run.update, which any status passes. *)
DeviceRunUpdate ==
  /\ Event
  /\ ChangeRun([store EXCEPT !.status = "done"])
  /\ UNCHANGED <<row, actions, actionRows, handler, recovered>>

(* device.action.create: the action is in memory at once, then it is saved, *)
(* then it is counted.                                                      *)
DeviceActionCreate(a, kind, n) ==
  /\ Event
  /\ handler[a] = "none" /\ Accepted(Text(kind, n))
  /\ actions' = [actions EXCEPT ![a] = Text(kind, n)]
  /\ handler' = [handler EXCEPT ![a] = "created"]
  /\ UNCHANGED <<store, row, saves, actionRows, recovered>>

(* serializeAction and rowToAction: of a text the length is saved, and as   *)
(* many stars are loaded.                                                  *)
SerializeAction(action) == IF action.kind = "type" THEN [action EXCEPT !.form = "length"] ELSE action

RowToAction(actionRow) == IF actionRow.kind = "type" THEN [actionRow EXCEPT !.form = "stars"] ELSE actionRow

ActionSaved(a) ==
  /\ handler[a] = "created"
  /\ actionRows' = [actionRows EXCEPT ![a] = SerializeAction(actions[a])]
  /\ handler' = [handler EXCEPT ![a] = "saved"]
  /\ UNCHANGED <<store, row, saves, actions, recovered, events>>

(* The write fails: the handler ends. *)
ActionNotSaved(a) ==
  /\ handler[a] = "created"
  /\ handler' = [handler EXCEPT ![a] = "counted"]
  /\ UNCHANGED <<store, row, saves, actions, actionRows, recovered, events>>

(* Mutant: the action is counted without waiting for its row. *)
CountAtOnce(a) ==
  /\ handler[a] = "created"
  /\ ChangeRun([store EXCEPT !.actionCount = @ + 1])
  /\ handler' = [handler EXCEPT ![a] = "counted"]
  /\ UNCHANGED <<row, actions, actionRows, recovered, events>>

ActionCounted(a) ==
  /\ handler[a] = "saved"
  /\ ChangeRun([store EXCEPT !.actionCount = @ + 1])
  /\ handler' = [handler EXCEPT ![a] = "counted"]
  /\ UNCHANGED <<row, actions, actionRows, recovered, events>>

(* device.action.result, which saves the action anew. *)
DeviceActionResult(a) ==
  /\ Event /\ handler[a] # "none" /\ actions[a] # NoText
  /\ actionRows' = [actionRows EXCEPT ![a] = SerializeAction(actions[a])]
  /\ UNCHANGED <<store, row, saves, actions, handler, recovered>>

(* A transaction commits, on a connection of its own, or fails. *)
SaveEnds(i) ==
  /\ row' \in {row, saves[i]}
  /\ saves' = RemoveAt(saves, i)
  /\ UNCHANGED <<store, actions, actionRows, handler, recovered, events>>

(* The rows are loaded, then recoverInProgressRunsOnStartup reads the runs  *)
(* in progress again and saves them as failed: the copies it reads, not    *)
(* what was loaded.                                                        *)
Restart ==
  /\ Event
  /\ store' = row
  /\ actions' = [a \in Actions |-> RowToAction(actionRows[a])]
  /\ row' = IF IsInProgress(row) THEN SanitizeRun([row EXCEPT !.status = "failed"]) ELSE row
  /\ recovered' = (recovered \/ IsInProgress(row))
  /\ saves' = <<>>
  /\ handler' = [a \in Actions |-> IF handler[a] = "none" THEN "none" ELSE "counted"]
  /\ UNCHANGED actionRows

RecordNext ==
  \/ \E kind \in Kinds \ {"none", "answer"}, n \in Lengths : DeviceAgentProposal(Text(kind, n))
  \/ \E n \in Lengths, blanks \in {0, 1} : DeviceRunLog(n, blanks)
  \/ DeviceRunUpdate \/ Restart
  \/ \E a \in Actions :
       \/ \E kind \in {"type", "action"}, n \in Lengths : DeviceActionCreate(a, kind, n)
       \/ ActionSaved(a) \/ ActionNotSaved(a) \/ ActionCounted(a) \/ DeviceActionResult(a)
  \/ \E i \in DOMAIN saves : SaveEnds(i)

RecordSpec == RecordInit /\ [][RecordNext]_recordVars

-----------------------------------------------------------------------------
TextType == [kind : Kinds, form : {"raw", "fixed", "name", "redacted", "length", "stars"},
             len : Nat, blanks : Nat, says : Nat, of : Nat]
RunType == [status : {"running", "done", "failed"}, latestProposal : TextType, actionCount : Nat,
            log : TextType]

\* Types of the run, its actions and their rows; a text in memory is never longer than
\* the schema allows, loaded or not.
RecordTypeOK ==
  /\ {store, row} \subseteq RunType /\ saves \in Seq(RunType)
  /\ {actions, actionRows} \subseteq [Actions -> TextType]
  /\ handler \in [Actions -> {"none", "created", "saved", "counted"}] /\ recovered \in BOOLEAN
  /\ \A text \in {store.latestProposal} \cup {actions[a] : a \in Actions} :
       text.kind = "type" => text.len <= 500

(* docs/protocol.md: "Screenshots and typed text are never persisted on     *)
(* server".  Of what the model proposes a row or a save under way holds     *)
(* only an action that types nothing, of the user's answers no text, and    *)
(* what is loaded at a restart does not come back as one.                   *)
RowsAreRedacted ==
  /\ \A run \in {row} \cup ToSet(saves) :
       (run.latestProposal.form = "raw" => run.latestProposal.kind = "action") /\ run.log.form # "raw"
  /\ \A a \in Actions : actionRows[a].kind = "type" => actionRows[a].form = "length"

(* Through every save, restart and result the row of an action that types   *)
(* tells the length of what was typed; the line of an answer, which is      *)
(* redacted on the desktop, on the way in and at every save, that of the    *)
(* answer without the blanks around it.                                     *)
LengthIsKept ==
  /\ \A a \in Actions : actionRows[a].kind = "type" => actionRows[a].len = actionRows[a].of
  /\ row.log.says = row.log.of - row.log.blanks

(* Whatever fails, is reordered or is lost in a restart, the actions that   *)
(* the run counts, in memory or in its row, are among those that have rows. *)
CountIsOfRows ==
  \A run \in {store, row} \cup ToSet(saves) :
    run.actionCount <= Cardinality({a \in Actions : actionRows[a].kind # "none"})

(* tests/shared-privacy-redaction.test.ts: a text of 18 characters is       *)
(* recorded as "[redacted 18 chars]".                                       *)
ProposalLengthIsKept ==
  row.latestProposal.kind = "type" => row.latestProposal.says = row.latestProposal.of

(* README.md: "In-progress run recovery on API restart is controlled by     *)
(* RUN_RECOVERY_POLICY, marking stale in-progress runs with reason          *)
(* server_restart".  A run that was marked is not in progress again.        *)
RecoveredStaysEnded == recovered => ~IsInProgress(row)
=============================================================================
