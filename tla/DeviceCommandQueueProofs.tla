---------------------- MODULE DeviceCommandQueueProofs ----------------------
(***************************************************************************)
(* Proofs about DeviceCommandQueue, for any number of commands, handlers,  *)
(* sockets, failures and restarts: a step leaves behind only tasks that    *)
(* know why they do what they do, so that nothing is dropped in silence    *)
(* and the queue implements CommandDelivery.  Without failures nothing     *)
(* gets stuck, and a memory of answers that is large enough lets one run   *)
(* of the desktop handle a command once.                                   *)
(***************************************************************************)
EXTENDS DeviceCommandQueue, SequenceTheorems, FiniteSetTheorems, TLAPS

TaskRecord == [pc : Pc, cmd : Command \cup {NoCommand},
               why : Reason \cup Verdict, read : {"none", "pending", "new"}]
Message == [cmd : Command, ans : Verdict]

\* The parts of the type invariant.
StreamTyped ==
  /\ streamId \in [Command -> Nat] /\ lastId \in Nat /\ stream \subseteq Command
  /\ pel \subseteq Command /\ lastDelivered \in Nat /\ entry \subseteq Command
  /\ ackKey \in [Command -> AckValue] /\ retry \in [Command -> {"none", "waiting", "due"}]
TaskTyped == task \in [Task -> TaskRecord]
SocketTyped ==
  /\ gateway \in Socket \cup {NoSocket} /\ inFlight \in Command \cup {NoCommand}
  /\ sock \in [Socket -> SockPhase] /\ client \in Socket \cup {NoSocket}
ToDeviceTyped == toDevice \in [Socket -> Seq(Command)]
MessageTyped  == toServer \in [Socket -> Seq(Message)] /\ handledAcks \in Seq(Message)
HistoryTyped ==
  /\ expired \subseteq Command /\ answers \in [Command -> SUBSET Verdict]
  /\ ran \subseteq Command /\ replayed \subseteq Command /\ applied \in [Command -> Nat]
  /\ faults \in Nat /\ crashes \in Nat
Typed == StreamTyped /\ TaskTyped /\ SocketTyped /\ ToDeviceTyped /\ MessageTyped /\ HistoryTyped

\* A task that deletes an entry has a terminal answer of the device, or knows
\* that the command has expired; one that handles an answer holds an answer the
\* device gave.
Justified(r, ans, over) == IF r.why \in Verdict THEN r.why \in ans[r.cmd] \ {"retry"} ELSE r.cmd \in over
TaskOK(r, ans, over) ==
  /\ r.pc \in {"timeout", "send", "sendFailed"} => r.cmd \in Command
  /\ r.pc \in {"lookup", "nack", "setAck"} =>
       r.cmd \in Command /\ r.why \in Verdict /\ r.why \in ans[r.cmd]
  /\ r.pc = "setAck" => r.why # "retry"
  /\ r.pc \in {"xack", "xdel"} => r.cmd \in Command /\ Justified(r, ans, over)
ReasonTrue == \A t \in Task : TaskOK(task[t], answers, expired)

\* The answers on their way and those the desktop keeps were given.
Given(a) == a.ans \in answers[a.cmd]
MessagesTrue ==
  /\ \A s \in Socket : \A i \in DOMAIN toServer[s] : Given(toServer[s][i])
  /\ \A i \in DOMAIN handledAcks : Given(handledAcks[i])

\* A command is added to the stream once: its task does not become idle again,
\* and deletes entries for cleanup only.
QueuedOnce ==
  \A c \in Command :
    /\ c \in stream => streamId[c] > 0
    /\ streamId[c] > 0 => task[c].pc # "idle"
    /\ task[c].pc \in {"idle", "done", "setEntry", "direct", "scan", "xack", "xdel"}
    /\ task[c].pc \in {"xack", "xdel"} => task[c].why = "cleanup"

\* The inductive invariant.
QueueInv == Typed /\ ReasonTrue /\ MessagesTrue /\ QueuedOnce /\ RecordsTellTheTruth /\ NoSilentDrop

\* Verdicts and reasons are told apart, and tasks of different kinds.
LEMMA Distinct ==
  /\ "cleanup" \notin Verdict /\ "lapsed" \notin Verdict /\ "none" \notin Verdict
  /\ Verdict \subseteq {"ok", "reject", "retry"}
  /\ \A s \in Socket : s \in Task /\ s \notin Command
  /\ \A h \in Handler : h \in Task /\ h \notin Command
  /\ \A c \in Command : c \in Task
BY BoundsAssumption, DistinctAssumption DEF Task

\* A task that has gone from one record to another.
LEMMA MoveKeeps ==
  ASSUME TaskTyped, ReasonTrue, NEW t \in Task, NEW r \in TaskRecord, TaskOK(r, answers', expired'),
         task' = [task EXCEPT ![t] = r],
         \A c \in Command : answers[c] \subseteq answers'[c], expired \subseteq expired'
  PROVE  ReasonTrue' /\ TaskTyped'
<1>1. task \in [Task -> TaskRecord]
  BY DEF TaskTyped
<1>2. task' \in [Task -> TaskRecord] /\ task'[t] = r /\ \A u \in Task \ {t} : task'[u] = task[u]
  BY <1>1
<1>3. ASSUME NEW u \in Task \ {t} PROVE TaskOK(task'[u], answers', expired')
  <2>1. TaskOK(task[u], answers, expired) /\ task'[u] = task[u] /\ task[u] \in TaskRecord
    BY <1>1, <1>2 DEF ReasonTrue
  <2> QED BY <2>1 DEF TaskOK, Justified
<1> QED BY <1>2, <1>3 DEF ReasonTrue, TaskTyped, TaskOK, Justified

\* A step in which every task stays where it is.
LEMMA StayKeeps ==
  ASSUME TaskTyped, ReasonTrue, task' = task,
         \A c \in Command : answers[c] \subseteq answers'[c], expired \subseteq expired'
  PROVE  ReasonTrue'
<1>1. ASSUME NEW u \in Task PROVE TaskOK(task'[u], answers', expired')
  <2>1. TaskOK(task[u], answers, expired) /\ task'[u] = task[u]
    BY DEF ReasonTrue
  <2> QED BY <2>1 DEF TaskOK, Justified
<1> QED BY <1>1 DEF ReasonTrue

\* A step that adds nothing to the stream and moves no task of a command.
LEMMA OnceKeeps ==
  ASSUME QueuedOnce, stream' \subseteq stream, streamId' = streamId, \A c \in Command : task'[c] = task[c]
  PROVE  QueuedOnce'
BY DEF QueuedOnce

\* One in which one task moves.
LEMMA OnceMove ==
  ASSUME TaskTyped, QueuedOnce, stream' \subseteq stream, streamId' = streamId,
         NEW t \in Task, NEW r, task' = [task EXCEPT ![t] = r],
         t \in Command => /\ r.pc \in {"done", "scan", "xack", "xdel"}
                          /\ r.pc \in {"xack", "xdel"} => r.why = "cleanup"
  PROVE  QueuedOnce'
<1>1. task'[t] = r /\ \A u \in Task \ {t} : task'[u] = task[u]
  BY DEF TaskTyped
<1>2. Command \subseteq Task
  BY Distinct
<1> QED BY <1>1, <1>2 DEF QueuedOnce

\* A step that leaves the histories and the records alone.
LEMMA RecordsStay ==
  ASSUME RecordsTellTheTruth, NoSilentDrop, UNCHANGED <<streamId, stream, ackKey, expired, answers, applied>>
  PROVE  RecordsTellTheTruth' /\ NoSilentDrop'
BY DEF RecordsTellTheTruth, NoSilentDrop, Answered

\* A step that leaves the messages alone.
LEMMA MessagesStay ==
  ASSUME MessagesTrue, UNCHANGED <<toServer, handledAcks, answers>>
  PROVE  MessagesTrue'
BY DEF MessagesTrue, Given

\* What socket.send puts on its way.
LEMMA TransmitKeeps ==
  ASSUME ToDeviceTyped, NEW s \in Socket, NEW c \in Command, Transmit(s, c)
  PROVE  ToDeviceTyped'
<1>1. Append(toDevice[s], c) \in Seq(Command)
  BY AppendProperties DEF ToDeviceTyped
<1> QED BY <1>1 DEF Transmit, ToDeviceTyped

-----------------------------------------------------------------------------
\* The enqueue of a command.
LEMMA EnqueueKeeps ==
  ASSUME QueueInv, NEW c \in Command, EnqueueStep(c)
  PROVE  QueueInv'
<1> USE DEF QueueInv, Typed
<1>t. task \in [Task -> TaskRecord] /\ c \in Task /\ task[c] \in TaskRecord
  BY Distinct DEF TaskTyped
<1>1. CASE EnqueueXadd(c)
  <2>0. task[c].pc = "idle"
    BY <1>1 DEF EnqueueXadd, Idle
  <2>1. PICK pc \in {"setEntry", "direct"} : task' = [task EXCEPT ![c] = [task[c] EXCEPT !.pc = pc]]
    BY <1>1 DEF EnqueueXadd, Goto
  <2> DEFINE r == [task[c] EXCEPT !.pc = pc]
  <2>2. r \in TaskRecord /\ TaskOK(r, answers', expired') /\ r.pc = pc
    BY <1>t DEF TaskRecord, Pc, TaskOK
  <2>3. ReasonTrue' /\ TaskTyped'
    BY <1>1, <1>t, <2>1, <2>2, MoveKeeps DEF EnqueueXadd, histVars
  <2>4. StreamTyped'
    BY <1>1 DEF EnqueueXadd, Xadd, StreamTyped
  <2>5. SocketTyped' /\ ToDeviceTyped' /\ MessageTyped' /\ HistoryTyped'
    BY <1>1 DEF EnqueueXadd, SocketTyped, ToDeviceTyped, MessageTyped, HistoryTyped, deviceVars, histVars, Works, Fails
  <2>6. MessagesTrue'
    BY <1>1, MessagesStay DEF EnqueueXadd, deviceVars, histVars
  <2>7. streamId[c] = 0 /\ c \notin stream
    BY <2>0 DEF QueuedOnce, StreamTyped
  <2>8. QueuedOnce'
    BY <1>1, <1>t, <2>1, <2>2, <2>7 DEF EnqueueXadd, Xadd, QueuedOnce, StreamTyped
  <2>9. RecordsTellTheTruth' /\ NoSilentDrop'
    BY <1>1, <2>7 DEF EnqueueXadd, Xadd, histVars, RecordsTellTheTruth, NoSilentDrop, Answered, StreamTyped
  <2> QED BY <2>3, <2>4, <2>5, <2>6, <2>8, <2>9
<1>2. CASE EnqueueSetEntry(c)
  <2> DEFINE r == [task[c] EXCEPT !.pc = "scan"]
  <2>1. task' = [task EXCEPT ![c] = r]
    BY <1>2 DEF EnqueueSetEntry, Goto
  <2>2. r \in TaskRecord /\ TaskOK(r, answers', expired') /\ r.pc = "scan"
    BY <1>t DEF TaskRecord, Pc, TaskOK
  <2>3. ReasonTrue' /\ TaskTyped'
    BY <1>2, <1>t, <2>1, <2>2, MoveKeeps DEF EnqueueSetEntry, histVars
  <2>4. StreamTyped'
    BY <1>2 DEF EnqueueSetEntry, StreamTyped
  <2>5. SocketTyped' /\ ToDeviceTyped' /\ MessageTyped' /\ HistoryTyped'
    BY <1>2 DEF EnqueueSetEntry, SocketTyped, ToDeviceTyped, MessageTyped, HistoryTyped, deviceVars, histVars, Works, Fails
  <2>6. MessagesTrue'
    BY <1>2, MessagesStay DEF EnqueueSetEntry, deviceVars, histVars
  <2>7. QueuedOnce'
    BY <1>2, <1>t, <2>1, <2>2 DEF EnqueueSetEntry, QueuedOnce
  <2>8. RecordsTellTheTruth' /\ NoSilentDrop'
    BY <1>2, RecordsStay DEF EnqueueSetEntry, histVars
  <2> QED BY <2>3, <2>4, <2>5, <2>6, <2>7, <2>8
<1>3. CASE SendDirect(c)
  <2> DEFINE r == [Idle EXCEPT !.pc = "done"]
  <2>1. task' = [task EXCEPT ![c] = r]
    BY <1>3 DEF SendDirect, Finish
  <2>2. r \in TaskRecord /\ TaskOK(r, answers', expired') /\ r.pc = "done"
    BY DEF TaskRecord, Pc, TaskOK, Idle, Reason
  <2>3. ReasonTrue' /\ TaskTyped'
    BY <1>3, <1>t, <2>1, <2>2, MoveKeeps DEF SendDirect, histVars
  <2>4. ToDeviceTyped'
    <3>1. CASE \E s \in Socket : Transmit(s, c)
      BY <3>1, TransmitKeeps
    <3> QED BY <1>3, <3>1 DEF SendDirect, ToDeviceTyped
  <2>5. StreamTyped' /\ SocketTyped' /\ MessageTyped' /\ HistoryTyped'
    BY <1>3 DEF SendDirect, StreamTyped, SocketTyped, MessageTyped, HistoryTyped, redisVars, histVars
  <2>6. MessagesTrue'
    BY <1>3, MessagesStay DEF SendDirect, histVars
  <2>7. QueuedOnce'
    BY <1>3, <1>t, <2>1, <2>2 DEF SendDirect, redisVars, QueuedOnce
  <2>8. RecordsTellTheTruth' /\ NoSilentDrop'
    BY <1>3, RecordsStay DEF SendDirect, redisVars, histVars
  <2> QED BY <2>3, <2>4, <2>5, <2>6, <2>7, <2>8
<1> QED BY <1>1, <1>2, <1>3 DEF EnqueueStep

-----------------------------------------------------------------------------
\* Cleanup and the deletion of an entry.
LEMMA DeleteKeeps ==
  ASSUME QueueInv, NEW t \in Task, DeleteStep(t)
  PROVE  QueueInv'
<1> USE DEF QueueInv, Typed
<1>t. task \in [Task -> TaskRecord] /\ task[t] \in TaskRecord
  BY DEF TaskTyped
<1>1. CASE Scan(t)
  <2>1. PICK r \in TaskRecord :
          /\ task' = [task EXCEPT ![t] = r] /\ TaskOK(r, answers', expired')
          /\ r.pc \in {"done", "read", "xack"} /\ (t \in Command => r.pc # "read") /\ (r.pc = "xack" => r.why = "cleanup")
    <3>1. ASSUME NEW h \in expired, task' = [task EXCEPT ![t].pc = "xack", ![t].cmd = h, ![t].why = "cleanup"]
          PROVE  \E r \in TaskRecord :
                   /\ task' = [task EXCEPT ![t] = r] /\ TaskOK(r, answers', expired')
                   /\ r.pc = "xack" /\ r.why = "cleanup"
      <4> DEFINE r == [task[t] EXCEPT !.pc = "xack", !.cmd = h, !.why = "cleanup"]
      <4>1. h \in Command /\ expired' = expired
        BY <1>1 DEF HistoryTyped, Scan, histVars
      <4>2. r \in TaskRecord /\ r.pc = "xack" /\ r.cmd = h /\ r.why = "cleanup"
        BY <1>t, <4>1 DEF TaskRecord, Pc, Reason
      <4>3. TaskOK(r, answers', expired')
        BY <4>1, <4>2, Distinct DEF TaskOK, Justified
      <4> QED BY <3>1, <4>2, <4>3
    <3>2. ASSUME t \in Command, Finish(t)
          PROVE  \E r \in TaskRecord : task' = [task EXCEPT ![t] = r] /\ TaskOK(r, answers', expired') /\ r.pc = "done"
      <4> DEFINE r == [Idle EXCEPT !.pc = "done"]
      <4>1. task' = [task EXCEPT ![t] = r]
        BY <3>2 DEF Finish
      <4>2. r \in TaskRecord /\ TaskOK(r, answers', expired') /\ r.pc = "done"
        BY DEF TaskRecord, Pc, TaskOK, Idle, Reason
      <4> QED BY <4>1, <4>2
    <3>3. ASSUME t \notin Command, task' = [task EXCEPT ![t].pc = "read"]
          PROVE  \E r \in TaskRecord : task' = [task EXCEPT ![t] = r] /\ TaskOK(r, answers', expired') /\ r.pc = "read"
      <4> DEFINE r == [task[t] EXCEPT !.pc = "read"]
      <4>1. r \in TaskRecord /\ TaskOK(r, answers', expired') /\ r.pc = "read"
        BY <1>t DEF TaskRecord, Pc, TaskOK
      <4> QED BY <3>3, <4>1
    <3>4. \/ \E h \in expired : task' = [task EXCEPT ![t].pc = "xack", ![t].cmd = h, ![t].why = "cleanup"]
          \/ t \in Command /\ Finish(t)
          \/ t \notin Command /\ task' = [task EXCEPT ![t].pc = "read"]
      BY <1>1 DEF Scan, Cleanup
    <3> QED BY <3>1, <3>2, <3>3, <3>4
  <2>2. ReasonTrue' /\ TaskTyped'
    BY <1>1, <2>1, MoveKeeps DEF Scan, histVars
  <2>3. QueuedOnce'
    BY <1>1, <2>1, OnceMove DEF Scan
  <2>4. \/ ackKey' = ackKey
        \/ \E h \in expired : ackKey' = [ackKey EXCEPT ![h] = "expired"]
    BY <1>1 DEF Scan, Cleanup
  <2>5. StreamTyped'
    BY <1>1, <2>4 DEF Scan, StreamTyped, AckValue
  <2>6. SocketTyped' /\ ToDeviceTyped' /\ MessageTyped' /\ HistoryTyped'
    <3>0. Works \/ Fails
      BY <1>1 DEF Scan, Cleanup
    <3>1. faults' \in Nat
      BY <3>0 DEF HistoryTyped, Works, Fails
    <3> QED BY <1>1, <3>1 DEF Scan, SocketTyped, ToDeviceTyped, MessageTyped, HistoryTyped, deviceVars, histVars
  <2>7. MessagesTrue'
    BY <1>1, MessagesStay DEF Scan, deviceVars, histVars
  <2>8. RecordsTellTheTruth' /\ NoSilentDrop'
    BY <1>1, <2>4 DEF Scan, histVars, RecordsTellTheTruth, NoSilentDrop, Answered, StreamTyped
  <2> QED BY <2>2, <2>3, <2>5, <2>6, <2>7, <2>8
<1>2. CASE Xack(t)
  <2> DEFINE r == [task[t] EXCEPT !.pc = "xdel"]
  <2>1. task' = [task EXCEPT ![t] = r] /\ task[t].pc = "xack" /\ UNCHANGED histVars
    BY <1>2 DEF Xack, Goto
  <2>2. r \in TaskRecord /\ r.pc = "xdel" /\ r.cmd = task[t].cmd /\ r.why = task[t].why
    BY <1>t DEF TaskRecord, Pc
  <2>3. TaskOK(r, answers', expired')
    BY <2>1, <2>2 DEF ReasonTrue, TaskOK, Justified, histVars
  <2>4. ReasonTrue' /\ TaskTyped'
    BY <2>1, <2>2, <2>3, MoveKeeps DEF histVars
  <2>5. QueuedOnce'
    BY <1>2, <2>1, <2>2, OnceMove DEF Xack, QueuedOnce
  <2>6. StreamTyped'
    BY <1>2 DEF Xack, StreamTyped
  <2>7. SocketTyped' /\ ToDeviceTyped' /\ MessageTyped' /\ HistoryTyped'
    BY <1>2 DEF Xack, SocketTyped, ToDeviceTyped, MessageTyped, HistoryTyped, deviceVars, histVars, Works, Fails
  <2>8. MessagesTrue'
    BY <1>2, MessagesStay DEF Xack, deviceVars, histVars
  <2>9. RecordsTellTheTruth' /\ NoSilentDrop'
    BY <1>2, RecordsStay DEF Xack, histVars
  <2> QED BY <2>4, <2>5, <2>6, <2>7, <2>8, <2>9
<1>3. CASE Xdel(t)
  <2> DEFINE c == task[t].cmd
  <2>0. task[t].pc = "xdel" /\ UNCHANGED <<expired, answers, ran, replayed, ackKey, streamId, crashes>>
    BY <1>3 DEF Xdel
  <2>1. c \in Command /\ Justified(task[t], answers, expired)
    BY <2>0 DEF ReasonTrue, TaskOK
  <2>2. PICK r \in TaskRecord :
          /\ task' = [task EXCEPT ![t] = r] /\ r.pc \in {"scan", "top", "idle"}
          /\ task[t].why = "cleanup" => r.pc = "scan"
    <3>1. /\ [task[t] EXCEPT !.pc = "scan", !.cmd = NoCommand, !.why = "none"] \in TaskRecord
          /\ [task[t] EXCEPT !.pc = "scan", !.cmd = NoCommand, !.why = "none"].pc = "scan"
      BY <1>t DEF TaskRecord, Pc, Reason
    <3>2. AfterEmptyRead(t) \in TaskRecord /\ AfterEmptyRead(t).pc \in {"scan", "top"}
      BY DEF AfterEmptyRead, Idle, TaskRecord, Pc, Reason
    <3>3. Idle \in TaskRecord /\ Idle.pc = "idle"
      BY DEF Idle, TaskRecord, Pc, Reason
    <3>4. \E r \in {[task[t] EXCEPT !.pc = "scan", !.cmd = NoCommand, !.why = "none"], AfterEmptyRead(t), Idle} :
            /\ task' = [task EXCEPT ![t] = r]
            /\ task[t].why = "cleanup" => r = [task[t] EXCEPT !.pc = "scan", !.cmd = NoCommand, !.why = "none"]
      BY <1>3 DEF Xdel
    <3> QED BY <3>1, <3>2, <3>3, <3>4
  <2>3. ReasonTrue' /\ TaskTyped'
    <3>1. TaskOK(r, answers', expired')
      BY <2>2 DEF TaskOK
    <3> QED BY <2>0, <2>2, <3>1, MoveKeeps
  <2>4. stream' \subseteq stream /\ stream \ stream' \subseteq {c}
    BY <1>3 DEF Xdel
  <2>5. QueuedOnce'
    <3>1. t \in Command => task[t].why = "cleanup"
      BY <2>0 DEF QueuedOnce
    <3> QED BY <2>0, <2>2, <2>4, <3>1, OnceMove
  <2>6. StreamTyped'
    BY <1>3, <2>4 DEF Xdel, StreamTyped
  <2>7. applied' \in [Command -> Nat] /\ \A d \in Command : applied'[d] > 0 => applied[d] > 0 \/ (d = c /\ task[t].why \in Verdict)
    BY <1>3, <2>1 DEF Xdel, HistoryTyped
  <2>8. SocketTyped' /\ ToDeviceTyped' /\ MessageTyped' /\ HistoryTyped'
    BY <1>3, <2>7 DEF Xdel, SocketTyped, ToDeviceTyped, MessageTyped, HistoryTyped, deviceVars, Works, Fails
  <2>9. MessagesTrue'
    BY <1>3, MessagesStay DEF Xdel, deviceVars
  <2>10. Answered(c) \/ c \in expired
    BY <2>1, Distinct DEF Justified, Answered
  <2>11. task[t].why \in Verdict => Answered(c)
    BY <2>1, Distinct DEF Justified, Answered
  <2>12. RecordsTellTheTruth' /\ NoSilentDrop'
    BY <2>0, <2>4, <2>7, <2>10, <2>11 DEF RecordsTellTheTruth, NoSilentDrop, Answered
  <2> QED BY <2>3, <2>5, <2>6, <2>8, <2>9, <2>12
<1> QED BY <1>1, <1>2, <1>3 DEF DeleteStep

-----------------------------------------------------------------------------
\* Records of tasks that hold no command.
LEMMA RestingRecords ==
  ASSUME NEW t \in Task
  PROVE  /\ Idle \in TaskRecord /\ TaskOK(Idle, answers, expired)
         /\ [Idle EXCEPT !.pc = "top"] \in TaskRecord /\ TaskOK([Idle EXCEPT !.pc = "top"], answers, expired)
         /\ AfterEmptyRead(t) \in TaskRecord /\ TaskOK(AfterEmptyRead(t), answers, expired)
<1>1. \A r \in TaskRecord : r.pc \in {"idle", "top", "scan"} => TaskOK(r, answers, expired)
  BY DEF TaskOK
<1>2. Idle \in TaskRecord /\ Idle.pc = "idle"
  BY DEF Idle, TaskRecord, Pc, Reason
<1>3. [Idle EXCEPT !.pc = "top"] \in TaskRecord /\ [Idle EXCEPT !.pc = "top"].pc = "top"
  BY DEF Idle, TaskRecord, Pc, Reason
<1>4. AfterEmptyRead(t) \in TaskRecord /\ AfterEmptyRead(t).pc \in {"scan", "top"}
  BY <1>3 DEF AfterEmptyRead, TaskRecord, Pc, Reason
<1> QED BY <1>1, <1>2, <1>3, <1>4

\* What a read makes of an entry.
LEMMA ExamineMoves ==
  ASSUME TaskTyped, NEW s \in Socket, NEW c \in Command, Examine(s, c)
  PROVE  \E r \in TaskRecord : task' = [task EXCEPT ![s] = r] /\ TaskOK(r, answers, expired)
<1>t. s \in Task /\ task[s] \in TaskRecord
  BY Distinct DEF TaskTyped
<1>1. ASSUME c \in expired, task' = [task EXCEPT ![s].pc = "xack", ![s].cmd = c, ![s].why = "lapsed"]
      PROVE  \E r \in TaskRecord : task' = [task EXCEPT ![s] = r] /\ TaskOK(r, answers, expired)
  <2> DEFINE r == [task[s] EXCEPT !.pc = "xack", !.cmd = c, !.why = "lapsed"]
  <2>1. r \in TaskRecord /\ r.pc = "xack" /\ r.cmd = c /\ r.why = "lapsed"
    BY <1>t DEF TaskRecord, Pc, Reason
  <2>2. TaskOK(r, answers, expired)
    BY <1>1, <2>1, Distinct DEF TaskOK, Justified
  <2> QED BY <1>1, <2>1, <2>2
<1>2. ASSUME task' = [task EXCEPT ![s] = [Idle EXCEPT !.pc = "send", !.cmd = c]]
      PROVE  \E r \in TaskRecord : task' = [task EXCEPT ![s] = r] /\ TaskOK(r, answers, expired)
  <2> DEFINE r == [Idle EXCEPT !.pc = "send", !.cmd = c]
  <2>1. r \in TaskRecord /\ r.pc = "send" /\ r.cmd = c
    BY DEF Idle, TaskRecord, Pc, Reason
  <2>2. TaskOK(r, answers, expired)
    BY <2>1 DEF TaskOK
  <2> QED BY <1>2, <2>1, <2>2
<1>3. \/ c \in expired /\ task' = [task EXCEPT ![s].pc = "xack", ![s].cmd = c, ![s].why = "lapsed"]
      \/ task' = [task EXCEPT ![s] = AfterEmptyRead(s)]
      \/ task' = [task EXCEPT ![s] = [Idle EXCEPT !.pc = "send", !.cmd = c]]
  BY DEF Examine
<1> QED BY <1>1, <1>2, <1>3, <1>t, RestingRecords

\* A task of a loop or a handler that ends.
LEMMA FinishMoves ==
  ASSUME NEW t \in Task \ Command, Finish(t)
  PROVE  \E r \in TaskRecord : task' = [task EXCEPT ![t] = r] /\ TaskOK(r, answers, expired)
BY RestingRecords DEF Finish

\* Where a step of a loop takes it.
LEMMA LoopMoves ==
  ASSUME QueueInv, NEW s \in Socket, LoopStep(s)
  PROVE  \E r \in TaskRecord : task' = [task EXCEPT ![s] = r] /\ TaskOK(r, answers, expired)
<1> USE DEF QueueInv, Typed
<1>t. task \in [Task -> TaskRecord] /\ s \in Task \ Command /\ task[s] \in TaskRecord
  BY Distinct DEF TaskTyped
<1> DEFINE Goal == \E r \in TaskRecord : task' = [task EXCEPT ![s] = r] /\ TaskOK(r, answers, expired)
<1>1. CASE LoopTop(s)
  <2>1. ASSUME inFlight # NoCommand, task' = [task EXCEPT ![s].pc = "timeout", ![s].cmd = inFlight] PROVE Goal
    <3> DEFINE r == [task[s] EXCEPT !.pc = "timeout", !.cmd = inFlight]
    <3>1. inFlight \in Command
      BY <2>1 DEF SocketTyped
    <3>2. r \in TaskRecord /\ r.pc = "timeout" /\ r.cmd = inFlight
      BY <1>t, <3>1 DEF TaskRecord, Pc
    <3>3. TaskOK(r, answers, expired)
      BY <3>1, <3>2 DEF TaskOK
    <3> QED BY <2>1, <3>2, <3>3
  <2>2. ASSUME task' = [task EXCEPT ![s].pc = "scan", ![s].read = "pending"] PROVE Goal
    <3> DEFINE r == [task[s] EXCEPT !.pc = "scan", !.read = "pending"]
    <3>1. r \in TaskRecord /\ r.pc = "scan"
      BY <1>t DEF TaskRecord, Pc
    <3>2. TaskOK(r, answers, expired)
      BY <3>1 DEF TaskOK
    <3> QED BY <2>2, <3>1, <3>2
  <2> QED BY <1>1, <1>t, <2>1, <2>2, FinishMoves DEF LoopTop
<1>2. CASE LoopTimeout(s)
  <2> DEFINE r == [pc |-> "scan", cmd |-> NoCommand, why |-> "none", read |-> "pending"]
  <2>1. r \in TaskRecord /\ r.pc = "scan"
    BY DEF TaskRecord, Pc, Reason
  <2>2. TaskOK(r, answers, expired)
    BY <2>1 DEF TaskOK
  <2> QED BY <1>2, <2>1, <2>2 DEF LoopTimeout
<1>3. CASE LoopReadPending(s) \/ LoopReadNew(s)
  <2>1. (\E c \in Command : Examine(s, c)) \/ task' = [task EXCEPT ![s] = AfterEmptyRead(s)]
    BY <1>3 DEF LoopReadPending, LoopReadNew, StreamTyped, Unread
  <2> QED BY <1>t, <2>1, ExamineMoves, RestingRecords
<1>4. CASE LoopSend(s)
  <2>1. ASSUME Goto(s, "sendFailed") PROVE Goal
    <3> DEFINE r == [task[s] EXCEPT !.pc = "sendFailed"]
    <3>1. task[s].cmd \in Command
      BY <1>4, <1>t DEF LoopSend, ReasonTrue, TaskOK
    <3>2. r \in TaskRecord /\ r.pc = "sendFailed" /\ r.cmd = task[s].cmd
      BY <1>t DEF TaskRecord, Pc
    <3>3. TaskOK(r, answers, expired)
      BY <3>1, <3>2 DEF TaskOK
    <3> QED BY <2>1, <3>2, <3>3 DEF Goto
  <2>2. Finish(s) \/ task' = [task EXCEPT ![s] = [Idle EXCEPT !.pc = "top"]] \/ Goto(s, "sendFailed")
    BY <1>4 DEF LoopSend
  <2> QED BY <1>t, <2>1, <2>2, FinishMoves, RestingRecords
<1>5. CASE LoopSendFailed(s)
  BY <1>5, <1>t, FinishMoves DEF LoopSendFailed
<1> QED BY <1>1, <1>2, <1>3, <1>4, <1>5 DEF LoopStep

\* The gateway loop of a socket.
LEMMA LoopKeeps ==
  ASSUME QueueInv, NEW s \in Socket, LoopStep(s)
  PROVE  QueueInv'
<1> USE DEF QueueInv, Typed
<1>t. task \in [Task -> TaskRecord] /\ s \in Task /\ s \notin Command /\ task[s] \in TaskRecord
  BY Distinct DEF TaskTyped
<1>0. UNCHANGED <<streamId, lastId, stream, entry, ackKey, sock, gateway, client, toServer, handledAcks, histVars, crashes>>
  BY DEF LoopStep, LoopTop, LoopTimeout, LoopReadPending, LoopReadNew, LoopSend, LoopSendFailed, redisVars, deviceVars
<1>1. PICK r \in TaskRecord : task' = [task EXCEPT ![s] = r] /\ TaskOK(r, answers, expired)
  BY LoopMoves
<1>2. ReasonTrue' /\ TaskTyped'
  BY <1>0, <1>1, <1>t, MoveKeeps DEF histVars
<1>3. QueuedOnce'
  BY <1>0, <1>1, <1>t, OnceMove
<1>4. MessagesTrue' /\ RecordsTellTheTruth' /\ NoSilentDrop'
  BY <1>0, MessagesStay, RecordsStay DEF histVars
<1>5. faults' \in Nat
  <2>1. Works \/ Fails
    BY DEF LoopStep, LoopTop, LoopTimeout, LoopReadPending, LoopReadNew, LoopSend, LoopSendFailed, ScheduleRetry, Examine, Works
  <2> QED BY <2>1 DEF Works, Fails, HistoryTyped
<1>6. pel' \subseteq Command /\ lastDelivered' \in Nat
  <2>1. CASE LoopReadNew(s)
    <3>1. \/ UNCHANGED <<pel, lastDelivered>>
          \/ \E c \in stream : pel' = pel \cup {c} /\ lastDelivered' = streamId[c]
      BY <2>1 DEF LoopReadNew, Unread
    <3> QED BY <3>1 DEF StreamTyped
  <2>2. CASE ~LoopReadNew(s)
    <3>1. UNCHANGED <<pel, lastDelivered>>
      BY <2>2 DEF LoopStep, LoopTop, LoopTimeout, LoopReadPending, LoopSend, LoopSendFailed, redisVars
    <3> QED BY <3>1 DEF StreamTyped
  <2> QED BY <2>1, <2>2
<1>7. retry' \in [Command -> {"none", "waiting", "due"}]
  <2>1. retry' = retry \/ retry' = [retry EXCEPT ![task[s].cmd] = "waiting"]
    BY DEF LoopStep, LoopTop, LoopTimeout, LoopReadPending, LoopReadNew, LoopSend, LoopSendFailed, redisVars, ScheduleRetry
  <2> QED BY <2>1 DEF StreamTyped
<1>8. inFlight' \in Command \cup {NoCommand}
  <2>1. CASE LoopSend(s)
    <3>1. task[s].cmd \in Command
      BY <2>1, <1>t DEF LoopSend, ReasonTrue, TaskOK
    <3> QED BY <2>1, <3>1 DEF LoopSend, SocketTyped
  <2>2. CASE LoopTimeout(s)
    BY <2>2 DEF LoopTimeout, ClearInFlight, SocketTyped
  <2>3. CASE LoopTop(s) \/ LoopReadPending(s) \/ LoopReadNew(s) \/ LoopSendFailed(s)
    BY <2>3 DEF LoopTop, LoopReadPending, LoopReadNew, LoopSendFailed, SocketTyped
  <2> QED BY <2>1, <2>2, <2>3 DEF LoopStep
<1>9. ToDeviceTyped'
  <2>1. CASE LoopSend(s)
    <3>1. task[s].cmd \in Command
      BY <2>1, <1>t DEF LoopSend, ReasonTrue, TaskOK
    <3> QED BY <2>1, <3>1, TransmitKeeps DEF LoopSend, ToDeviceTyped
  <2>2. CASE ~LoopSend(s)
    <3>1. toDevice' = toDevice
      BY <2>2 DEF LoopStep, LoopTop, LoopTimeout, LoopReadPending, LoopReadNew, LoopSendFailed, deviceVars
    <3> QED BY <3>1 DEF ToDeviceTyped
  <2> QED BY <2>1, <2>2
<1>10. StreamTyped' /\ SocketTyped' /\ MessageTyped' /\ HistoryTyped'
  BY <1>0, <1>5, <1>6, <1>7, <1>8 DEF StreamTyped, SocketTyped, MessageTyped, HistoryTyped, histVars
<1> QED BY <1>2, <1>3, <1>4, <1>9, <1>10

-----------------------------------------------------------------------------
\* The handler of an answer.
LEMMA AckKeeps ==
  ASSUME QueueInv, NEW h \in Handler, AckStep(h)
  PROVE  QueueInv'
<1> USE DEF QueueInv, Typed
<1>t. task \in [Task -> TaskRecord] /\ h \in Task \ Command /\ task[h] \in TaskRecord
  BY Distinct DEF TaskTyped
<1>0. /\ UNCHANGED <<streamId, lastId, stream, pel, lastDelivered, entry, gateway, inFlight, sock, deviceVars, histVars, crashes>>
      /\ task[h].pc \in {"lookup", "nack", "setAck"}
  BY DEF AckStep, AckLookup, AckRetry, AckSetTerminal, redisVars
<1>1. task[h].cmd \in Command /\ task[h].why \in answers[task[h].cmd] /\ task[h].why \in Verdict
  BY <1>0, <1>t DEF ReasonTrue, TaskOK
<1>2. \E r \in TaskRecord : task' = [task EXCEPT ![h] = r] /\ TaskOK(r, answers, expired)
  <2>1. ASSUME NEW pc \in {"nack", "setAck", "xack"}, Goto(h, pc), pc # "nack" => task[h].why # "retry"
        PROVE  \E r \in TaskRecord : task' = [task EXCEPT ![h] = r] /\ TaskOK(r, answers, expired)
    <3> DEFINE r == [task[h] EXCEPT !.pc = pc]
    <3>1. r \in TaskRecord /\ r.pc = pc /\ r.cmd = task[h].cmd /\ r.why = task[h].why
      BY <1>t DEF TaskRecord, Pc
    <3>2. TaskOK(r, answers, expired)
      BY <1>1, <2>1, <3>1 DEF TaskOK, Justified
    <3> QED BY <2>1, <3>1, <3>2 DEF Goto
  <2>2. CASE AckLookup(h)
    <3>1. Finish(h) \/ Goto(h, IF task[h].why = "retry" THEN "nack" ELSE "setAck")
      BY <2>2 DEF AckLookup
    <3>2. CASE task[h].why = "retry"
      BY <1>t, <2>1, <3>1, <3>2, FinishMoves
    <3>3. CASE task[h].why # "retry"
      BY <1>t, <2>1, <3>1, <3>3, FinishMoves
    <3> QED BY <3>2, <3>3
  <2>3. CASE AckRetry(h)
    BY <1>t, <2>3, FinishMoves DEF AckRetry
  <2>4. CASE AckSetTerminal(h)
    <3>1. task[h].why # "retry" /\ Goto(h, "xack")
      BY <2>4, <1>t DEF AckSetTerminal, ReasonTrue, TaskOK
    <3> QED BY <2>1, <3>1
  <2> QED BY <2>2, <2>3, <2>4 DEF AckStep
<1>3. PICK r \in TaskRecord : task' = [task EXCEPT ![h] = r] /\ TaskOK(r, answers, expired)
  BY <1>2
<1>4. ReasonTrue' /\ TaskTyped'
  BY <1>0, <1>3, <1>t, MoveKeeps DEF histVars
<1>5. QueuedOnce'
  BY <1>0, <1>3, <1>t, OnceMove
<1>6. MessagesTrue'
  BY <1>0, MessagesStay DEF deviceVars, histVars
<1>7. \/ ackKey' = ackKey
      \/ task[h].why # "retry" /\ ackKey' = [ackKey EXCEPT ![task[h].cmd] = task[h].why]
  BY <1>t DEF AckStep, AckLookup, AckRetry, AckSetTerminal, redisVars, ReasonTrue, TaskOK
<1>8. RecordsTellTheTruth' /\ NoSilentDrop'
  BY <1>0, <1>1, <1>7, Distinct DEF RecordsTellTheTruth, NoSilentDrop, Answered, histVars, StreamTyped
<1>9. ackKey' \in [Command -> AckValue]
  BY <1>1, <1>7, Distinct DEF StreamTyped, AckValue
<1>10. retry' \in [Command -> {"none", "waiting", "due"}]
  <2>1. retry' = retry \/ retry' = [retry EXCEPT ![task[h].cmd] = "waiting"]
    BY DEF AckStep, AckLookup, AckRetry, AckSetTerminal, redisVars, ScheduleRetry
  <2> QED BY <2>1 DEF StreamTyped
<1>11. faults' \in Nat
  <2>1. Works \/ Fails
    BY DEF AckStep, AckLookup, AckRetry, AckSetTerminal, ScheduleRetry
  <2> QED BY <2>1 DEF Works, Fails, HistoryTyped
<1>12. StreamTyped' /\ SocketTyped' /\ ToDeviceTyped' /\ MessageTyped' /\ HistoryTyped'
  BY <1>0, <1>9, <1>10, <1>11 DEF StreamTyped, SocketTyped, ToDeviceTyped, MessageTyped, HistoryTyped, deviceVars, histVars
<1> QED BY <1>4, <1>5, <1>6, <1>8, <1>12

\* An answer arrives.
LEMMA ReceiveKeeps ==
  ASSUME QueueInv, NEW h \in Handler, NEW s \in Socket, AckReceive(h, s)
  PROVE  QueueInv'
<1> USE DEF QueueInv, Typed
<1> DEFINE a == Head(toServer[s])
           r == [Idle EXCEPT !.pc = "lookup", !.cmd = a.cmd, !.why = a.ans]
<1>t. task \in [Task -> TaskRecord] /\ h \in Task \ Command
  BY Distinct DEF TaskTyped
<1>0. UNCHANGED <<redisVars, gateway, sock, client, toDevice, handledAcks, histVars, faults, crashes>>
  BY DEF AckReceive
<1>1. toServer[s] \in Seq(Message) /\ toServer[s] # <<>>
  BY DEF AckReceive, MessageTyped
<1>2. /\ a \in Message /\ a = toServer[s][1] /\ 1 \in DOMAIN toServer[s]
      /\ Tail(toServer[s]) \in Seq(Message)
      /\ \A i \in DOMAIN Tail(toServer[s]) : Tail(toServer[s])[i] = toServer[s][i + 1] /\ i + 1 \in DOMAIN toServer[s]
  BY <1>1, HeadTailProperties
<1>3. a.cmd \in Command /\ a.ans \in Verdict /\ a.ans \in answers[a.cmd]
  BY <1>2 DEF Message, MessagesTrue, Given
<1>4. r \in TaskRecord /\ r.pc = "lookup" /\ r.cmd = a.cmd /\ r.why = a.ans
  BY <1>3 DEF Idle, TaskRecord, Pc
<1>5. TaskOK(r, answers, expired)
  BY <1>3, <1>4 DEF TaskOK
<1>6. task' = [task EXCEPT ![h] = r] /\ toServer' = [toServer EXCEPT ![s] = Tail(toServer[s])]
  BY DEF AckReceive
<1>7. inFlight' \in Command \cup {NoCommand}
  BY DEF AckReceive, ClearInFlight, SocketTyped
<1> HIDE DEF r
<1>8. ReasonTrue' /\ TaskTyped'
  BY <1>0, <1>4, <1>5, <1>6, <1>t, MoveKeeps DEF histVars
<1>9. QueuedOnce'
  BY <1>0, <1>6, <1>t, OnceMove DEF redisVars
<1>10. MessagesTrue'
  BY <1>0, <1>2, <1>6 DEF MessagesTrue, Given, MessageTyped, histVars
<1>11. RecordsTellTheTruth' /\ NoSilentDrop'
  BY <1>0, RecordsStay DEF redisVars, histVars
<1>12. MessageTyped'
  BY <1>0, <1>2, <1>6 DEF MessageTyped
<1>13. StreamTyped' /\ SocketTyped' /\ ToDeviceTyped' /\ HistoryTyped'
  BY <1>0, <1>7 DEF StreamTyped, SocketTyped, ToDeviceTyped, HistoryTyped, redisVars, histVars
<1> QED BY <1>8, <1>9, <1>10, <1>11, <1>12, <1>13

-----------------------------------------------------------------------------
\* A deadline passes.
LEMMA DeadlineKeeps ==
  ASSUME QueueInv, NEW c \in Command, Expire(c) \/ EntryKeyExpires(c) \/ BackoffElapses(c)
  PROVE  QueueInv'
<1> USE DEF QueueInv, Typed
<1>0. /\ UNCHANGED <<streamId, lastId, stream, pel, lastDelivered, ackKey, apiVars, deviceVars, answers, ran, replayed, applied, faults, crashes>>
      /\ expired \subseteq expired' /\ expired' \subseteq Command
      /\ entry' \subseteq entry
      /\ retry' = retry \/ retry' = [retry EXCEPT ![c] = "due"]
  BY DEF Expire, EntryKeyExpires, BackoffElapses, redisVars, histVars, HistoryTyped
<1>1. ReasonTrue'
  BY <1>0, StayKeeps DEF apiVars
<1>2. TaskTyped' /\ SocketTyped' /\ ToDeviceTyped' /\ MessageTyped'
  BY <1>0 DEF TaskTyped, SocketTyped, ToDeviceTyped, MessageTyped, apiVars, deviceVars
<1>3. StreamTyped' /\ HistoryTyped'
  BY <1>0 DEF StreamTyped, HistoryTyped
<1>4. QueuedOnce'
  BY <1>0 DEF QueuedOnce, apiVars
<1>5. MessagesTrue'
  BY <1>0, MessagesStay DEF deviceVars
<1>6. RecordsTellTheTruth' /\ NoSilentDrop'
  BY <1>0 DEF RecordsTellTheTruth, NoSilentDrop, Answered
<1> QED BY <1>1, <1>2, <1>3, <1>4, <1>5, <1>6

\* A socket opens, greets or closes, and the desktop's end goes.
LEMMA SocketKeeps ==
  ASSUME QueueInv,
         \/ \E s \in Socket : Connect(s) \/ Hello(s) \/ SocketClosed(s)
         \/ ClientDrop
  PROVE  QueueInv'
<1> USE DEF QueueInv, Typed
<1>0. UNCHANGED <<redisVars, task, handledAcks, histVars, faults, crashes>>
  BY DEF Connect, Hello, SocketClosed, ClientDrop, apiVars, deviceVars
<1>1. \A s \in Socket : [toDevice EXCEPT ![s] = <<>>] \in [Socket -> Seq(Command)]
  BY EmptySeq DEF ToDeviceTyped
<1>2. \A s \in Socket : [toServer EXCEPT ![s] = <<>>] \in [Socket -> Seq(Message)]
  BY EmptySeq DEF MessageTyped
<1>3. toServer' = toServer \/ \E s \in Socket : toServer' = [toServer EXCEPT ![s] = <<>>]
  BY DEF Connect, Hello, SocketClosed, ClientDrop, deviceVars
<1>4. toDevice' = toDevice \/ \E s \in Socket : toDevice' = [toDevice EXCEPT ![s] = <<>>]
  BY DEF Connect, Hello, SocketClosed, ClientDrop, deviceVars, SocketTyped
<1>5. ToDeviceTyped' /\ MessageTyped'
  BY <1>0, <1>1, <1>2, <1>3, <1>4 DEF ToDeviceTyped, MessageTyped
<1>6. SocketTyped'
  BY DEF Connect, Hello, SocketClosed, ClientDrop, SocketTyped, SockPhase, apiVars, deviceVars
<1>7. StreamTyped' /\ TaskTyped' /\ HistoryTyped'
  BY <1>0 DEF StreamTyped, TaskTyped, HistoryTyped, redisVars, histVars
<1>8. ReasonTrue'
  BY <1>0, StayKeeps DEF histVars
<1>9. QueuedOnce'
  BY <1>0, OnceKeeps DEF redisVars
<1>10. MessagesTrue'
  BY <1>0, <1>3 DEF MessagesTrue, Given, MessageTyped, histVars
<1>11. RecordsTellTheTruth' /\ NoSilentDrop'
  BY <1>0, RecordsStay DEF redisVars, histVars
<1> QED BY <1>5, <1>6, <1>7, <1>8, <1>9, <1>10, <1>11

\* The rest of device.hello starts the loop of its socket.
LEMMA HelloKeeps ==
  ASSUME QueueInv, NEW s \in Socket, HelloDone(s)
  PROVE  QueueInv'
<1> USE DEF QueueInv, Typed
<1>t. task \in [Task -> TaskRecord] /\ s \in Task \ Command /\ task[s] \in TaskRecord
  BY Distinct DEF TaskTyped
<1>0. UNCHANGED <<redisVars, deviceVars, histVars, crashes>>
  BY DEF HelloDone
<1>1. ReasonTrue' /\ TaskTyped' /\ QueuedOnce'
  <2>1. CASE Goto(s, "top")
    <3> DEFINE r == [task[s] EXCEPT !.pc = "top"]
    <3>1. r \in TaskRecord /\ r.pc = "top"
      BY <1>t DEF TaskRecord, Pc
    <3>2. TaskOK(r, answers, expired)
      BY <3>1 DEF TaskOK
    <3>3. task' = [task EXCEPT ![s] = r]
      BY <2>1 DEF Goto
    <3> HIDE DEF r
    <3> QED BY <1>0, <1>t, <3>1, <3>2, <3>3, MoveKeeps, OnceMove DEF redisVars, histVars
  <2>2. CASE task' = task
    BY <1>0, <2>2, StayKeeps, OnceKeeps DEF redisVars, histVars, TaskTyped
  <2> QED BY <2>1, <2>2 DEF HelloDone
<1>2. faults' \in Nat
  BY DEF HelloDone, Works, Fails, HistoryTyped
<1>3. SocketTyped'
  BY <1>0 DEF HelloDone, SocketTyped, SockPhase, deviceVars
<1>4. StreamTyped' /\ ToDeviceTyped' /\ MessageTyped' /\ HistoryTyped'
  BY <1>0, <1>2 DEF StreamTyped, ToDeviceTyped, MessageTyped, HistoryTyped, redisVars, deviceVars, histVars
<1>5. MessagesTrue' /\ RecordsTellTheTruth' /\ NoSilentDrop'
  BY <1>0, MessagesStay, RecordsStay DEF redisVars, deviceVars, histVars
<1> QED BY <1>1, <1>3, <1>4, <1>5

\* The API restarts.
LEMMA RestartKeeps ==
  ASSUME QueueInv, ApiRestart
  PROVE  QueueInv'
<1> USE DEF QueueInv, Typed
<1> DEFINE done == [Idle EXCEPT !.pc = "done"]
<1>0. UNCHANGED <<redisVars, handledAcks, histVars, faults>>
  BY DEF ApiRestart
<1>1. /\ Idle \in TaskRecord /\ Idle.pc = "idle"
      /\ done \in TaskRecord /\ done.pc = "done"
  BY DEF Idle, TaskRecord, Pc, Reason
<1>2. /\ task' \in [Task -> {Idle, done}]
      /\ \A c \in Command : task[c].pc # "idle" => task'[c] = done
  BY <1>1, Distinct DEF ApiRestart
<1> HIDE DEF done
<1>3. TaskTyped'
  BY <1>1, <1>2 DEF TaskTyped
<1>4. ReasonTrue'
  BY <1>1, <1>2 DEF ReasonTrue, TaskOK
<1>5. QueuedOnce'
  BY <1>0, <1>1, <1>2, Distinct DEF QueuedOnce, redisVars
<1>6. (\A S : <<>> \in Seq(S)) /\ toServer' = [s \in Socket |-> <<>>] /\ toDevice' = [s \in Socket |-> <<>>]
  BY EmptySeq DEF ApiRestart
<1>7. ToDeviceTyped' /\ MessageTyped'
  BY <1>0, <1>6 DEF ToDeviceTyped, MessageTyped
<1>8. MessagesTrue'
  BY <1>0, <1>6 DEF MessagesTrue, Given, histVars
<1>9. SocketTyped'
  BY DEF ApiRestart, SocketTyped, SockPhase
<1>10. StreamTyped' /\ HistoryTyped'
  BY <1>0 DEF ApiRestart, StreamTyped, HistoryTyped, redisVars, histVars
<1>11. RecordsTellTheTruth' /\ NoSilentDrop'
  BY <1>0, RecordsStay DEF redisVars, histVars
<1> QED BY <1>3, <1>4, <1>5, <1>7, <1>8, <1>9, <1>10, <1>11

-----------------------------------------------------------------------------
\* An answer is put on its way.
LEMMA AnswerKeeps ==
  ASSUME MessageTyped, MessagesTrue, client \in Socket, NEW a \in Message, Answer(a),
         a.ans \in answers'[a.cmd], \A c \in Command : answers[c] \subseteq answers'[c]
  PROVE  /\ toServer' \in [Socket -> Seq(Message)]
         /\ \A s \in Socket : \A i \in DOMAIN toServer'[s] : toServer'[s][i].ans \in answers'[toServer'[s][i].cmd]
<1> DEFINE old == toServer[client]
           new == Append(old, a)
<1>1. toServer \in [Socket -> Seq(Message)] /\ old \in Seq(Message)
  BY DEF MessageTyped
<1>2. /\ new \in Seq(Message) /\ Len(old) \in Nat /\ DOMAIN old = 1..Len(old) /\ DOMAIN new = 1..(Len(old) + 1)
      /\ \A i \in 1..Len(old) : new[i] = old[i]
      /\ new[Len(old) + 1] = a
  BY <1>1, AppendProperties, LenProperties
<1>3. \A s \in Socket : \A i \in DOMAIN toServer[s] : toServer[s][i] \in Message
  BY <1>1
<1>4. \A s \in Socket : \A i \in DOMAIN toServer[s] : toServer[s][i].ans \in answers'[toServer[s][i].cmd]
  BY <1>3 DEF MessagesTrue, Given, Message
<1>5. toServer' = [toServer EXCEPT ![client] = new]
  BY DEF Answer
<1> HIDE DEF new
<1>6. \A i \in DOMAIN new : new[i].ans \in answers'[new[i].cmd]
  <2> SUFFICES ASSUME NEW i \in 1..(Len(old) + 1) PROVE new[i].ans \in answers'[new[i].cmd]
    BY <1>2
  <2>1. CASE i = Len(old) + 1
    BY <1>2, <2>1
  <2>2. CASE i \in 1..Len(old)
    BY <1>2, <1>4, <2>2
  <2> QED BY <1>2, <2>1, <2>2
<1> QED BY <1>1, <1>2, <1>4, <1>5, <1>6

\* The desktop reads a command, or is restarted.
LEMMA DeviceKeeps ==
  ASSUME QueueInv, DeviceStep \/ DeviceRestart
  PROVE  QueueInv'
<1> USE DEF QueueInv, Typed
<1>r. ASSUME client \in Socket, toDevice[client] # <<>>
      PROVE  /\ Head(toDevice[client]) \in Command
             /\ [toDevice EXCEPT ![client] = Tail(toDevice[client])] \in [Socket -> Seq(Command)]
  <2>1. toDevice[client] \in Seq(Command)
    BY <1>r DEF ToDeviceTyped
  <2>2. Head(toDevice[client]) \in Command /\ Tail(toDevice[client]) \in Seq(Command)
    BY <1>r, <2>1, HeadTailProperties
  <2> QED BY <2>2 DEF ToDeviceTyped
<1>a. ASSUME UNCHANGED <<redisVars, apiVars, expired, applied, faults, crashes>>,
             \A c \in Command : answers[c] \subseteq answers'[c], answers' \in [Command -> SUBSET Verdict],
             client' \in Socket \cup {NoSocket}
      PROVE  StreamTyped' /\ TaskTyped' /\ SocketTyped' /\ ReasonTrue' /\ QueuedOnce' /\ RecordsTellTheTruth' /\ NoSilentDrop'
  <2>1. StreamTyped' /\ TaskTyped' /\ SocketTyped'
    BY <1>a DEF StreamTyped, TaskTyped, SocketTyped, redisVars, apiVars
  <2>2. ReasonTrue'
    BY <1>a, StayKeeps DEF apiVars
  <2>3. QueuedOnce'
    BY <1>a DEF QueuedOnce, redisVars, apiVars
  <2>4. RecordsTellTheTruth'
    BY <1>a DEF RecordsTellTheTruth, Answered, redisVars
  <2>5. NoSilentDrop'
    BY <1>a DEF NoSilentDrop, Answered, redisVars
  <2> QED BY <2>1, <2>2, <2>3, <2>4, <2>5
<1>1. ASSUME NEW i \in DOMAIN handledAcks, DeviceRepeat(i) PROVE QueueInv'
  <2>0. UNCHANGED <<redisVars, apiVars, client, handledAcks, histVars, faults, crashes>> /\ client \in Socket /\ toDevice[client] # <<>>
    BY <1>1 DEF DeviceRepeat, SocketTyped
  <2>1. handledAcks[i] \in Message /\ Given(handledAcks[i])
    BY DEF MessageTyped, MessagesTrue
  <2>2. ToDeviceTyped'
    BY <1>1, <1>r, <2>0 DEF DeviceRepeat, ToDeviceTyped
  <2>3. /\ toServer' \in [Socket -> Seq(Message)]
        /\ \A s \in Socket : \A j \in DOMAIN toServer'[s] : toServer'[s][j].ans \in answers'[toServer'[s][j].cmd]
    BY <1>1, <2>0, <2>1, AnswerKeeps DEF DeviceRepeat, Given, histVars
  <2>4. MessageTyped' /\ MessagesTrue'
    BY <2>0, <2>3 DEF MessageTyped, MessagesTrue, Given, histVars
  <2>5. HistoryTyped'
    BY <2>0 DEF HistoryTyped, histVars
  <2>6. answers' = answers /\ answers \in [Command -> SUBSET Verdict] /\ client \in Socket \cup {NoSocket}
    BY <2>0 DEF HistoryTyped, SocketTyped, histVars
  <2> QED BY <1>a, <2>0, <2>2, <2>4, <2>5, <2>6 DEF histVars
<1>2. ASSUME NEW v \in Verdict, DeviceHandle(v) PROVE QueueInv'
  <2> DEFINE c == Head(toDevice[client])
             a == [cmd |-> c, ans |-> v]
  <2>0. UNCHANGED <<redisVars, apiVars, client, expired, applied, faults, crashes>> /\ client \in Socket /\ toDevice[client] # <<>>
    BY <1>2 DEF DeviceHandle, SocketTyped
  <2>1. c \in Command
    BY <1>r, <2>0
  <2>2. a \in Message
    BY <2>1 DEF Message
  <2>3. /\ answers' \in [Command -> SUBSET Verdict] /\ \A d \in Command : answers[d] \subseteq answers'[d]
        /\ v \in answers'[c]
    BY <1>2, <2>1 DEF DeviceHandle, HistoryTyped
  <2>4. ToDeviceTyped'
    BY <1>2, <1>r, <2>0 DEF DeviceHandle, ToDeviceTyped
  <2>5. Answer(a) /\ Remember(a)
    BY <1>2 DEF DeviceHandle
  <2>6. /\ toServer' \in [Socket -> Seq(Message)]
        /\ \A s \in Socket : \A j \in DOMAIN toServer'[s] : toServer'[s][j].ans \in answers'[toServer'[s][j].cmd]
    BY <2>0, <2>2, <2>3, <2>5, AnswerKeeps
  <2>7. /\ handledAcks' \in Seq(Message)
        /\ \A i \in DOMAIN handledAcks' : handledAcks'[i] = a \/ \E j \in DOMAIN handledAcks : handledAcks'[i] = handledAcks[j]
    <3> DEFINE kept == Append(handledAcks, a)
    <3>0. handledAcks \in Seq(Message) /\ DOMAIN handledAcks = 1..Len(handledAcks) /\ Len(handledAcks) \in Nat
      BY LenProperties DEF MessageTyped
    <3>1. kept \in Seq(Message) /\ kept # <<>> /\ DOMAIN kept = 1..(Len(handledAcks) + 1)
          /\ (\A i \in 1..Len(handledAcks) : kept[i] = handledAcks[i]) /\ kept[Len(handledAcks) + 1] = a
      BY <2>2, <3>0, AppendProperties, LenProperties
    <3>2. handledAcks' = kept \/ handledAcks' = Tail(kept)
      BY <2>5 DEF Remember
    <3> HIDE DEF kept
    <3>3. \A i \in DOMAIN kept : kept[i] = a \/ \E j \in DOMAIN handledAcks : kept[i] = handledAcks[j]
      BY <3>0, <3>1
    <3>4. Tail(kept) \in Seq(Message) /\ \A i \in DOMAIN Tail(kept) : i + 1 \in DOMAIN kept /\ Tail(kept)[i] = kept[i + 1]
      BY <3>1, HeadTailProperties
    <3> QED BY <3>1, <3>2, <3>3, <3>4
  <2>8. MessageTyped' /\ MessagesTrue'
    <3>1. \A j \in DOMAIN handledAcks : handledAcks[j] \in Message /\ handledAcks[j].ans \in answers[handledAcks[j].cmd]
      BY DEF MessageTyped, MessagesTrue, Given
    <3>2. \A j \in DOMAIN handledAcks : handledAcks[j].ans \in answers'[handledAcks[j].cmd]
      BY <2>3, <3>1 DEF Message
    <3>3. a.ans \in answers'[a.cmd]
      BY <2>3
    <3> QED BY <2>6, <2>7, <3>2, <3>3 DEF MessageTyped, MessagesTrue, Given
  <2>9. HistoryTyped'
    BY <1>2, <2>0, <2>1, <2>3 DEF DeviceHandle, HistoryTyped
  <2>10. client' \in Socket \cup {NoSocket}
    BY <2>0
  <2> QED BY <1>a, <2>0, <2>3, <2>4, <2>8, <2>9, <2>10
<1>3. ASSUME DeviceRestart PROVE QueueInv'
  <2>0. UNCHANGED <<redisVars, apiVars, toServer, expired, answers, replayed, applied, faults, crashes>>
        /\ client' = NoSocket /\ handledAcks' = <<>> /\ ran' = {}
    BY <1>3 DEF DeviceRestart
  <2>1. \A S : <<>> \in Seq(S)
    BY EmptySeq
  <2>2. ToDeviceTyped'
    BY <1>3, <2>1 DEF DeviceRestart, ToDeviceTyped
  <2>3. MessageTyped' /\ MessagesTrue'
    BY <2>0, <2>1 DEF MessageTyped, MessagesTrue, Given
  <2>4. HistoryTyped'
    BY <2>0 DEF HistoryTyped
  <2>5. answers \in [Command -> SUBSET Verdict] /\ client' \in Socket \cup {NoSocket}
    BY <2>0 DEF HistoryTyped
  <2> QED BY <1>a, <2>0, <2>2, <2>3, <2>4, <2>5
<1> QED BY <1>1, <1>2, <1>3 DEF DeviceStep

-----------------------------------------------------------------------------
\* The initial state has the invariant.
LEMMA InitQueueInv == Init => QueueInv
<1> SUFFICES ASSUME Init PROVE QueueInv
  OBVIOUS
<1>1. Idle \in TaskRecord /\ Idle.pc = "idle" /\ task = [t \in Task |-> Idle]
  BY DEF Idle, TaskRecord, Pc, Reason, Init
<1>2. TaskTyped
  BY <1>1 DEF TaskTyped
<1>3. StreamTyped /\ SocketTyped /\ HistoryTyped
  BY DEF Init, StreamTyped, SocketTyped, HistoryTyped, AckValue, SockPhase
<1>4. ToDeviceTyped /\ MessageTyped /\ MessagesTrue
  <2>1. \A S : <<>> \in Seq(S)
    BY EmptySeq
  <2> QED BY <2>1 DEF Init, ToDeviceTyped, MessageTyped, MessagesTrue, Given
<1>5. ReasonTrue /\ QueuedOnce
  BY <1>1, Distinct DEF Init, ReasonTrue, TaskOK, QueuedOnce
<1>6. RecordsTellTheTruth /\ NoSilentDrop
  BY DEF Init, RecordsTellTheTruth, NoSilentDrop
<1> QED BY <1>2, <1>3, <1>4, <1>5, <1>6 DEF QueueInv, Typed

\* Every step keeps it.
LEMMA NextQueueInv == QueueInv /\ [Next]_vars => QueueInv'
<1> SUFFICES ASSUME QueueInv, [Next]_vars PROVE QueueInv'
  OBVIOUS
<1>1. CASE UNCHANGED vars
  <2>1. Typed'
    BY <1>1 DEF QueueInv, Typed, StreamTyped, TaskTyped, SocketTyped, ToDeviceTyped, MessageTyped, HistoryTyped,
                vars, redisVars, apiVars, deviceVars, histVars
  <2>2. ReasonTrue'
    BY <1>1, StayKeeps DEF QueueInv, Typed, vars, apiVars, histVars
  <2>3. QueuedOnce' /\ MessagesTrue' /\ RecordsTellTheTruth' /\ NoSilentDrop'
    BY <1>1, OnceKeeps, MessagesStay, RecordsStay DEF QueueInv, vars, redisVars, apiVars, deviceVars, histVars
  <2> QED BY <2>1, <2>2, <2>3 DEF QueueInv
<1> QED BY <1>1, EnqueueKeeps, DeadlineKeeps, DeleteKeeps, LoopKeeps, SocketKeeps, HelloKeeps, AckKeeps, ReceiveKeeps,
           DeviceKeeps, RestartKeeps DEF Next

\* The queue of device-commands.ts and ws-handler.ts, for any number of
\* commands, sockets, handlers, failed calls and restarts, stays as QueueInv
\* says.
THEOREM QueueInvariance == Spec => []QueueInv
BY InitQueueInv, NextQueueInv, PTL DEF Spec

\* The state of the stream, the gateway loops and the desktop is of its type.
THEOREM QueueTypes == Spec => []TypeOK
<1>1. QueueInv => TypeOK
  BY DEF QueueInv, Typed, StreamTyped, TaskTyped, SocketTyped, ToDeviceTyped, MessageTyped, HistoryTyped, TypeOK, TaskRecord, Message
<1> QED BY <1>1, QueueInvariance, PTL

\* A command that was added to the stream leaves it only when the device has
\* given a terminal answer or the command has expired (deleteStreamEntry).
THEOREM NothingDropped == Spec => []NoSilentDrop
<1>1. QueueInv => NoSilentDrop
  BY DEF QueueInv
<1> QED BY <1>1, QueueInvariance, PTL

\* Terminal records and applied outcomes are true (setTerminalAck and
\* applyTerminalDeviceCommandOutcome).
THEOREM RecordsAreTrue == Spec => []RecordsTellTheTruth
<1>1. QueueInv => RecordsTellTheTruth
  BY DEF QueueInv
<1> QED BY <1>1, QueueInvariance, PTL

-----------------------------------------------------------------------------
\* A step of the queue is a step of CommandDelivery, or none.
LEMMA StepRefines == QueueInv /\ QueueInv' /\ [Next]_vars => [Delivery!CDNext]_(Delivery!cdVars)
<1> SUFFICES ASSUME QueueInv, QueueInv', [Next]_vars PROVE [Delivery!CDNext]_(Delivery!cdVars)
  OBVIOUS
<1> USE DEF QueueInv, Typed
<1>u. ASSUME UNCHANGED <<streamId, stream, answers, expired, ackKey>> PROVE UNCHANGED Delivery!cdVars
  BY <1>u DEF Delivery!cdVars
<1>1. ASSUME NEW c \in Command, EnqueueStep(c) PROVE Delivery!Accept(c) \/ UNCHANGED Delivery!cdVars
  <2>1. CASE EnqueueXadd(c) /\ Xadd(c)
    <3>1. task[c].pc = "idle"
      BY <2>1 DEF EnqueueXadd, Idle
    <3>2. streamId[c] = 0 /\ c \notin stream
      BY <3>1 DEF QueuedOnce, StreamTyped
    <3>3. stream' = stream \cup {c} /\ UNCHANGED <<answers, expired, ackKey>>
          /\ {d \in Command : streamId'[d] > 0} = {d \in Command : streamId[d] > 0} \cup {c}
      BY <2>1 DEF EnqueueXadd, Xadd, histVars, StreamTyped
    <3> QED BY <3>2, <3>3 DEF Delivery!Accept
  <2>2. CASE UNCHANGED <<streamId, stream, answers, expired, ackKey>>
    BY <1>u, <2>2
  <2> QED BY <1>1, <2>1, <2>2 DEF EnqueueStep, EnqueueXadd, EnqueueSetEntry, SendDirect, redisVars, histVars
<1>2. ASSUME NEW c \in Command, Expire(c) PROVE Delivery!Lapse(c)
  BY <1>2 DEF Expire, Delivery!Lapse, redisVars
<1>3. ASSUME NEW c \in Command, EntryKeyExpires(c) \/ BackoffElapses(c) PROVE UNCHANGED Delivery!cdVars
  BY <1>3, <1>u DEF EntryKeyExpires, BackoffElapses, histVars
<1>4. ASSUME NEW t \in Task, DeleteStep(t) PROVE [Delivery!CDNext]_(Delivery!cdVars)
  <2>1. CASE Scan(t)
    <3>1. ASSUME NEW h \in expired, ackKey' = [ackKey EXCEPT ![h] = "expired"]
          PROVE  h \in Command /\ Delivery!Record(h, "expired")
      BY <2>1, <3>1 DEF Scan, histVars, Delivery!Record, HistoryTyped
    <3>2. CASE ackKey' = ackKey
      BY <1>u, <2>1, <3>2 DEF Scan, histVars
    <3> QED BY <2>1, <3>1, <3>2 DEF Scan, Cleanup, Delivery!CDNext
  <2>2. CASE Xack(t)
    BY <1>u, <2>2 DEF Xack, histVars
  <2>3. CASE Xdel(t)
    <3>1. PICK c \in Command : c = task[t].cmd /\ Justified(task[t], answers, expired)
      BY <2>3 DEF Xdel, ReasonTrue, TaskOK
    <3>2. Delivery!Settled(c)
      BY <3>1, Distinct DEF Justified, Delivery!Settled
    <3>3. UNCHANGED <<streamId, answers, expired, ackKey>> /\ stream' \in {stream, stream \ {c}}
      BY <2>3, <3>1 DEF Xdel
    <3>4. CASE stream' = stream
      BY <1>u, <3>3, <3>4
    <3>5. CASE c \in stream /\ stream' = stream \ {c}
      <4>1. streamId[c] > 0
        BY <3>1, <3>5 DEF QueuedOnce
      <4>2. {d \in Command : streamId'[d] > 0} \ stream' = ({d \in Command : streamId[d] > 0} \ stream) \cup {c}
        BY <3>1, <3>3, <3>5, <4>1
      <4>3. Delivery!Remove(c)
        BY <3>2, <3>3, <3>5, <4>2 DEF Delivery!Remove
      <4> QED BY <3>1, <4>3 DEF Delivery!CDNext
    <3> QED BY <3>3, <3>4, <3>5
  <2> QED BY <1>4, <2>1, <2>2, <2>3 DEF DeleteStep
<1>5. ASSUME NEW s \in Socket, LoopStep(s) \/ Connect(s) \/ Hello(s) \/ HelloDone(s) \/ SocketClosed(s)
      PROVE  UNCHANGED Delivery!cdVars
  BY <1>5, <1>u DEF LoopStep, LoopTop, LoopTimeout, LoopReadPending, LoopReadNew, LoopSend, LoopSendFailed, Connect, Hello,
                    HelloDone, SocketClosed, redisVars, histVars
<1>6. ASSUME NEW h \in Handler, AckStep(h) PROVE [Delivery!CDNext]_(Delivery!cdVars)
  <2>1. CASE AckLookup(h) \/ AckRetry(h)
    BY <1>u, <2>1 DEF AckLookup, AckRetry, redisVars, histVars
  <2>2. CASE AckSetTerminal(h)
    <3>1. task[h].cmd \in Command /\ task[h].why \in answers[task[h].cmd] \ {"retry"} /\ task[h].why \in Verdict
      BY <2>2, Distinct DEF AckSetTerminal, ReasonTrue, TaskOK
    <3>2. CASE ackKey' = ackKey
      BY <1>u, <2>2, <3>2 DEF AckSetTerminal, histVars
    <3>3. CASE ackKey' = [ackKey EXCEPT ![task[h].cmd] = task[h].why]
      <4>1. task[h].why \in {"ok", "reject", "expired"} /\ task[h].why \in answers[task[h].cmd] \cap {"ok", "reject"}
        BY <3>1, Distinct
      <4>2. Delivery!Record(task[h].cmd, task[h].why)
        BY <2>2, <3>3, <4>1 DEF AckSetTerminal, histVars, Delivery!Record
      <4> QED BY <3>1, <4>1, <4>2 DEF Delivery!CDNext
    <3> QED BY <2>2, <3>2, <3>3 DEF AckSetTerminal
  <2> QED BY <1>6, <2>1, <2>2 DEF AckStep
<1>7. ASSUME NEW h \in Handler, NEW s \in Socket, AckReceive(h, s) PROVE UNCHANGED Delivery!cdVars
  BY <1>7, <1>u DEF AckReceive, redisVars, histVars
<1>8. ASSUME DeviceStep PROVE [Delivery!CDNext]_(Delivery!cdVars)
  <2>1. ASSUME NEW i \in DOMAIN handledAcks, DeviceRepeat(i) PROVE UNCHANGED Delivery!cdVars
    BY <1>u, <2>1 DEF DeviceRepeat, redisVars, histVars
  <2>2. ASSUME NEW v \in Verdict, DeviceHandle(v) PROVE Delivery!CDNext
    <3> DEFINE c == Head(toDevice[client])
    <3>1. toDevice[client] \in Seq(Command) /\ toDevice[client] # <<>>
      BY <2>2 DEF DeviceHandle, SocketTyped, ToDeviceTyped
    <3>2. c \in Command
      BY <3>1, HeadTailProperties
    <3>3. Delivery!Reply(c, v)
      BY <2>2 DEF DeviceHandle, redisVars, Delivery!Reply
    <3>4. v \in {"ok", "reject", "retry"}
      BY Distinct
    <3> QED BY <3>2, <3>3, <3>4 DEF Delivery!CDNext
  <2> QED BY <1>8, <2>1, <2>2 DEF DeviceStep
<1>9. ASSUME ClientDrop \/ ApiRestart \/ DeviceRestart \/ UNCHANGED vars PROVE UNCHANGED Delivery!cdVars
  BY <1>9, <1>u DEF ClientDrop, ApiRestart, DeviceRestart, vars, redisVars, histVars
<1>10. ASSUME NEW c \in Command, Delivery!Accept(c) \/ Delivery!Lapse(c) PROVE Delivery!CDNext
  BY <1>10 DEF Delivery!CDNext
<1> QED BY <1>1, <1>2, <1>3, <1>4, <1>5, <1>6, <1>7, <1>8, <1>9, <1>10 DEF Next

\* The command queue implements CommandDelivery: whatever Redis calls fail and
\* whoever restarts, a queued command leaves the queue settled and its record
\* is true.
THEOREM QueueDelivers == Spec => DeliverySpec
<1>1. Init => Delivery!CDInit
  BY DEF Init, Delivery!CDInit
<1>2. Init /\ [][Next]_vars => Delivery!CDInit /\ [][Delivery!CDNext]_(Delivery!cdVars)
  BY <1>1, StepRefines, QueueInvariance, PTL DEF Spec
<1> QED BY <1>2 DEF Spec, DeliverySpec, Delivery!CDSpec

-----------------------------------------------------------------------------
(* Nothing gets stuck while no call fails and the API does not restart.  An  *)
(* answer can only exist for an entry the group was given, a task that has   *)
(* sent XACK leaves nothing pending that another is not about to remove, and *)
(* no command goes past the queue.                                           *)

Clean == faults = 0 /\ crashes = 0

\* The group was given the entry of a command.
Delivered(c) == 0 < streamId[c] /\ streamId[c] <= lastDelivered

Reached ==
  /\ \A c \in pel : Delivered(c)
  /\ \A c \in Command : answers[c] # {} => Delivered(c)
  /\ \A s \in Socket : \A i \in DOMAIN toDevice[s] : Delivered(toDevice[s][i])
  /\ \A t \in Task : task[t].pc = "send" => Delivered(task[t].cmd)

Acking(c)  == \E u \in Task : task[u].cmd = c /\ task[u].pc = "xack"
Removing   == \A t \in Task : task[t].pc = "xdel" /\ task[t].cmd \in pel => Acking(task[t].cmd)
NoneDirect == \A c \in Command : task[c].pc # "direct"
Flowing    == Reached /\ Removing /\ NoneDirect /\ NothingStuck

\* A socket has no loop before its hello is over.
Unstarted == \A s \in Socket : sock[s] \notin {"ready", "closed"} => task[s].pc = "idle"

\* The inductive invariant, together with QueueInv.
FlowInv == Unstarted /\ (Clean => Flowing)

\* A step in which no task moves.
LEMMA FlowStays ==
  ASSUME QueueInv, Flowing, Clean,
         UNCHANGED <<task, streamId, stream, pel, lastDelivered>>,
         expired \subseteq expired', entry \ entry' \subseteq expired,
         \A c \in Command : answers'[c] # {} => Delivered(c),
         \A s \in Socket : \A i \in DOMAIN toDevice'[s] : Delivered(toDevice'[s][i])
  PROVE  Flowing'
<1>1. Reached' /\ Removing' /\ NoneDirect'
  BY DEF Flowing, Reached, Removing, NoneDirect, Delivered, Acking
<1>2. Ackable' /\ NoStuckGhost'
  BY DEF Flowing, NothingStuck, Ackable, NoStuckGhost, Clean
<1> QED BY <1>1, <1>2 DEF Flowing, NothingStuck

\* One in which a task moves that was not about to add or to acknowledge.
LEMMA FlowMoves ==
  ASSUME QueueInv, Flowing, Clean, NEW t \in Task, NEW r, task' = [task EXCEPT ![t] = r],
         task[t].pc \notin {"xack", "setEntry"}, r.pc \notin {"direct", "xdel"},
         r.pc = "send" => Delivered(r.cmd),
         UNCHANGED <<streamId, stream, pel, lastDelivered, entry, expired, answers>>,
         \A s \in Socket : \A i \in DOMAIN toDevice'[s] : Delivered(toDevice'[s][i])
  PROVE  Flowing'
<1>1. task'[t] = r /\ \A u \in Task \ {t} : task'[u] = task[u]
  BY DEF QueueInv, Typed, TaskTyped
<1>2. Reached'
  BY <1>1 DEF Flowing, Reached, Delivered
<1>3. \A c : Acking(c) => Acking(c)'
  BY <1>1 DEF Acking
<1>4. Removing'
  BY <1>1, <1>3 DEF Flowing, Removing
<1>5. NoneDirect'
  BY <1>1, Distinct DEF Flowing, NoneDirect
<1>6. Ackable'
  BY <1>1, Distinct DEF Flowing, NothingStuck, Ackable, Clean, QueueInv, Typed, StreamTyped
<1>7. NoStuckGhost'
  BY <1>1 DEF Flowing, NothingStuck, NoStuckGhost, Clean
<1> QED BY <1>2, <1>4, <1>5, <1>6, <1>7 DEF Flowing, NothingStuck

\* The messages on their way when one more is sent.
LEMMA SendsDelivered ==
  ASSUME QueueInv, Flowing, NEW s \in Socket, NEW c \in Command, Delivered(c), Transmit(s, c)
  PROVE  \A r \in Socket : \A i \in DOMAIN toDevice'[r] : Delivered(toDevice'[r][i])
<1> DEFINE q == Append(toDevice[s], c)
<1>1. toDevice[s] \in Seq(Command) /\ toDevice \in [Socket -> Seq(Command)]
  BY DEF QueueInv, Typed, ToDeviceTyped
<1>2. Len(toDevice[s]) \in Nat /\ DOMAIN toDevice[s] = 1 .. Len(toDevice[s])
      /\ DOMAIN q = 1 .. Len(toDevice[s]) + 1 /\ q[Len(toDevice[s]) + 1] = c
      /\ \A i \in 1 .. Len(toDevice[s]) : q[i] = toDevice[s][i]
  BY <1>1, AppendProperties, LenProperties
<1>3. toDevice' \in {toDevice, [toDevice EXCEPT ![s] = q]}
  BY DEF Transmit
<1>4. \A r \in Socket : \A i \in DOMAIN toDevice[r] : Delivered(toDevice[r][i])
  BY DEF Flowing, Reached
<1> HIDE DEF q
<1>5. ASSUME NEW i \in DOMAIN q PROVE Delivered(q[i])
  <2>1. CASE i = Len(toDevice[s]) + 1
    BY <1>2, <2>1
  <2>2. CASE i \in 1 .. Len(toDevice[s])
    BY <1>2, <1>4, <2>2
  <2> QED BY <1>2, <1>5, <2>1, <2>2
<1> QED BY <1>1, <1>3, <1>4, <1>5

\* The messages on their way when one has been read.
LEMMA ReadsDelivered ==
  ASSUME QueueInv, Flowing, client \in Socket, toDevice[client] # <<>>,
         toDevice' = [toDevice EXCEPT ![client] = Tail(@)]
  PROVE  /\ Head(toDevice[client]) \in Command /\ Delivered(Head(toDevice[client]))
         /\ \A s \in Socket : \A i \in DOMAIN toDevice'[s] : Delivered(toDevice'[s][i])
<1> DEFINE q == toDevice[client]
<1>1. q \in Seq(Command) /\ toDevice \in [Socket -> Seq(Command)]
  BY DEF QueueInv, Typed, ToDeviceTyped
<1>2. Head(q) \in Command /\ Head(q) = q[1] /\ 1 \in DOMAIN q
      /\ \A i \in DOMAIN Tail(q) : Tail(q)[i] = q[i + 1] /\ i + 1 \in DOMAIN q
  BY <1>1, HeadTailProperties
<1>3. \A s \in Socket : \A i \in DOMAIN toDevice[s] : Delivered(toDevice[s][i])
  BY DEF Flowing, Reached
<1> QED BY <1>1, <1>2, <1>3

-----------------------------------------------------------------------------
\* A command is enqueued.
LEMMA EnqueueFlows ==
  ASSUME QueueInv, Flowing, Clean, Clean', NEW c \in Command, EnqueueStep(c)
  PROVE  Flowing'
<1> USE DEF QueueInv, Typed
<1>t. task \in [Task -> TaskRecord] /\ c \in Task
  BY Distinct DEF TaskTyped
<1>f. ~Fails
  BY DEF Fails, Clean
<1>1. CASE EnqueueXadd(c)
  <2>1. task[c].pc = "idle" /\ Xadd(c) /\ Goto(c, "setEntry")
        /\ UNCHANGED <<pel, lastDelivered, entry, toDevice, answers, expired>>
    BY <1>1, <1>f DEF EnqueueXadd, Idle, deviceVars, histVars
  <2>2. streamId[c] = 0 /\ c \notin stream
    BY <2>1 DEF QueuedOnce, StreamTyped
  <2>3. /\ task'[c].pc = "setEntry" /\ \A u \in Task \ {c} : task'[u] = task[u]
        /\ stream' = stream \cup {c} /\ \A d \in Command \ {c} : streamId'[d] = streamId[d]
    BY <1>t, <2>1 DEF Goto, Xadd, StreamTyped, TaskRecord
  <2>4. \A d : d \in Command /\ Delivered(d) => Delivered(d)'
    BY <2>1, <2>2, <2>3 DEF Delivered
  <2>5. Reached'
    <3> DEFINE After(d) == 0 < streamId'[d] /\ streamId'[d] <= lastDelivered'
    <3>0. \A d \in Command : Delivered(d) => After(d)
      BY <2>4 DEF Delivered
    <3>1. \A s \in Socket : \A i \in DOMAIN toDevice[s] : toDevice[s][i] \in Command /\ Delivered(toDevice[s][i])
      BY DEF ToDeviceTyped, Flowing, Reached
    <3>2. \A t \in Task : task'[t].pc = "send" => task'[t] = task[t]
      BY <2>3
    <3>3. \A t \in Task : task[t].pc = "send" => task[t].cmd \in Command /\ Delivered(task[t].cmd)
      BY DEF Flowing, Reached, ReasonTrue, TaskOK
    <3>4. (\A d \in pel : d \in Command /\ Delivered(d)) /\ \A d \in Command : answers[d] # {} => Delivered(d)
      BY DEF Flowing, Reached, StreamTyped
    <3> HIDE DEF After
    <3>5. \A d \in pel' : After(d)
      BY <2>1, <3>0, <3>4
    <3>6. \A d \in Command : answers'[d] # {} => After(d)
      BY <2>1, <3>0, <3>4
    <3>7. \A s \in Socket : \A i \in DOMAIN toDevice'[s] : After(toDevice'[s][i])
      BY <2>1, <3>0, <3>1
    <3>8. \A t \in Task : task'[t].pc = "send" => After(task'[t].cmd)
      BY <3>0, <3>2, <3>3
    <3> QED BY <3>5, <3>6, <3>7, <3>8 DEF Reached, Delivered, After
  <2>6. \A d : Acking(d) => Acking(d)'
    BY <2>1, <2>3 DEF Acking
  <2>7. Removing' /\ NoneDirect'
    BY <2>1, <2>3, <2>6, Distinct DEF Flowing, Removing, NoneDirect
  <2>8. Ackable'
    BY <2>1, <2>3, Distinct DEF Flowing, NothingStuck, Ackable, Clean, StreamTyped
  <2>9. NoStuckGhost'
    BY <2>1, <2>3 DEF Flowing, NothingStuck, NoStuckGhost, Clean
  <2> QED BY <2>5, <2>7, <2>8, <2>9 DEF Flowing, NothingStuck
<1>2. CASE EnqueueSetEntry(c)
  <2>1. task[c].pc = "setEntry" /\ entry' = entry \cup {c} /\ Goto(c, "scan")
        /\ UNCHANGED <<streamId, stream, pel, lastDelivered, toDevice, answers, expired>>
    BY <1>2, <1>f DEF EnqueueSetEntry, deviceVars, histVars
  <2>2. task'[c].pc = "scan" /\ \A u \in Task \ {c} : task'[u] = task[u]
    BY <1>t, <2>1 DEF Goto, TaskRecord
  <2>3. \A d : Acking(d) => Acking(d)'
    BY <2>1, <2>2 DEF Acking
  <2>4. Reached'
    BY <2>1, <2>2 DEF Flowing, Reached, Delivered
  <2>5. Removing' /\ NoneDirect'
    BY <2>1, <2>2, <2>3, Distinct DEF Flowing, Removing, NoneDirect
  <2>6. Ackable'
    BY <2>1, <2>2, Distinct DEF Flowing, NothingStuck, Ackable, Clean, StreamTyped
  <2>7. NoStuckGhost'
    BY <2>1, <2>2 DEF Flowing, NothingStuck, NoStuckGhost, Clean
  <2> QED BY <2>4, <2>5, <2>6, <2>7 DEF Flowing, NothingStuck
<1>3. CASE SendDirect(c)
  BY <1>3 DEF SendDirect, Flowing, NoneDirect
<1> QED BY <1>1, <1>2, <1>3 DEF EnqueueStep

\* Cleanup, XACK and XDEL.
LEMMA DeleteFlows ==
  ASSUME QueueInv, Flowing, Clean, Clean', NEW t \in Task, DeleteStep(t)
  PROVE  Flowing'
<1> USE DEF QueueInv, Typed
<1>t. task \in [Task -> TaskRecord] /\ task[t] \in TaskRecord
  BY DEF TaskTyped
<1>f. ~Fails
  BY DEF Fails, Clean
<1>d. \A s \in Socket : \A i \in DOMAIN toDevice[s] : Delivered(toDevice[s][i])
  BY DEF Flowing, Reached
<1>1. CASE Scan(t)
  <2>1. PICK r : task' = [task EXCEPT ![t] = r] /\ r.pc \in {"done", "read", "xack"}
    <3>1. \/ \E h \in expired : task' = [task EXCEPT ![t].pc = "xack", ![t].cmd = h, ![t].why = "cleanup"]
          \/ Finish(t) /\ t \in Command
          \/ task' = [task EXCEPT ![t].pc = "read"]
      BY <1>1 DEF Scan, Cleanup
    <3>2. ASSUME NEW h \in expired, task' = [task EXCEPT ![t].pc = "xack", ![t].cmd = h, ![t].why = "cleanup"]
          PROVE  \E r : task' = [task EXCEPT ![t] = r] /\ r.pc \in {"done", "read", "xack"}
      <4>1. [task[t] EXCEPT !.pc = "xack", !.cmd = h, !.why = "cleanup"].pc = "xack"
        BY <1>t DEF TaskRecord
      <4> QED BY <3>2, <4>1
    <3>3. [task[t] EXCEPT !.pc = "read"].pc = "read" /\ [Idle EXCEPT !.pc = "done"].pc = "done"
      BY <1>t DEF TaskRecord, Idle
    <3> QED BY <3>1, <3>2, <3>3 DEF Finish
  <2> QED BY <1>1, <1>d, <2>1, FlowMoves DEF Scan, deviceVars, histVars
<1>2. CASE Xack(t)
  <2>1. task[t].pc = "xack" /\ pel' = pel \ {task[t].cmd} /\ Goto(t, "xdel")
        /\ UNCHANGED <<streamId, stream, lastDelivered, entry, toDevice, answers, expired>>
    BY <1>2, <1>f DEF Xack, deviceVars, histVars
  <2>2. task'[t].pc = "xdel" /\ task'[t].cmd = task[t].cmd /\ \A u \in Task \ {t} : task'[u] = task[u]
    BY <1>t, <2>1 DEF Goto, TaskRecord
  <2>3. \A d : d # task[t].cmd /\ Acking(d) => Acking(d)'
    BY <2>1, <2>2 DEF Acking
  <2>4. Reached'
    BY <2>1, <2>2 DEF Flowing, Reached, Delivered
  <2>5. Removing'
    BY <2>1, <2>2, <2>3 DEF Flowing, Removing
  <2>6. NoneDirect'
    BY <2>1, <2>2, Distinct DEF Flowing, NoneDirect
  <2>7. Ackable'
    BY <2>1, <2>2, Distinct DEF Flowing, NothingStuck, Ackable, Clean, StreamTyped
  <2>8. NoStuckGhost'
    BY <2>1, <2>2 DEF Flowing, NothingStuck, NoStuckGhost, Clean
  <2> QED BY <2>4, <2>5, <2>6, <2>7, <2>8 DEF Flowing, NothingStuck
<1>3. CASE Xdel(t)
  <2> DEFINE c == task[t].cmd
  <2>1. task[t].pc = "xdel" /\ stream' = stream \ {c} /\ entry' = entry \ {c}
        /\ UNCHANGED <<streamId, pel, lastDelivered, toDevice, answers, expired>>
    BY <1>3, <1>f DEF Xdel, deviceVars
  <2>2. PICK r : task' = [task EXCEPT ![t] = r] /\ r.pc \in {"scan", "top", "idle"}
    <3>1. \E r \in {[task[t] EXCEPT !.pc = "scan", !.cmd = NoCommand, !.why = "none"], AfterEmptyRead(t), Idle} :
            task' = [task EXCEPT ![t] = r]
      BY <1>3 DEF Xdel
    <3>2. [task[t] EXCEPT !.pc = "scan", !.cmd = NoCommand, !.why = "none"].pc = "scan"
      BY <1>t DEF TaskRecord
    <3>3. AfterEmptyRead(t).pc \in {"scan", "top"} /\ Idle.pc = "idle"
      BY DEF AfterEmptyRead, Idle
    <3> QED BY <3>1, <3>2, <3>3
  <2>3. task'[t] = r /\ \A u \in Task \ {t} : task'[u] = task[u]
    BY <1>t, <2>2
  <2>4. \A d : Acking(d) => Acking(d)'
    BY <2>1, <2>3 DEF Acking
  <2>5. Reached'
    BY <2>1, <2>2, <2>3 DEF Flowing, Reached, Delivered
  <2>6. Removing'
    BY <2>1, <2>2, <2>3, <2>4 DEF Flowing, Removing
  <2>7. NoneDirect'
    BY <2>1, <2>2, <2>3, Distinct DEF Flowing, NoneDirect
  <2>8. Ackable'
    BY <2>1, <2>3, Distinct DEF Flowing, NothingStuck, Ackable, Clean, StreamTyped
  <2>9. NoStuckGhost'
    <3>1. \A d \in pel \ stream : Acking(d)
      BY DEF Flowing, NothingStuck, NoStuckGhost, Acking, Clean
    <3>2. c \in pel => Acking(c)
      BY <2>1 DEF Flowing, Removing
    <3>3. \A d \in pel' \ stream' : Acking(d)'
      BY <2>1, <2>4, <3>1, <3>2
    <3> QED BY <3>3 DEF NoStuckGhost, Acking
  <2> QED BY <2>5, <2>6, <2>7, <2>8, <2>9 DEF Flowing, NothingStuck
<1> QED BY <1>1, <1>2, <1>3 DEF DeleteStep

\* What a read makes of an entry, when no call fails.
LEMMA ExamineFlows ==
  ASSUME QueueInv, Clean, Clean', NEW s \in Socket, NEW c \in Command, Examine(s, c)
  PROVE  \E r : /\ task' = [task EXCEPT ![s] = r] /\ r.pc \in {"xack", "scan", "top", "send"}
                /\ c \in expired => r.pc = "xack" /\ r.cmd = c
                /\ r.pc = "send" => r.cmd = c
<1>t. s \in Task /\ task[s] \in TaskRecord
  BY Distinct DEF QueueInv, Typed, TaskTyped
<1>1. CASE c \in expired
  <2> DEFINE r == [task[s] EXCEPT !.pc = "xack", !.cmd = c, !.why = "lapsed"]
  <2>1. r.pc = "xack" /\ r.cmd = c
    BY <1>t DEF TaskRecord
  <2>2. task' = [task EXCEPT ![s] = r]
    BY <1>1 DEF Examine
  <2> QED BY <2>1, <2>2
<1>2. CASE c \notin expired
  <2>1. AfterEmptyRead(s).pc \in {"scan", "top"}
    BY DEF AfterEmptyRead, Idle
  <2>2. [Idle EXCEPT !.pc = "send", !.cmd = c].pc = "send" /\ [Idle EXCEPT !.pc = "send", !.cmd = c].cmd = c
    BY DEF Idle
  <2> QED BY <1>2, <2>1, <2>2 DEF Examine
<1> QED BY <1>1, <1>2

\* The gateway loop.
LEMMA LoopFlows ==
  ASSUME QueueInv, Flowing, Clean, Clean', NEW s \in Socket, LoopStep(s)
  PROVE  Flowing'
<1> USE DEF QueueInv, Typed
<1>t. task \in [Task -> TaskRecord] /\ s \in Task \ Command /\ task[s] \in TaskRecord
  BY Distinct DEF TaskTyped
<1>f. ~Fails
  BY DEF Fails, Clean
<1>d. \A r \in Socket : \A i \in DOMAIN toDevice[r] : Delivered(toDevice[r][i])
  BY DEF Flowing, Reached
<1>p. /\ Idle.pc = "idle" /\ [Idle EXCEPT !.pc = "top"].pc = "top"
      /\ AfterEmptyRead(s).pc \in {"scan", "top"}
  BY DEF Idle, AfterEmptyRead
<1>1. CASE LoopTop(s) \/ LoopTimeout(s) \/ LoopSendFailed(s)
  <2>1. PICK r : task' = [task EXCEPT ![s] = r] /\ r.pc \in {"idle", "timeout", "scan"}
    <3>1. /\ [task[s] EXCEPT !.pc = "timeout", !.cmd = inFlight].pc = "timeout"
          /\ [task[s] EXCEPT !.pc = "scan", !.read = "pending"].pc = "scan"
          /\ [pc |-> "scan", cmd |-> NoCommand, why |-> "none", read |-> "pending"].pc = "scan"
      BY <1>t DEF TaskRecord
    <3>2. \/ Finish(s)
          \/ task' = [task EXCEPT ![s] = [task[s] EXCEPT !.pc = "timeout", !.cmd = inFlight]]
          \/ task' = [task EXCEPT ![s] = [task[s] EXCEPT !.pc = "scan", !.read = "pending"]]
          \/ task' = [task EXCEPT ![s] = [pc |-> "scan", cmd |-> NoCommand, why |-> "none", read |-> "pending"]]
      BY <1>1 DEF LoopTop, LoopTimeout, LoopSendFailed
    <3>3. CASE Finish(s)
      BY <1>t, <1>p, <3>3 DEF Finish
    <3> QED BY <3>1, <3>2, <3>3
  <2>2. task[s].pc \in {"top", "timeout", "sendFailed"}
        /\ UNCHANGED <<streamId, stream, pel, lastDelivered, entry, expired, answers, toDevice>>
    BY <1>1 DEF LoopTop, LoopTimeout, LoopSendFailed, redisVars, deviceVars, histVars
  <2> QED BY <1>t, <1>d, <2>1, <2>2, FlowMoves
<1>2. CASE LoopReadPending(s)
  <2>1. task[s].pc = "read" /\ UNCHANGED <<streamId, stream, pel, lastDelivered, entry, expired, answers, toDevice>>
    BY <1>2 DEF LoopReadPending, redisVars, deviceVars, histVars
  <2>2. CASE \E c \in stream : IsFirst(c, pel) /\ Examine(s, c)
    <3>1. PICK c \in pel : Examine(s, c)
      BY <2>2 DEF IsFirst
    <3>2. c \in Command /\ Delivered(c)
      BY DEF StreamTyped, Flowing, Reached
    <3>3. PICK r : task' = [task EXCEPT ![s] = r] /\ r.pc \in {"xack", "scan", "top", "send"} /\ (r.pc = "send" => r.cmd = c)
      BY <3>1, <3>2, ExamineFlows
    <3> QED BY <1>t, <1>d, <2>1, <3>2, <3>3, FlowMoves
  <2>3. CASE task' = [task EXCEPT ![s] = AfterEmptyRead(s)]
    BY <1>t, <1>d, <1>p, <2>1, <2>3, FlowMoves
  <2> QED BY <1>2, <2>2, <2>3 DEF LoopReadPending
<1>3. CASE LoopReadNew(s)
  <2>1. task[s].pc = "read" /\ UNCHANGED <<streamId, stream, entry, expired, answers, toDevice>>
    BY <1>3 DEF LoopReadNew, deviceVars, histVars
  <2>2. CASE UNCHANGED <<pel, lastDelivered>> /\ task' = [task EXCEPT ![s] = AfterEmptyRead(s)]
    BY <1>t, <1>d, <1>p, <2>1, <2>2, FlowMoves
  <2>3. ASSUME NEW c \in Unread, pel' = pel \cup {c}, lastDelivered' = streamId[c], Examine(s, c)
        PROVE  Flowing'
    <3>1. c \in Command /\ c \in stream /\ lastDelivered < streamId[c] /\ streamId[c] \in Nat /\ lastDelivered \in Nat
      BY DEF Unread, StreamTyped
    <3>2. PICK r : /\ task' = [task EXCEPT ![s] = r] /\ r.pc \in {"xack", "scan", "top", "send"}
                   /\ c \in expired => r.pc = "xack" /\ r.cmd = c
                   /\ r.pc = "send" => r.cmd = c
      BY <2>3, <3>1, ExamineFlows
    <3>3. task'[s] = r /\ \A u \in Task \ {s} : task'[u] = task[u]
      BY <1>t, <3>2
    <3>4. Delivered(c)' /\ ~Delivered(c) /\ \A d \in Command : Delivered(d) => Delivered(d)'
      BY <2>1, <2>3, <3>1 DEF Delivered, StreamTyped
    <3>5. Reached'
      <4>1. \A d \in pel' : Delivered(d)'
        BY <2>3, <3>1, <3>4 DEF Flowing, Reached, StreamTyped
      <4>2. \A d \in Command : answers'[d] # {} => Delivered(d)'
        BY <2>1, <3>4 DEF Flowing, Reached
      <4>3. \A q \in Socket : \A i \in DOMAIN toDevice[q] : toDevice[q][i] \in Command
        BY DEF ToDeviceTyped
      <4>4. \A q \in Socket : \A i \in DOMAIN toDevice'[q] : 0 < streamId'[toDevice'[q][i]] /\ streamId'[toDevice'[q][i]] <= lastDelivered'
        BY <1>d, <2>1, <3>4, <4>3 DEF Delivered
      <4>5. \A u \in Task : task'[u].pc = "send" => 0 < streamId'[task'[u].cmd] /\ streamId'[task'[u].cmd] <= lastDelivered'
        BY <3>2, <3>3, <3>4 DEF Flowing, Reached, ReasonTrue, TaskOK, Delivered
      <4> QED BY <4>1, <4>2, <4>4, <4>5 DEF Reached, Delivered
    <3>6. \A d : Acking(d) => Acking(d)'
      BY <2>1, <3>3 DEF Acking
    <3>7. Removing'
      <4> SUFFICES ASSUME NEW u \in Task, task'[u].pc = "xdel", task'[u].cmd \in pel'
                   PROVE  \E w \in Task : task'[w].cmd = task'[u].cmd /\ task'[w].pc = "xack"
        BY DEF Removing, Acking
      <4>1. task'[u] = task[u] /\ task[u].pc = "xdel"
        BY <3>2, <3>3
      <4>2. CASE task[u].cmd = c
        <5>1. answers[c] = {}
          BY <3>1, <3>4 DEF Flowing, Reached
        <5>2. c \in expired
          BY <4>1, <4>2, <5>1 DEF ReasonTrue, TaskOK, Justified
        <5> QED BY <1>t, <3>2, <3>3, <4>1, <4>2, <5>2
      <4>3. CASE task[u].cmd # c
        <5>1. PICK w \in Task : task[w].cmd = task[u].cmd /\ task[w].pc = "xack"
          BY <2>3, <4>1, <4>3 DEF Flowing, Removing, Acking
        <5>2. w # s
          BY <2>1, <5>1
        <5> QED BY <3>3, <4>1, <5>1, <5>2
      <4> QED BY <4>2, <4>3
    <3>8. NoneDirect'
      BY <1>t, <3>3, Distinct DEF Flowing, NoneDirect
    <3>9. Ackable'
      BY <1>t, <2>1, <3>3, Distinct DEF Flowing, NothingStuck, Ackable, Clean, StreamTyped
    <3>10. NoStuckGhost'
      <4>1. \A d \in pel \ stream : Acking(d)
        BY DEF Flowing, NothingStuck, NoStuckGhost, Acking, Clean
      <4>2. \A d \in pel' \ stream' : Acking(d)'
        BY <2>1, <2>3, <3>1, <3>6, <4>1
      <4> QED BY <4>2 DEF NoStuckGhost, Acking
    <3> QED BY <3>5, <3>7, <3>8, <3>9, <3>10 DEF Flowing, NothingStuck
  <2> QED BY <1>3, <1>f, <2>2, <2>3 DEF LoopReadNew
<1>4. CASE LoopSend(s)
  <2>1. task[s].pc = "send" /\ UNCHANGED <<streamId, stream, pel, lastDelivered, entry, expired, answers>>
    BY <1>4 DEF LoopSend, redisVars, histVars
  <2>2. task[s].cmd \in Command /\ Delivered(task[s].cmd)
    BY <1>t, <2>1 DEF ReasonTrue, TaskOK, Flowing, Reached
  <2>3. \A r \in Socket : \A i \in DOMAIN toDevice'[r] : Delivered(toDevice'[r][i])
    BY <1>4, <1>d, <2>2, SendsDelivered DEF LoopSend
  <2>4. PICK r : task' = [task EXCEPT ![s] = r] /\ r.pc \in {"idle", "top", "sendFailed"}
    <3>1. [task[s] EXCEPT !.pc = "sendFailed"].pc = "sendFailed"
      BY <1>t DEF TaskRecord
    <3> QED BY <1>4, <1>t, <1>p, <3>1 DEF LoopSend, Finish, Goto
  <2> QED BY <1>t, <2>1, <2>3, <2>4, FlowMoves
<1> QED BY <1>1, <1>2, <1>3, <1>4 DEF LoopStep

\* The handler of an answer, and the end of a hello.
LEMMA HandlerFlows ==
  ASSUME QueueInv, Unstarted, Flowing, Clean, Clean',
         \/ \E h \in Handler : AckStep(h) \/ \E s \in Socket : AckReceive(h, s)
         \/ \E s \in Socket : HelloDone(s)
  PROVE  Flowing'
<1> USE DEF QueueInv, Typed
<1>f. ~Fails
  BY DEF Fails, Clean
<1>d. \A r \in Socket : \A i \in DOMAIN toDevice[r] : Delivered(toDevice[r][i])
  BY DEF Flowing, Reached
<1>t. task \in [Task -> TaskRecord]
  BY DEF TaskTyped
<1>1. ASSUME NEW h \in Handler, AckStep(h) PROVE Flowing'
  <2>1. h \in Task \ Command /\ task[h] \in TaskRecord
    BY <1>t, Distinct
  <2>2. task[h].pc \in {"lookup", "nack", "setAck"}
        /\ UNCHANGED <<streamId, stream, pel, lastDelivered, entry, expired, answers, toDevice>>
    BY <1>1 DEF AckStep, AckLookup, AckRetry, AckSetTerminal, redisVars, deviceVars, histVars
  <2>3. PICK r : task' = [task EXCEPT ![h] = r] /\ r.pc \in {"idle", "nack", "setAck", "xack"}
    <3>1. \A pc : [task[h] EXCEPT !.pc = pc].pc = pc
      BY <2>1 DEF TaskRecord
    <3>2. Finish(h) \/ \E pc \in {"nack", "setAck", "xack"} : Goto(h, pc)
      BY <1>1 DEF AckStep, AckLookup, AckRetry, AckSetTerminal
    <3>3. Idle.pc = "idle"
      BY DEF Idle
    <3> QED BY <2>1, <3>1, <3>2, <3>3 DEF Finish, Goto
  <2> QED BY <1>d, <2>1, <2>2, <2>3, FlowMoves
<1>2. ASSUME NEW h \in Handler, NEW s \in Socket, AckReceive(h, s) PROVE Flowing'
  <2>0. h \in Task /\ task[h] = Idle
    BY <1>2, Distinct DEF AckReceive
  <2>1. UNCHANGED <<streamId, stream, pel, lastDelivered, entry, expired, answers, toDevice>>
    BY <1>2 DEF AckReceive, redisVars, histVars
  <2>3. task[h].pc = "idle"
    BY <2>0 DEF Idle
  <2>2. PICK r : task' = [task EXCEPT ![h] = r] /\ r.pc = "lookup"
    <3> DEFINE a == Head(toServer[s])
               r == [Idle EXCEPT !.pc = "lookup", !.cmd = a.cmd, !.why = a.ans]
    <3>1. r.pc = "lookup"
      BY DEF Idle
    <3>2. task' = [task EXCEPT ![h] = r]
      BY <1>2 DEF AckReceive
    <3> QED BY <3>1, <3>2
  <2> QED BY <1>d, <2>0, <2>1, <2>2, <2>3, FlowMoves
<1>3. ASSUME NEW s \in Socket, HelloDone(s) PROVE Flowing'
  <2>1. s \in Task /\ task[s] \in TaskRecord /\ task[s].pc = "idle"
        /\ UNCHANGED <<streamId, stream, pel, lastDelivered, entry, expired, answers, toDevice>>
    BY <1>3, <1>t, Distinct DEF HelloDone, Unstarted, redisVars, deviceVars, histVars
  <2>2. [task[s] EXCEPT !.pc = "top"].pc = "top" /\ task' = [task EXCEPT ![s] = [task[s] EXCEPT !.pc = "top"]]
    BY <1>3, <1>f, <2>1 DEF HelloDone, Goto, TaskRecord
  <2> QED BY <1>d, <2>1, <2>2, FlowMoves
<1> QED BY <1>1, <1>2, <1>3

\* Deadlines, connections and the desktop.
LEMMA OutsideFlows ==
  ASSUME QueueInv, Flowing, Clean,
         \/ \E c \in Command : Expire(c) \/ EntryKeyExpires(c) \/ BackoffElapses(c)
         \/ \E s \in Socket : Connect(s) \/ Hello(s) \/ SocketClosed(s)
         \/ DeviceStep \/ ClientDrop \/ DeviceRestart
  PROVE  Flowing'
<1> USE DEF QueueInv, Typed
<1>d. \A r \in Socket : \A i \in DOMAIN toDevice[r] : Delivered(toDevice[r][i])
  BY DEF Flowing, Reached
<1>a. \A c \in Command : answers[c] # {} => Delivered(c)
  BY DEF Flowing, Reached
<1>1. ASSUME NEW c \in Command, Expire(c) \/ EntryKeyExpires(c) \/ BackoffElapses(c) PROVE Flowing'
  <2>1. /\ UNCHANGED <<task, streamId, stream, pel, lastDelivered, answers, toDevice>>
        /\ expired \subseteq expired' /\ entry \ entry' \subseteq expired
    BY <1>1 DEF Expire, EntryKeyExpires, BackoffElapses, redisVars, apiVars, deviceVars, histVars
  <2> QED BY <1>a, <1>d, <2>1, FlowStays
<1>2. ASSUME \/ \E s \in Socket : Connect(s) \/ Hello(s) \/ SocketClosed(s)
             \/ ClientDrop \/ DeviceRestart
      PROVE  Flowing'
  <2>1. UNCHANGED <<task, streamId, stream, pel, lastDelivered, answers, expired, entry>>
    BY <1>2 DEF Connect, Hello, SocketClosed, ClientDrop, DeviceRestart, redisVars, apiVars, deviceVars, histVars
  <2>2. toDevice' = toDevice \/ \E s \in Socket : toDevice' = [toDevice EXCEPT ![s] = <<>>]
    BY <1>2 DEF Connect, Hello, SocketClosed, ClientDrop, DeviceRestart, deviceVars, SocketTyped
  <2>3. \A r \in Socket : \A i \in DOMAIN toDevice'[r] : Delivered(toDevice'[r][i])
    BY <1>d, <2>2 DEF ToDeviceTyped
  <2> QED BY <1>a, <2>1, <2>3, FlowStays
<1>3. ASSUME DeviceStep PROVE Flowing'
  <2>1. /\ UNCHANGED <<task, streamId, stream, pel, lastDelivered, expired, entry>>
        /\ client \in Socket /\ toDevice[client] # <<>>
        /\ toDevice' = [toDevice EXCEPT ![client] = Tail(@)]
    BY <1>3 DEF DeviceStep, DeviceRepeat, DeviceHandle, redisVars, apiVars, histVars, SocketTyped
  <2>2. /\ Head(toDevice[client]) \in Command /\ Delivered(Head(toDevice[client]))
        /\ \A r \in Socket : \A i \in DOMAIN toDevice'[r] : Delivered(toDevice'[r][i])
    BY <2>1, ReadsDelivered
  <2>3. \A c \in Command : c # Head(toDevice[client]) => answers'[c] = answers[c]
    BY <1>3 DEF DeviceStep, DeviceRepeat, DeviceHandle, histVars, HistoryTyped
  <2> QED BY <1>a, <2>1, <2>2, <2>3, FlowStays
<1> QED BY <1>1, <1>2, <1>3

-----------------------------------------------------------------------------
\* A loop starts with the end of a hello.
LEMMA UnstartedKeeps ==
  ASSUME QueueInv, Unstarted, Next
  PROVE  Unstarted'
<1> USE DEF QueueInv, Typed
<1>t. task \in [Task -> TaskRecord] /\ Socket \subseteq Task /\ sock \in [Socket -> SockPhase]
  BY Distinct DEF TaskTyped, SocketTyped
<1>1. ASSUME NEW t \in Task, \A u \in Task : u # t => task'[u] = task[u], task[t].pc # "idle" \/ t \notin Socket, sock' = sock
      PROVE  Unstarted'
  BY <1>1, <1>t DEF Unstarted
<1>2. ASSUME NEW c \in Command, EnqueueStep(c) PROVE Unstarted'
  BY <1>1, <1>2, <1>t, Distinct DEF EnqueueStep, EnqueueXadd, EnqueueSetEntry, SendDirect, Goto, Finish
<1>3. ASSUME NEW t \in Task, DeleteStep(t) PROVE Unstarted'
  BY <1>1, <1>3, <1>t DEF DeleteStep, Scan, Cleanup, Xack, Xdel, Goto, Finish
<1>4. ASSUME NEW s \in Socket, LoopStep(s) PROVE Unstarted'
  BY <1>1, <1>4, <1>t DEF LoopStep, LoopTop, LoopTimeout, LoopReadPending, LoopReadNew, LoopSend, LoopSendFailed, Examine, Goto, Finish
<1>5. ASSUME NEW h \in Handler, AckStep(h) \/ \E s \in Socket : AckReceive(h, s) PROVE Unstarted'
  <2>1. h \in Task /\ h \notin Socket
    BY Distinct, DistinctAssumption
  <2>2. sock' = sock /\ \A u \in Task : u # h => task'[u] = task[u]
    BY <1>5, <1>t, <2>1 DEF AckStep, AckLookup, AckRetry, AckSetTerminal, AckReceive, Goto, Finish
  <2> QED BY <1>1, <2>1, <2>2
<1>6. ASSUME NEW s \in Socket, HelloDone(s) PROVE Unstarted'
  BY <1>6, <1>t DEF HelloDone, Goto, Unstarted
<1>7. ASSUME UNCHANGED task, sock' = sock \/ \E s \in Socket : Connect(s) \/ Hello(s) \/ SocketClosed(s) PROVE Unstarted'
  BY <1>7, <1>t DEF Connect, Hello, SocketClosed, Unstarted, SockPhase
<1>8. ASSUME ApiRestart PROVE Unstarted'
  BY <1>8, <1>t, Distinct DEF ApiRestart, Unstarted, Idle
<1>9. ASSUME \/ \E c \in Command : Expire(c) \/ EntryKeyExpires(c) \/ BackoffElapses(c)
             \/ \E s \in Socket : Connect(s) \/ Hello(s) \/ SocketClosed(s)
             \/ DeviceStep \/ ClientDrop \/ DeviceRestart
      PROVE  Unstarted'
  BY <1>7, <1>9 DEF Expire, EntryKeyExpires, BackoffElapses, Connect, Hello, SocketClosed, DeviceStep, DeviceRepeat, DeviceHandle,
     ClientDrop, DeviceRestart, apiVars
<1> QED BY <1>2, <1>3, <1>4, <1>5, <1>6, <1>8, <1>9 DEF Next

\* It holds at first.
LEMMA InitFlowInv == Init => FlowInv
BY Distinct DEF Init, FlowInv, Unstarted, Flowing, Reached, Removing, NoneDirect, NothingStuck, Ackable, NoStuckGhost, Idle, Delivered, Acking

\* Every step keeps it.
LEMMA NextFlowInv == QueueInv /\ FlowInv /\ [Next]_vars => FlowInv'
<1> SUFFICES ASSUME QueueInv, FlowInv, [Next]_vars PROVE FlowInv'
  OBVIOUS
<1>1. CASE UNCHANGED vars
  <2>1. Unstarted' /\ Clean' = Clean
    BY <1>1 DEF FlowInv, Unstarted, Clean, vars, apiVars
  <2>2. CASE Clean
    <3>1. Flowing'
      BY <1>1, <2>2, FlowStays DEF FlowInv, Flowing, Reached, vars, apiVars, redisVars, deviceVars, histVars
    <3> QED BY <2>1, <3>1 DEF FlowInv
  <2>3. CASE ~Clean
    BY <2>1, <2>3 DEF FlowInv
  <2> QED BY <2>2, <2>3
<1>2. CASE Next
  <2>1. Unstarted'
    BY <1>2, UnstartedKeeps DEF FlowInv
  <2>2. ASSUME Clean' PROVE Flowing'
    <3>1. Clean
      <4>1. faults' = faults \/ (faults' = faults + 1)
        <5> DEFINE Counts == faults' = faults \/ faults' = faults + 1
        <5>1. ASSUME NEW c \in Command, EnqueueStep(c) \/ Expire(c) \/ EntryKeyExpires(c) \/ BackoffElapses(c) PROVE Counts
          BY <5>1 DEF EnqueueStep, EnqueueXadd, EnqueueSetEntry, SendDirect, Expire, EntryKeyExpires, BackoffElapses, Works, Fails
        <5>2. ASSUME NEW t \in Task, DeleteStep(t) PROVE Counts
          BY <5>2 DEF DeleteStep, Scan, Cleanup, Xack, Xdel, Works, Fails
        <5>3. ASSUME NEW s \in Socket, LoopStep(s) PROVE Counts
          BY <5>3 DEF LoopStep, LoopTop, LoopTimeout, LoopReadPending, LoopReadNew, LoopSend, LoopSendFailed, Examine,
             ScheduleRetry, Works, Fails
        <5>4. ASSUME NEW s \in Socket, Connect(s) \/ Hello(s) \/ HelloDone(s) \/ SocketClosed(s) PROVE Counts
          BY <5>4 DEF Connect, Hello, HelloDone, SocketClosed, Works, Fails
        <5>5. ASSUME NEW h \in Handler, AckStep(h) \/ \E s \in Socket : AckReceive(h, s) PROVE Counts
          BY <5>5 DEF AckStep, AckLookup, AckRetry, AckSetTerminal, AckReceive, ScheduleRetry, Works, Fails
        <5>6. ASSUME DeviceStep \/ ClientDrop \/ ApiRestart \/ DeviceRestart PROVE Counts
          BY <5>6 DEF DeviceStep, DeviceRepeat, DeviceHandle, ClientDrop, ApiRestart, DeviceRestart, Works, Fails
        <5> HIDE DEF Counts
        <5>7. Counts
          BY <1>2, <5>1, <5>2, <5>3, <5>4, <5>5, <5>6 DEF Next
        <5> QED BY <5>7 DEF Counts
      <4>2. crashes' = crashes \/ (crashes' = crashes + 1)
        BY <1>2 DEF Next, EnqueueStep, EnqueueXadd, EnqueueSetEntry, SendDirect, Expire, EntryKeyExpires, BackoffElapses,
           DeleteStep, Scan, Xack, Xdel, LoopStep, LoopTop, LoopTimeout, LoopReadPending, LoopReadNew, LoopSend,
           LoopSendFailed, Connect, Hello, HelloDone, SocketClosed, AckStep, AckLookup, AckRetry,
           AckSetTerminal, AckReceive, DeviceStep, DeviceRepeat, DeviceHandle, ClientDrop, ApiRestart, DeviceRestart
      <4> QED BY <2>2, <4>1, <4>2 DEF Clean, QueueInv, Typed, HistoryTyped
    <3>2. Flowing /\ Unstarted
      BY <3>1 DEF FlowInv
    <3>3. ~ApiRestart
      BY <2>2 DEF ApiRestart, Clean, QueueInv, Typed, HistoryTyped
    <3> QED BY <1>2, <2>2, <3>1, <3>2, <3>3, EnqueueFlows, DeleteFlows, LoopFlows, HandlerFlows, OutsideFlows DEF Next
  <2> QED BY <2>1, <2>2 DEF FlowInv
<1> QED BY <1>1, <1>2

\* While no Redis or Postgres call fails and the API does not restart, an
\* answer, a pending entry and a message belong to entries the group was given,
\* for any number of commands, sockets and handlers.
THEOREM FlowInvariance == Spec => []FlowInv
BY InitFlowInv, NextFlowInv, QueueInvariance, PTL DEF Spec

\* Under the same condition what the stream holds can be acknowledged, and a
\* pending entry that has left it is about to be (deleteStreamEntry, which
\* sends XACK before XDEL).
THEOREM QueueFlows == Spec => []NothingStuck
<1>1. FlowInv => NothingStuck
  <2>1. CASE Clean
    BY <2>1 DEF FlowInv, Flowing
  <2>2. CASE ~Clean
    BY <2>2 DEF Clean, NothingStuck, Ackable, NoStuckGhost
  <2> QED BY <2>1, <2>2
<1> QED BY <1>1, FlowInvariance, PTL

-----------------------------------------------------------------------------
(* A run of the application handles a command once, as long as its memory    *)
(* of answers can hold one for every command: an answer is kept for exactly  *)
(* the commands that were handled, so that the oldest is never dropped.      *)

Remembered ==
  /\ replayed = {}
  /\ Len(handledAcks) = Cardinality(ran)
  /\ \A c \in ran : Handled(c)

\* An answer is given and kept.
LEMMA HandleRemembers ==
  ASSUME QueueInv, Remembered, IsFiniteSet(Command), Cardinality(Command) <= MaxHandled,
         NEW v \in Verdict, DeviceHandle(v)
  PROVE  Remembered'
<1> USE DEF QueueInv, Typed
<1> DEFINE c == Head(toDevice[client])
           a == [cmd |-> c, ans |-> v]
           kept == Append(handledAcks, a)
<1>1. toDevice[client] \in Seq(Command) /\ toDevice[client] # <<>>
  BY DEF DeviceHandle, SocketTyped, ToDeviceTyped
<1>2. c \in Command /\ a \in Message
  <2>1. c \in Command
    BY <1>1, HeadTailProperties
  <2> QED BY <2>1 DEF Message
<1>3. ran \subseteq Command /\ ran' = ran \cup {c} /\ ran' \subseteq Command /\ c \notin ran
  BY <1>2 DEF HistoryTyped, DeviceHandle, Remembered
<1>4. replayed' = {}
  BY <1>3 DEF DeviceHandle, Remembered
<1>5. IsFiniteSet(ran) /\ Cardinality(ran') = Cardinality(ran) + 1 /\ Cardinality(ran') <= Cardinality(Command)
  <2>1. IsFiniteSet(ran)
    BY <1>3, FS_Subset
  <2>2. Cardinality(ran') = Cardinality(ran) + 1
    BY <1>3, <2>1, FS_AddElement
  <2>3. Cardinality(ran') <= Cardinality(Command)
    BY <1>3, FS_Subset
  <2> QED BY <2>1, <2>2, <2>3
<1>6. /\ handledAcks \in Seq(Message) /\ Len(handledAcks) \in Nat /\ DOMAIN handledAcks = 1 .. Len(handledAcks)
      /\ Len(kept) = Len(handledAcks) + 1 /\ DOMAIN kept = 1 .. Len(handledAcks) + 1
      /\ \A i \in 1 .. Len(handledAcks) : kept[i] = handledAcks[i]
      /\ kept[Len(handledAcks) + 1] = a
  <2>1. handledAcks \in Seq(Message)
    BY DEF MessageTyped
  <2> QED BY <1>2, <2>1, AppendProperties, LenProperties
<1>7. Len(kept) <= MaxHandled
  <2>1. Cardinality(ran) \in Nat /\ Cardinality(Command) \in Nat /\ MaxHandled \in Nat
    BY <1>5, FS_CardinalityType, BoundsAssumption
  <2>2. Len(kept) = Cardinality(ran) + 1
    BY <1>6 DEF Remembered
  <2> HIDE DEF kept
  <2> QED BY <1>5, <2>1, <2>2
<1>8. handledAcks' = kept
  <2>1. Remember(a)
    BY DEF DeviceHandle
  <2>2. Len(kept) \in Nat /\ MaxHandled \in Nat
    BY <1>6, BoundsAssumption
  <2>3. ~(Len(kept) > MaxHandled)
    BY <1>7, <2>2
  <2> QED BY <2>1, <2>3 DEF Remember
<1> HIDE DEF kept
<1>9. Len(handledAcks') = Cardinality(ran')
  BY <1>5, <1>6, <1>8 DEF Remembered
<1>10. ASSUME NEW d \in ran' PROVE Handled(d)'
  <2>1. CASE d = c
    BY <1>6, <1>8, <2>1 DEF Handled
  <2>2. CASE d \in ran
    <3>1. PICK i \in DOMAIN handledAcks : handledAcks[i].cmd = d
      BY <2>2 DEF Remembered, Handled
    <3>2. i \in DOMAIN kept /\ kept[i].cmd = d
      BY <1>6, <3>1
    <3> QED BY <1>8, <3>2 DEF Handled
  <2> QED BY <1>3, <1>10, <2>1, <2>2
<1> QED BY <1>4, <1>9, <1>10 DEF Remembered

\* Every step keeps what is remembered.
LEMMA NextRemembers ==
  ASSUME IsFiniteSet(Command), Cardinality(Command) <= MaxHandled
  PROVE  QueueInv /\ Remembered /\ [Next]_vars => Remembered'
<1> SUFFICES ASSUME QueueInv, Remembered, [Next]_vars PROVE Remembered'
  OBVIOUS
<1>1. ASSUME UNCHANGED <<replayed, ran, handledAcks>> PROVE Remembered'
  BY <1>1 DEF Remembered, Handled
<1>2. ASSUME DeviceStep PROVE Remembered'
  <2>1. CASE \E i \in DOMAIN handledAcks : DeviceRepeat(i)
    BY <1>1, <2>1 DEF DeviceRepeat, histVars
  <2> QED BY <1>2, <2>1, HandleRemembers DEF DeviceStep
<1>3. ASSUME DeviceRestart PROVE Remembered'
  <2>1. replayed' = {} /\ ran' = {} /\ handledAcks' = <<>>
    BY <1>3 DEF DeviceRestart, Remembered
  <2>2. Cardinality({}) = 0 /\ Len(<<>>) = 0
    BY FS_EmptySet
  <2> QED BY <2>1, <2>2 DEF Remembered
<1>4. ASSUME NEW c \in Command, EnqueueStep(c) \/ Expire(c) \/ EntryKeyExpires(c) \/ BackoffElapses(c) PROVE Remembered'
  BY <1>1, <1>4 DEF EnqueueStep, EnqueueXadd, EnqueueSetEntry, SendDirect, Expire, EntryKeyExpires, BackoffElapses, deviceVars, histVars
<1>5. ASSUME NEW t \in Task, DeleteStep(t) PROVE Remembered'
  BY <1>1, <1>5 DEF DeleteStep, Scan, Xack, Xdel, deviceVars, histVars
<1>6. ASSUME NEW s \in Socket, LoopStep(s) \/ Connect(s) \/ Hello(s) \/ HelloDone(s) \/ SocketClosed(s) PROVE Remembered'
  BY <1>1, <1>6 DEF LoopStep, LoopTop, LoopTimeout, LoopReadPending, LoopReadNew, LoopSend, LoopSendFailed, Connect, Hello,
     HelloDone, SocketClosed, deviceVars, histVars
<1>7. ASSUME NEW h \in Handler, AckStep(h) \/ \E s \in Socket : AckReceive(h, s) PROVE Remembered'
  BY <1>1, <1>7 DEF AckStep, AckLookup, AckRetry, AckSetTerminal, AckReceive, deviceVars, histVars
<1>8. ASSUME ClientDrop \/ ApiRestart \/ UNCHANGED vars PROVE Remembered'
  BY <1>1, <1>8 DEF ClientDrop, ApiRestart, vars, deviceVars, histVars
<1> QED BY <1>2, <1>3, <1>4, <1>5, <1>6, <1>7, <1>8 DEF Next

\* One run of the desktop application handles a command at most once, however
\* often it is delivered, if handledCommandAcks has room for as many commands
\* as there are (handleServerCommand, rememberAndSendCommandAck).
THEOREM HandledOnce ==
  ASSUME IsFiniteSet(Command), Cardinality(Command) <= MaxHandled
  PROVE  Spec => []AtMostOncePerSession
<1>1. Init => Remembered
  BY FS_EmptySet DEF Init, Remembered
<1>2. Remembered => AtMostOncePerSession
  BY DEF Remembered, AtMostOncePerSession
<1> QED BY <1>1, <1>2, NextRemembers, QueueInvariance, PTL DEF Spec
=============================================================================
