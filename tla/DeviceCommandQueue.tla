------------------------ MODULE DeviceCommandQueue ------------------------
(***************************************************************************)
(* The command queue of ONE device: the Redis stream and its consumer      *)
(* group (apps/api/src/lib/device-commands.ts, redis.ts), the gateway loop *)
(* that drains it into the device's WebSocket and the handler of           *)
(* device.command.ack (apps/api/src/lib/ws-handler.ts), and the desktop    *)
(* client that answers (apps/desktop/src/lib/wsClient.ts).                 *)
(*                                                                         *)
(* Every chain of awaits of the API process is a TASK with a program       *)
(* counter: the gateway loop of a socket, the enqueue of a command, and    *)
(* the handler of an acknowledgement.  One step of a task is one Redis     *)
(* round trip, or the synchronous code between two awaits.  redis.ts opens *)
(* a socket per command and turns every failure into null, false or 0, so  *)
(* any round trip may fail without raising anything.                       *)
(*                                                                         *)
(* Time is abstract: a deadline passes when its action says so, and        *)
(* CLEANUP_BATCH_SIZE is 1, so that cleanup re-reads the stream after each *)
(* removal.                                                                *)
(***************************************************************************)
EXTENDS Naturals, Sequences

CONSTANTS
  Command,      \* the commands dispatched to the device
  Handler,      \* device.command.ack handlers that may run at once
  NoCommand,    \* no command
  Verdict,      \* bound: what the desktop may answer, of ok, reject, retry
  Expirable,    \* bound: commands that may live until their expiresAt
  MaxSockets,   \* bound: WebSocket connections the device opens
  MaxFaults,    \* bound: Redis or Postgres calls that fail
  MaxCrashes,   \* bound: restarts of the API process
  MaxTransit,   \* bound: messages on their way in one direction of a socket
  MaxHandled    \* maxHandledCommandAcks of the desktop client (200)

NoSocket == 0
Socket   == 1 .. MaxSockets
Task     == Socket \cup Command \cup Handler

ASSUME BoundsAssumption ==
  /\ Verdict \subseteq {"ok", "reject", "retry"} /\ Expirable \subseteq Command
  /\ MaxSockets \in Nat /\ MaxFaults \in Nat /\ MaxCrashes \in Nat
  /\ MaxTransit \in Nat /\ MaxHandled \in Nat \ {0}

ASSUME DistinctAssumption ==
  /\ NoCommand \notin Command
  /\ Socket \cap Command = {}
  /\ Socket \cap Handler = {}
  /\ Command \cap Handler = {}

\* Why a task deletes a stream entry, when it does not process an answer:
\* cleanup of an expired head, or an entry that had expired when it was read.
Reason   == {"cleanup", "lapsed", "none"}
AckValue == {"none", "ok", "reject", "expired"}
Pc == {"idle", "done", "setEntry", "direct", "scan", "xack", "xdel", "top", "timeout", "read", "send", "sendFailed",
       "lookup", "nack", "setAck"}
SockPhase == {"unused", "open", "greeting", "ready", "closing", "closed"}

VARIABLES
  \* Redis: stream and consumer group, keys
  streamId,       \* XADD id of a command, 0 before
  lastId,         \* last generated id of the stream
  stream,         \* entries in the stream
  pel,            \* entries pending in the consumer group
  lastDelivered,  \* last delivered id of the group
  entry,          \* commands with an entry key
  ackKey,         \* terminal acknowledgement key
  retry,          \* retry key: none, waiting for availableAt, due
  \* the API process
  task,           \* state of every task
  gateway,        \* deviceGatewayLoops: the socket of the current loop
  inFlight,       \* deviceInFlightCommands
  sock,           \* phase of every socket, as the API sees it
  \* the desktop and the network
  client,         \* the socket the desktop holds open
  toDevice,       \* server.command messages on their way
  toServer,       \* device.command.ack messages on their way
  handledAcks,    \* handledCommandAcks, oldest first
  \* the environment and the history
  expired,        \* commands whose expiresAt has passed
  answers,        \* verdicts the desktop has ever given on a command
  ran,            \* commands handled since the desktop application started
  replayed,       \* commands handled twice by one run of the application
  applied,        \* how often a terminal outcome has been applied
  faults, crashes

redisVars  == <<streamId, lastId, stream, pel, lastDelivered, entry, ackKey, retry>>
apiVars    == <<task, gateway, inFlight, sock>>
deviceVars == <<client, toDevice, toServer, handledAcks>>
histVars   == <<expired, answers, ran, replayed, applied>>
vars == <<redisVars, apiVars, deviceVars, histVars, faults, crashes>>

Idle == [pc |-> "idle", cmd |-> NoCommand, why |-> "none", read |-> "none"]

TypeOK ==
  /\ streamId \in [Command -> Nat]
  /\ lastId \in Nat
  /\ stream \subseteq Command
  /\ pel \subseteq Command
  /\ lastDelivered \in Nat
  /\ entry \subseteq Command
  /\ ackKey \in [Command -> AckValue]
  /\ retry \in [Command -> {"none", "waiting", "due"}]
  /\ task \in [Task -> [pc : Pc, cmd : Command \cup {NoCommand},
                        why : Reason \cup Verdict, read : {"none", "pending", "new"}]]
  /\ gateway \in Socket \cup {NoSocket}
  /\ inFlight \in Command \cup {NoCommand}
  /\ sock \in [Socket -> SockPhase]
  /\ client \in Socket \cup {NoSocket}
  /\ toDevice \in [Socket -> Seq(Command)]
  /\ toServer \in [Socket -> Seq([cmd : Command, ans : Verdict])]
  /\ handledAcks \in Seq([cmd : Command, ans : Verdict])
  /\ expired \subseteq Command
  /\ answers \in [Command -> SUBSET Verdict]
  /\ ran \subseteq Command
  /\ replayed \subseteq Command
  /\ applied \in [Command -> Nat]
  /\ faults \in Nat /\ crashes \in Nat

Init ==
  /\ streamId = [c \in Command |-> 0]
  /\ lastId = 0
  /\ stream = {}
  /\ pel = {}
  /\ lastDelivered = 0
  /\ entry = {}
  /\ ackKey = [c \in Command |-> "none"]
  /\ retry = [c \in Command |-> "none"]
  /\ task = [t \in Task |-> Idle]
  /\ gateway = NoSocket
  /\ inFlight = NoCommand
  /\ sock = [s \in Socket |-> "unused"]
  /\ client = NoSocket
  /\ toDevice = [s \in Socket |-> <<>>]
  /\ toServer = [s \in Socket |-> <<>>]
  /\ handledAcks = <<>>
  /\ expired = {}
  /\ answers = [c \in Command |-> {}]
  /\ ran = {}
  /\ replayed = {}
  /\ applied = [c \in Command |-> 0]
  /\ faults = 0 /\ crashes = 0

-----------------------------------------------------------------------------
(* Helpers *)

\* A call that succeeds, and one that fails and is swallowed.
Works == UNCHANGED faults
Fails == faults < MaxFaults /\ faults' = faults + 1

Goto(t, pc) == task' = [task EXCEPT ![t].pc = pc]
Finish(t)   == task' = [task EXCEPT ![t] = IF t \in Command THEN [Idle EXCEPT !.pc = "done"]
                                                            ELSE Idle]

\* The entry of S with the lowest stream id: what COUNT 1 returns.
IsFirst(c, S) == c \in S /\ \A d \in S : streamId[c] <= streamId[d]

\* Entries the group has not been given yet.
Unread == {c \in stream : streamId[c] > lastDelivered}

\* The socket is in socketToDevice under this device's id.
Known(s) == sock[s] \in {"greeting", "ready"}

\* socket.send: the bytes reach the desktop only if it holds that socket.
Transmit(s, c) ==
  IF client = s
  THEN /\ Len(toDevice[s]) < MaxTransit
       /\ toDevice' = [toDevice EXCEPT ![s] = Append(@, c)]
  ELSE UNCHANGED toDevice

\* scheduleRetry: the number of attempts only sets how long the wait is.
ScheduleRetry(c) ==
  \/ Works /\ retry' = [retry EXCEPT ![c] = "waiting"]
  \/ Fails /\ UNCHANGED retry

\* clearDeviceInFlightCommand with a command id.
ClearInFlight(c) == inFlight' = IF inFlight = c THEN NoCommand ELSE inFlight

\* Mutant: the loop never tries the new entries.
AfterAnyRead(t) == [Idle EXCEPT !.pc = "top"]

\* What a read that yields no command leads to: the loop tries the new
\* entries after the pending ones, and starts over after the new ones.
AfterEmptyRead(t) ==
  IF task[t].read = "pending"
  THEN [pc |-> "scan", cmd |-> NoCommand, why |-> "none", read |-> "new"]
  ELSE [Idle EXCEPT !.pc = "top"]

-----------------------------------------------------------------------------
(* enqueueDeviceCommand and dispatchDeviceCommand *)

Xadd(c) ==
  /\ streamId' = [streamId EXCEPT ![c] = lastId + 1]
  /\ lastId' = lastId + 1
  /\ stream' = stream \cup {c}

\* XGROUP CREATE and XADD.  When either fails, or XADD's reply is lost, the
\* command counts as not queued and goes straight to the socket.
EnqueueXadd(c) ==
  /\ task[c] = Idle
  /\ \/ Works /\ Xadd(c) /\ Goto(c, "setEntry")
     \/ Fails /\ UNCHANGED <<streamId, lastId, stream>> /\ Goto(c, "direct")
     \/ Fails /\ Xadd(c) /\ Goto(c, "direct")
  /\ UNCHANGED <<pel, lastDelivered, entry, ackKey, retry, gateway, inFlight, sock,
                 deviceVars, histVars, crashes>>

\* SET of the entry key, whose result nobody looks at; cleanup follows.
EnqueueSetEntry(c) ==
  /\ task[c].pc = "setEntry"
  /\ \/ Works /\ entry' = entry \cup {c}
     \/ Fails /\ UNCHANGED entry
  /\ Goto(c, "scan")
  /\ UNCHANGED <<streamId, lastId, stream, pel, lastDelivered, ackKey, retry,
                 gateway, inFlight, sock, deviceVars, histVars, crashes>>

\* sendDirect: sendToDevice takes the first socket of the map with this
\* device's id, the oldest one still registered.
SendDirect(c) ==
  /\ task[c].pc = "direct"
  /\ \/ \E s \in Socket : /\ Known(s) /\ \A r \in Socket : Known(r) => s <= r
                          /\ Transmit(s, c)
     \/ (\A s \in Socket : ~Known(s)) /\ UNCHANGED toDevice
  /\ Finish(c)
  /\ UNCHANGED <<redisVars, gateway, inFlight, sock, client, toServer, handledAcks,
                 histVars, faults, crashes>>

-----------------------------------------------------------------------------
(* cleanupExpiredDeviceCommands and deleteStreamEntry, run by any task *)

\* Mutant: the clock of cleanup is ahead.
CleanupEarly(t) ==
  \/ \E h \in Expirable :
       /\ IsFirst(h, stream)
       /\ Works /\ ackKey' = [ackKey EXCEPT ![h] = "expired"]
       /\ task' = [task EXCEPT ![t].pc = "xack", ![t].cmd = h, ![t].why = "cleanup"]
  \/ /\ Works /\ ~ \E h \in Expirable : IsFirst(h, stream)
     /\ IF t \in Command THEN Finish(t) ELSE task' = [task EXCEPT ![t].pc = "read"]
     /\ UNCHANGED ackKey

\* XRANGE.  An expired head gets its terminal acknowledgement (a second one,
\* if an answer was being processed) and is deleted; otherwise cleanup is over
\* and the caller goes on.
Cleanup(t) ==
  \/ \E h \in expired :
       /\ IsFirst(h, stream)
       /\ \/ Works /\ ackKey' = [ackKey EXCEPT ![h] = "expired"]
          \/ Fails /\ UNCHANGED ackKey
       /\ task' = [task EXCEPT ![t].pc = "xack", ![t].cmd = h, ![t].why = "cleanup"]
  \/ /\ \/ Works /\ ~ \E h \in expired : IsFirst(h, stream)
        \/ Fails
     /\ IF t \in Command THEN Finish(t) ELSE task' = [task EXCEPT ![t].pc = "read"]
     /\ UNCHANGED ackKey

Scan(t) ==
  /\ task[t].pc = "scan"
  /\ Cleanup(t)
  /\ UNCHANGED <<streamId, lastId, stream, pel, lastDelivered, entry, retry,
                 gateway, inFlight, sock, deviceVars, histVars, crashes>>

\* Mutant: an entry that lapsed is deleted without XACK.
XackUnlessLapsed(t) ==
  /\ task[t].pc = "xack"
  /\ Works /\ pel' = IF task[t].why = "lapsed" THEN pel ELSE pel \ {task[t].cmd}
  /\ Goto(t, "xdel")
  /\ UNCHANGED <<streamId, lastId, stream, lastDelivered, entry, ackKey, retry,
                 gateway, inFlight, sock, deviceVars, histVars, crashes>>

Xack(t) ==
  /\ task[t].pc = "xack"
  /\ \/ Works /\ pel' = pel \ {task[t].cmd}
     \/ Fails /\ UNCHANGED pel
  /\ Goto(t, "xdel")
  /\ UNCHANGED <<streamId, lastId, stream, lastDelivered, entry, ackKey, retry,
                 gateway, inFlight, sock, deviceVars, histVars, crashes>>

\* XDEL and DEL of the two keys, which only late answers read, then back to
\* the caller: cleanup, the read that met an expired entry, or the handler of
\* a terminal answer, which ends with applyTerminalDeviceCommandOutcome.
Xdel(t) ==
  LET c == task[t].cmd IN
  /\ task[t].pc = "xdel"
  /\ \/ /\ Works
        /\ stream' = stream \ {c} /\ entry' = entry \ {c} /\ retry' = [retry EXCEPT ![c] = "none"]
     \/ /\ Fails
        /\ \/ UNCHANGED stream /\ entry' = entry \ {c} /\ retry' = [retry EXCEPT ![c] = "none"]
           \/ stream' = stream \ {c} /\ UNCHANGED entry /\ retry' = [retry EXCEPT ![c] = "none"]
           \/ stream' = stream \ {c} /\ entry' = entry \ {c} /\ UNCHANGED retry
  /\ task' = [task EXCEPT ![t] =
       CASE task[t].why = "cleanup" -> [@ EXCEPT !.pc = "scan", !.cmd = NoCommand, !.why = "none"]
         [] task[t].why = "lapsed"  -> AfterEmptyRead(t)
         [] OTHER                   -> Idle]
  /\ applied' = IF task[t].why \in Verdict THEN [applied EXCEPT ![c] = @ + 1] ELSE applied
  /\ UNCHANGED <<streamId, lastId, pel, lastDelivered, ackKey, gateway, inFlight, sock,
                 deviceVars, expired, answers, ran, replayed, crashes>>

-----------------------------------------------------------------------------
(* startDeviceGatewayLoop *)

\* Head of the loop: leave when another loop took over, wait for the command
\* in flight to be answered or to time out, otherwise read, which starts with
\* cleanup.
LoopTop(s) ==
  /\ task[s].pc = "top"
  /\ \/ gateway # s /\ Finish(s)
     \/ /\ gateway = s /\ inFlight # NoCommand
        /\ task' = [task EXCEPT ![s].pc = "timeout", ![s].cmd = inFlight]
     \/ /\ gateway = s /\ inFlight = NoCommand
        /\ task' = [task EXCEPT ![s].pc = "scan", ![s].read = "pending"]
  /\ UNCHANGED <<redisVars, gateway, inFlight, sock, deviceVars, histVars,
                 faults, crashes>>

\* DEVICE_COMMAND_ACK_TIMEOUT_MS: recordDeviceCommandSendFailure, then the
\* command is no longer in flight and the loop reads.
LoopTimeout(s) ==
  /\ task[s].pc = "timeout"
  /\ ScheduleRetry(task[s].cmd)
  /\ ClearInFlight(task[s].cmd)
  /\ task' = [task EXCEPT ![s] = [pc |-> "scan", cmd |-> NoCommand, why |-> "none",
                                  read |-> "pending"]]
  /\ UNCHANGED <<streamId, lastId, stream, pel, lastDelivered, entry, ackKey,
                 gateway, sock, deviceVars, histVars, crashes>>

\* What becomes of a command that was read.  An expired one is deleted without
\* a terminal acknowledgement; one whose availableAt is ahead ends the read
\* with no command.  The GET of its retry key can only come too early, so that
\* it needs no step of its own.
Examine(s, c) ==
  IF c \in expired
  THEN /\ Works
       /\ task' = [task EXCEPT ![s].pc = "xack", ![s].cmd = c, ![s].why = "lapsed"]
  ELSE \/ /\ Works /\ retry[c] = "waiting"
          /\ task' = [task EXCEPT ![s] = AfterEmptyRead(s)]
       \/ /\ \/ Works /\ retry[c] # "waiting"
             \/ Fails
          /\ task' = [task EXCEPT ![s] = [Idle EXCEPT !.pc = "send", !.cmd = c]]

\* XREADGROUP ... 0: the oldest pending entry.  One that is no longer in the
\* stream comes back without fields and is skipped.
LoopReadPending(s) ==
  /\ task[s].pc = "read" /\ task[s].read = "pending"
  /\ \/ \E c \in stream : IsFirst(c, pel) /\ Examine(s, c)
     \/ /\ \/ Works /\ ~ \E c \in stream : IsFirst(c, pel)
           \/ Fails
        /\ task' = [task EXCEPT ![s] = AfterEmptyRead(s)]
  /\ UNCHANGED <<redisVars, gateway, inFlight, sock, deviceVars, histVars,
                 crashes>>

\* XREADGROUP ... >: the next entry the group has not been given.  When the
\* reply is lost the entry is pending all the same.
LoopReadNew(s) ==
  /\ task[s].pc = "read" /\ task[s].read = "new"
  /\ \/ \E c \in Unread :
          /\ IsFirst(c, Unread)
          /\ pel' = pel \cup {c}
          /\ lastDelivered' = streamId[c]
          /\ \/ Examine(s, c)
             \/ Fails /\ task' = [task EXCEPT ![s] = AfterEmptyRead(s)]
     \/ /\ \/ Works /\ Unread = {}
           \/ Fails
        /\ task' = [task EXCEPT ![s] = AfterEmptyRead(s)]
        /\ UNCHANGED <<pel, lastDelivered>>
  /\ UNCHANGED <<streamId, lastId, stream, entry, ackKey, retry, gateway, inFlight,
                 sock, deviceVars, histVars, crashes>>

\* Mutant: a command is deleted as soon as it has been sent.
SendAndForget(s) ==
  LET c == task[s].cmd IN
  /\ task[s].pc = "send"
  /\ IF gateway = s
     THEN /\ Transmit(s, c) /\ inFlight' = c
          /\ task' = [task EXCEPT ![s].pc = "xack", ![s].why = "lapsed"]
     ELSE Finish(s) /\ UNCHANGED <<toDevice, inFlight>>
  /\ UNCHANGED <<redisVars, gateway, sock, client, toServer, handledAcks, histVars,
                 faults, crashes>>

\* sendToSocket, if the loop is still the current one.  A socket that is no
\* longer open may drop the message or throw.
LoopSend(s) ==
  LET c == task[s].cmd IN
  /\ task[s].pc = "send"
  /\ \/ gateway # s /\ Finish(s) /\ UNCHANGED <<toDevice, inFlight>>
     \/ /\ gateway = s
        /\ Transmit(s, c)
        /\ inFlight' = c
        /\ task' = [task EXCEPT ![s] = [Idle EXCEPT !.pc = "top"]]
     \/ /\ gateway = s /\ ~Known(s)
        /\ Goto(s, "sendFailed")
        /\ UNCHANGED <<toDevice, inFlight>>
  /\ UNCHANGED <<redisVars, gateway, sock, client, toServer, handledAcks, histVars,
                 faults, crashes>>

\* The loop records the failure and returns; nothing starts it again.
LoopSendFailed(s) ==
  /\ task[s].pc = "sendFailed"
  /\ ScheduleRetry(task[s].cmd)
  /\ Finish(s)
  /\ UNCHANGED <<streamId, lastId, stream, pel, lastDelivered, entry, ackKey,
                 gateway, inFlight, sock, deviceVars, histVars, crashes>>

-----------------------------------------------------------------------------
(* The device.command.ack handler and ackDeviceCommand *)

\* The message has left the socket, which may have been closed since, and after
\* touchPresence its command is no longer in flight.
AckReceive(h, s) ==
  LET a == Head(toServer[s]) IN
  /\ task[h] = Idle
  /\ toServer[s] # <<>>
  /\ task' = [task EXCEPT ![h] = [Idle EXCEPT !.pc = "lookup", !.cmd = a.cmd, !.why = a.ans]]
  /\ ClearInFlight(a.cmd)
  /\ toServer' = [toServer EXCEPT ![s] = Tail(@)]
  /\ UNCHANGED <<redisVars, gateway, sock, client, toDevice, handledAcks, histVars,
                 faults, crashes>>

\* GET of the terminal key and of the entry key.  A terminal acknowledgement
\* on record ends the handler, whatever is left of the entry; without the
\* entry key the answer is ignored.  A failed GET finds nothing.
AckLookup(h) ==
  LET c == task[h].cmd IN
  /\ task[h].pc = "lookup"
  /\ \/ Works /\ (ackKey[c] # "none" \/ c \notin entry) /\ Finish(h)
     \/ Fails /\ Finish(h)
     \/ /\ c \in entry
        /\ \/ Works /\ ackKey[c] = "none"
           \/ Fails
        /\ Goto(h, IF task[h].why = "retry" THEN "nack" ELSE "setAck")
  /\ UNCHANGED <<redisVars, gateway, inFlight, sock, deviceVars, histVars,
                 crashes>>

\* A retryable nack leaves the entry queued.
AckRetry(h) ==
  /\ task[h].pc = "nack"
  /\ ScheduleRetry(task[h].cmd)
  /\ Finish(h)
  /\ UNCHANGED <<streamId, lastId, stream, pel, lastDelivered, entry, ackKey,
                 gateway, inFlight, sock, deviceVars, histVars, crashes>>

\* A terminal answer: setTerminalAck, then deleteStreamEntry.
AckSetTerminal(h) ==
  /\ task[h].pc = "setAck"
  /\ \/ Works /\ ackKey' = [ackKey EXCEPT ![task[h].cmd] = task[h].why]
     \/ Fails /\ UNCHANGED ackKey
  /\ Goto(h, "xack")
  /\ UNCHANGED <<streamId, lastId, stream, pel, lastDelivered, entry, retry,
                 gateway, inFlight, sock, deviceVars, histVars, crashes>>

-----------------------------------------------------------------------------
(* Deadlines *)

\* expiresAt passes.  It is computed before XADD, so that two commands need
\* not expire in stream order.
Expire(c) ==
  /\ c \in Expirable \ expired /\ task[c] # Idle
  /\ expired' = expired \cup {c}
  /\ UNCHANGED <<redisVars, apiVars, deviceVars, answers, ran, replayed, applied,
                 faults, crashes>>

\* The entry key is set for the same time to live, but later.
EntryKeyExpires(c) ==
  /\ c \in entry \cap expired
  /\ entry' = entry \ {c}
  /\ UNCHANGED <<streamId, lastId, stream, pel, lastDelivered, ackKey, retry,
                 apiVars, deviceVars, histVars, faults, crashes>>

\* availableAt passes.
BackoffElapses(c) ==
  /\ retry[c] = "waiting"
  /\ retry' = [retry EXCEPT ![c] = "due"]
  /\ UNCHANGED <<streamId, lastId, stream, pel, lastDelivered, entry, ackKey,
                 apiVars, deviceVars, histVars, faults, crashes>>

-----------------------------------------------------------------------------
(* Connections *)

\* WsClient.connect: a new socket when the desktop holds none.
Connect(s) ==
  /\ client = NoSocket
  /\ sock[s] = "unused" /\ \A r \in Socket : r < s => sock[r] # "unused"
  /\ client' = s
  /\ sock' = [sock EXCEPT ![s] = "open"]
  /\ UNCHANGED <<redisVars, task, gateway, inFlight, toDevice, toServer, handledAcks,
                 histVars, faults, crashes>>

\* device.hello up to its first await: the socket is registered.
Hello(s) ==
  /\ sock[s] = "open"
  /\ sock' = [sock EXCEPT ![s] = "greeting"]
  /\ UNCHANGED <<redisVars, task, gateway, inFlight, deviceVars, histVars,
                 faults, crashes>>

\* device.hello after its awaits: hello_ack and startDeviceGatewayLoop, which
\* takes over from any other loop.  Nothing asks whether the socket has been
\* closed in between.  A rejected upsertHello ends the handler early.
HelloDone(s) ==
  /\ sock[s] \in {"greeting", "closing"}
  /\ sock' = [sock EXCEPT ![s] = IF @ = "greeting" THEN "ready" ELSE "closed"]
  /\ \/ Works /\ gateway' = s /\ inFlight' = NoCommand /\ Goto(s, "top")
     \/ Fails /\ UNCHANGED <<gateway, inFlight, task>>
  /\ UNCHANGED <<redisVars, deviceVars, histVars, crashes>>

\* The desktop's end is gone; the API has not seen it yet.
ClientDrop ==
  /\ client # NoSocket
  /\ toDevice' = [toDevice EXCEPT ![client] = <<>>]
  /\ client' = NoSocket
  /\ UNCHANGED <<redisVars, apiVars, toServer, handledAcks, histVars,
                 faults, crashes>>

\* The close event of a socket: stopDeviceGatewayLoop forgets the loop only
\* if it is this socket's, and the command in flight in any case.  An answer
\* is lost unless its handler was already waiting for touchPresence.
SocketClosed(s) ==
  /\ sock[s] \in {"open", "greeting", "ready"}
  /\ sock' = [sock EXCEPT ![s] = IF @ = "greeting" THEN "closing" ELSE "closed"]
  /\ gateway' = IF Known(s) /\ gateway = s THEN NoSocket ELSE gateway
  /\ inFlight' = IF Known(s) THEN NoCommand ELSE inFlight
  /\ client' = IF client = s THEN NoSocket ELSE client
  /\ toDevice' = [toDevice EXCEPT ![s] = <<>>]
  /\ toServer' \in {toServer, [toServer EXCEPT ![s] = <<>>]}
  /\ UNCHANGED <<redisVars, task, handledAcks, histVars, faults, crashes>>

\* The API process stops and starts: its maps, loops and handlers are gone.
ApiRestart ==
  /\ crashes < MaxCrashes /\ crashes' = crashes + 1
  /\ task' = [t \in Task |-> IF t \in Command /\ task[t] # Idle
                             THEN [Idle EXCEPT !.pc = "done"] ELSE Idle]
  /\ gateway' = NoSocket
  /\ inFlight' = NoCommand
  /\ sock' = [s \in Socket |-> IF sock[s] = "unused" THEN "unused" ELSE "closed"]
  /\ client' = NoSocket
  /\ toDevice' = [s \in Socket |-> <<>>]
  /\ toServer' = [s \in Socket |-> <<>>]
  /\ UNCHANGED <<redisVars, handledAcks, histVars, faults>>

-----------------------------------------------------------------------------
(* The desktop client *)

Handled(c) == \E i \in DOMAIN handledAcks : handledAcks[i].cmd = c

Answer(a) == toServer' = [toServer EXCEPT ![client] = Append(@, a)]

\* Mutant: only successes are remembered.
RememberSuccess(a) ==
  handledAcks' = IF a.ans = "ok" THEN Append(handledAcks, a) ELSE handledAcks

\* rememberAndSendCommandAck: every answer is kept, a retryable nack too; the
\* oldest goes when there are too many.
Remember(a) ==
  LET kept == Append(handledAcks, a) IN
  handledAcks' = IF Len(kept) > MaxHandled THEN Tail(kept) ELSE kept

\* handleServerCommand of a command answered before: the same answer again.
DeviceRepeat(i) ==
  /\ client # NoSocket /\ toDevice[client] # <<>>
  /\ Len(toServer[client]) < MaxTransit
  /\ handledAcks[i].cmd = Head(toDevice[client])
  /\ Answer(handledAcks[i])
  /\ toDevice' = [toDevice EXCEPT ![client] = Tail(@)]
  /\ UNCHANGED <<redisVars, apiVars, client, handledAcks, histVars,
                 faults, crashes>>

\* handleServerCommand of any other command: it is handled and answered.
DeviceHandle(v) ==
  LET c == Head(toDevice[client])
      a == [cmd |-> c, ans |-> v] IN
  /\ client # NoSocket /\ toDevice[client] # <<>>
  /\ Len(toServer[client]) < MaxTransit
  /\ ~Handled(c)
  /\ Answer(a)
  /\ Remember(a)
  /\ toDevice' = [toDevice EXCEPT ![client] = Tail(@)]
  /\ answers' = [answers EXCEPT ![c] = @ \cup {v}]
  /\ ran' = ran \cup {c}
  /\ replayed' = replayed \cup (ran \cap {c})
  /\ UNCHANGED <<redisVars, apiVars, client, expired, applied, faults, crashes>>

\* The application is restarted: handledCommandAcks is not persisted.
DeviceRestart ==
  /\ client # NoSocket \/ ran # {} \/ handledAcks # <<>>
  /\ handledAcks' = <<>>
  /\ ran' = {}
  /\ client' = NoSocket
  /\ toDevice' = IF client = NoSocket THEN toDevice
                 ELSE [toDevice EXCEPT ![client] = <<>>]
  /\ UNCHANGED <<redisVars, apiVars, toServer, expired, answers, replayed, applied,
                 faults, crashes>>

-----------------------------------------------------------------------------
EnqueueStep(c) == EnqueueXadd(c) \/ EnqueueSetEntry(c) \/ SendDirect(c)
DeleteStep(t)  == Scan(t) \/ Xack(t) \/ Xdel(t)
LoopStep(s)    == \/ LoopTop(s) \/ LoopTimeout(s) \/ LoopReadPending(s) \/ LoopReadNew(s)
                  \/ LoopSend(s) \/ LoopSendFailed(s)
AckStep(h)     == AckLookup(h) \/ AckRetry(h) \/ AckSetTerminal(h)
DeviceStep     == \/ \E i \in DOMAIN handledAcks : DeviceRepeat(i)
                  \/ \E v \in Verdict : DeviceHandle(v)

Next ==
  \/ \E c \in Command : \/ EnqueueStep(c) \/ Expire(c) \/ EntryKeyExpires(c)
                        \/ BackoffElapses(c)
  \/ \E t \in Task : DeleteStep(t)
  \/ \E s \in Socket : \/ LoopStep(s) \/ Connect(s) \/ Hello(s) \/ HelloDone(s)
                       \/ SocketClosed(s)
  \/ \E h \in Handler : AckStep(h) \/ \E s \in Socket : AckReceive(h, s)
  \/ DeviceStep \/ ClientDrop \/ ApiRestart \/ DeviceRestart

Spec == Init /\ [][Next]_vars

\* Node runs every callback that is ready and every timer that is due, and the
\* desktop reads its socket; nothing makes a connection fail, a process
\* restart, a command expire or a user dispatch one.
Fairness ==
  /\ \A c \in Command : /\ WF_vars(EnqueueSetEntry(c)) /\ WF_vars(SendDirect(c))
                        /\ WF_vars(BackoffElapses(c))
  /\ \A t \in Task : WF_vars(DeleteStep(t))
  /\ \A s \in Socket : WF_vars(LoopStep(s)) /\ WF_vars(Hello(s)) /\ WF_vars(HelloDone(s))
  /\ \A h \in Handler : /\ WF_vars(AckStep(h))
                        /\ \A s \in Socket : WF_vars(AckReceive(h, s))
  /\ WF_vars(DeviceStep)

FairSpec == Spec /\ Fairness

-----------------------------------------------------------------------------
(* Properties *)

Answered(c) == answers[c] \cap {"ok", "reject"} # {}

\* A command whose entry was added to the stream stays there until the desktop
\* has given a terminal answer or the command has expired, whatever Redis
\* calls fail and whichever process restarts.
NoSilentDrop ==
  \A c \in Command : streamId[c] > 0 /\ c \notin stream => Answered(c) \/ c \in expired

\* What the terminal key says of a command did happen, and no outcome is
\* applied to runs, approvals and actions that the desktop did not report.
RecordsTellTheTruth ==
  \A c \in Command :
    /\ ackKey[c] \in {"ok", "reject"} => ackKey[c] \in answers[c]
    /\ ackKey[c] = "expired" => c \in expired
    /\ applied[c] > 0 => Answered(c)

\* One run of the desktop application handles a command at most once, however
\* often the gateway redelivers it.
AtMostOncePerSession == replayed = {}

\* While no call fails and the API does not restart, every command of the
\* stream whose enqueue is over and that has not expired can be acknowledged.
Ackable ==
  faults = 0 /\ crashes = 0 =>
    \A c \in stream \ expired :
      \/ c \in entry
      \/ task[c].pc = "setEntry"

\* Under the same condition a pending entry that is no longer in the stream is
\* about to be acknowledged: the head of the pending list is never stuck on an
\* entry that XREADGROUP returns without fields.
NoStuckGhost ==
  faults = 0 /\ crashes = 0 =>
    \A c \in pel \ stream :
      \E t \in Task : task[t].cmd = c /\ task[t].pc = "xack"

\* Nothing gets stuck in the queue: what it holds can be acknowledged, and what
\* left it does not stay at the head of the pending list.
NothingStuck == Ackable /\ NoStuckGhost

\* The desktop stays connected and the current gateway loop is its own.
Served == \E s \in Socket : <>[](client = s /\ gateway = s)

\* A command that keeps being refused for the moment holds up those behind it.
HeldUp(c) == \E d \in Command : "retry" \in answers[d] /\ streamId[d] <= streamId[c]

Queued(c) == c \in stream /\ task[c].pc = "done"

\* A desktop that stays connected to its own loop sees every queued command
\* leave the queue, unless it expires or waits behind a retryable nack.
ServedQueueDrains ==
  Served => \A c \in Command : Queued(c) ~> (c \notin stream \/ c \in expired \/ HeldUp(c))

\* The abstract promise, with the stream as the queue.
Delivery == INSTANCE CommandDelivery WITH
  queued  <- stream,
  removed <- {c \in Command : streamId[c] > 0} \ stream,
  record  <- ackKey

DeliverySpec == Delivery!CDSpec
=============================================================================
