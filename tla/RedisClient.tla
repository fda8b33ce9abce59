---------------------------- MODULE RedisClient ----------------------------
(***************************************************************************)
(* runRawCommand of apps/api lib/redis.ts: every command opens a socket of *)
(* its own and sends AUTH and SELECT, where the URL asks for them, and the *)
(* command in one go; the answer is the last of the expected replies.  A   *)
(* call of redisClient turns a rejection into null, false, 0 or [].  The    *)
(* contents of a reply are abstracted to whether Redis refuses and whether *)
(* the text is ASCII: lengths are counted in bytes and applied to UTF-16.  *)
(***************************************************************************)
EXTENDS Naturals, Sequences

CONSTANTS Commands,     \* calls of redisClient
          HasPassword, HasDatabase   \* the URL asks for AUTH, and for SELECT

ASSUME RedisAssumption == {HasPassword, HasDatabase} \subseteq BOOLEAN

VARIABLES conn,         \* the promise and its socket: phase, replies arrived whole and parsed, outcome
          replies       \* the replies of the server, in order: ok, ascii

redisVars == <<conn, replies>>

\* expectedResponses, and the place of the reply to the command itself.
Expected == 1 + (IF HasPassword THEN 1 ELSE 0) + (IF HasDatabase THEN 1 ELSE 0)
LastReply == Expected

Pending == {"connecting", "sent"}
Fresh == [phase |-> "idle", arrived |-> 0, parsed |-> 0, outcome |-> "none"]

RedisInit ==
  /\ conn = [c \in Commands |-> Fresh]
  /\ replies = [c \in Commands |-> <<>>]

RunRawCommand(c) ==
  /\ conn[c].phase = "idle"
  /\ conn' = [conn EXCEPT ![c].phase = "connecting"]
  /\ UNCHANGED replies

SendCommands(c) ==
  /\ conn[c].phase = "connecting"
  /\ conn' = [conn EXCEPT ![c].phase = "sent"]
  /\ UNCHANGED replies

(* Redis executes what was sent, also after an error and after the client   *)
(* gave up.  Only the reply to the command itself carries text of users.   *)
ServerReplies(c) ==
  /\ conn[c].phase \notin {"idle", "connecting"}
  /\ Len(replies[c]) < Expected
  /\ \E ok, ascii \in BOOLEAN :
       /\ ascii \/ (ok /\ Len(replies[c]) + 1 = LastReply)
       /\ replies' = [replies EXCEPT ![c] = Append(@, [ok |-> ok, ascii |-> ascii])]
  /\ UNCHANGED conn

Settle(c, outcome, arrived, parsed) ==
  conn' = [conn EXCEPT ![c] = [phase |-> "settled", arrived |-> arrived, parsed |-> parsed,
                               outcome |-> outcome]]

(* Mutant: one reply is enough. *)
AnyParsed(parsed) == parsed >= 1

AllParsed(parsed) == parsed = Expected

\* The replies from the first that is not parsed to the n-th can be parsed.
Good(c, n) == \A i \in (conn[c].parsed + 1)..n : replies[c][i].ok /\ replies[c][i].ascii

(* A chunk: the loop of the data event parses the replies that have arrived *)
(* whole, and resolves the promise with the last one when it has them all. *)
Data(c) ==
  /\ conn[c].phase = "sent"
  /\ \E n \in (conn[c].parsed + 1)..Len(replies[c]) :
       /\ Good(c, n)
       /\ IF AllParsed(n) THEN Settle(c, "resolved", n, n)
          ELSE conn' = [conn EXCEPT ![c].arrived = n, ![c].parsed = n]
  /\ UNCHANGED replies

(* An error reply rejects the promise, whichever of the commands it is for. *)
DataError(c) ==
  /\ conn[c].phase = "sent"
  /\ \E n \in (conn[c].parsed + 1)..Len(replies[c]) :
       /\ Good(c, n - 1) /\ ~replies[c][n].ok
       /\ Settle(c, "rejected", n, n - 1)
  /\ UNCHANGED replies

(* A bulk string of more bytes than UTF-16 units swallows what follows it:  *)
(* the loop waits for more, or meets what is no prefix; where a chunk ends  *)
(* within a character, the replacement characters can make up the length.   *)
DataText(c) ==
  /\ conn[c].phase = "sent" /\ conn[c].arrived < Expected
  /\ Len(replies[c]) = Expected /\ ~replies[c][LastReply].ascii /\ Good(c, LastReply - 1)
  /\ \/ conn' = [conn EXCEPT ![c].arrived = LastReply, ![c].parsed = LastReply - 1]
     \/ Settle(c, "rejected", LastReply, LastReply - 1)
     \/ Settle(c, "garbled", LastReply, LastReply)
  /\ UNCHANGED replies

(* socket.setTimeout: nothing arrives for 2.5 seconds. *)
SocketTimeout(c) ==
  /\ conn[c].phase \in Pending
  /\ Settle(c, "timeout", conn[c].arrived, conn[c].parsed)
  /\ UNCHANGED replies

SocketError(c) ==
  /\ conn[c].phase \in Pending
  /\ Settle(c, "rejected", conn[c].arrived, conn[c].parsed)
  /\ UNCHANGED replies

(* The server closes the connection in order: the socket ends and is        *)
(* destroyed, its time limit with it, and there is no listener for "end" or *)
(* "close".                                                                *)
ServerCloses(c) ==
  /\ conn[c].phase = "sent"
  /\ conn' = [conn EXCEPT ![c].phase = "closed"]
  /\ UNCHANGED replies

RedisNext ==
  \E c \in Commands :
    \/ RunRawCommand(c) \/ SendCommands(c) \/ ServerReplies(c)
    \/ Data(c) \/ DataError(c) \/ DataText(c)
    \/ SocketTimeout(c) \/ SocketError(c) \/ ServerCloses(c)

(* The timer of a socket and the events of its data are the event loop's. *)
RedisFairness == \A c \in Commands : WF_redisVars(SocketTimeout(c))

RedisSpec == RedisInit /\ [][RedisNext]_redisVars /\ RedisFairness

-----------------------------------------------------------------------------
\* Types of the promises and of the replies: nothing is parsed that has not arrived, and a
\* promise that was settled stays so.
RedisTypeOK ==
  /\ \A c \in Commands :
       /\ conn[c].parsed <= conn[c].arrived /\ conn[c].arrived <= Len(replies[c])
       /\ conn[c].outcome = "none" <=> conn[c].phase # "settled"
  /\ conn \in [Commands -> [phase : {"idle", "connecting", "sent", "settled", "closed"},
                            arrived : 0..Expected, parsed : 0..Expected,
                            outcome : {"none", "resolved", "rejected", "garbled", "timeout"}]]
  /\ replies \in [Commands -> Seq([ok : BOOLEAN, ascii : BOOLEAN])]

(* However the replies are cut into chunks, a promise is resolved with the  *)
(* reply to its own command, never with that to AUTH or SELECT, and only if *)
(* none of the commands was refused.                                        *)
ResolvedIsOwn ==
  \A c \in Commands : conn[c].outcome = "resolved" =>
    /\ conn[c].parsed = LastReply /\ Len(replies[c]) = Expected
    /\ \A i \in 1..Expected : replies[c][i].ok /\ replies[c][i].ascii

(* A call whose connection is not closed by the server ends. *)
CallsEnd == \A c \in Commands : conn[c].phase \in Pending ~> conn[c].phase \in {"settled", "closed"}

(* README.md: "If Redis is unavailable, the API logs a warning and falls    *)
(* back to in-memory behavior."  The caller hears of it.                    *)
UnavailableIsHeard == \A c \in Commands : conn[c].phase \in Pending ~> conn[c].phase = "settled"

(* README.md: the commands queued in Redis Streams are drained "with        *)
(* at-least-once delivery".  A reply that has arrived whole is not given up *)
(* for want of the rest, nor changed.                                       *)
ReplyIsTaken ==
  \A c \in Commands :
    /\ conn[c].outcome = "timeout" => conn[c].arrived < Expected
    /\ conn[c].outcome # "garbled"
=============================================================================
