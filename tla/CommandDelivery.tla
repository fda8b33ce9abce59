-------------------------- MODULE CommandDelivery --------------------------
(***************************************************************************)
(* What the device command queue promises (README.md:12, README.md:214,    *)
(* docs/deploying.md:159-166), without Redis, sockets or tasks: a queued   *)
(* command stays queued until the device has given a terminal answer or    *)
(* the command has expired, and the record of its end tells the truth.     *)
(***************************************************************************)
CONSTANT Command

VARIABLES
  queued,    \* commands in the queue
  removed,   \* commands that were queued and no longer are
  answers,   \* the verdicts of the device on each command
  expired,   \* commands whose time is over
  record     \* the terminal record of each command

cdVars == <<queued, removed, answers, expired, record>>

Settled(c) == c \in expired \/ answers[c] \cap {"ok", "reject"} # {}

CDInit ==
  /\ queued = {} /\ removed = {} /\ expired = {}
  /\ answers = [c \in Command |-> {}]
  /\ record = [c \in Command |-> "none"]

\* A command is queued once.
Accept(c) ==
  /\ c \notin queued \cup removed
  /\ queued' = queued \cup {c}
  /\ UNCHANGED <<removed, answers, expired, record>>

\* The device answers, perhaps more than once and perhaps differently.
Reply(c, v) ==
  /\ answers' = [answers EXCEPT ![c] = @ \cup {v}]
  /\ UNCHANGED <<queued, removed, expired, record>>

Lapse(c) ==
  /\ expired' = expired \cup {c}
  /\ UNCHANGED <<queued, removed, answers, record>>

\* The end of a command goes on record only if it is true.
Record(c, r) ==
  /\ \/ r \in answers[c] \cap {"ok", "reject"}
     \/ r = "expired" /\ c \in expired
  /\ record' = [record EXCEPT ![c] = r]
  /\ UNCHANGED <<queued, removed, answers, expired>>

\* Only a settled command leaves the queue.
Remove(c) ==
  /\ c \in queued /\ Settled(c)
  /\ queued' = queued \ {c}
  /\ removed' = removed \cup {c}
  /\ UNCHANGED <<answers, expired, record>>

CDNext ==
  \E c \in Command :
    \/ Accept(c) \/ Lapse(c) \/ Remove(c)
    \/ \E v \in {"ok", "reject", "retry"} : Reply(c, v)
    \/ \E r \in {"ok", "reject", "expired"} : Record(c, r)

CDSpec == CDInit /\ [][CDNext]_cdVars
=============================================================================
