---------------------------- MODULE DesktopProofs ----------------------------
(***************************************************************************)
(* Proofs about what runs on the desktop alone: the assistant engines, the *)
(* task runner, the chat, the overlay window and the updater, for any      *)
(* number of runs, proposals, tasks, turns, calls and releases.            *)
(***************************************************************************)
EXTENDS MCDesktop, SequenceTheorems, TLAPS

-----------------------------------------------------------------------------
(* The assistant engines: AssistantLoop.                                   *)

Item == [state : ApprovalStates, p : 1..MaxProposals, kind : {"action", "tool"}, by : Engines]
ItemsTyped == Len(items) \in Nat /\ items \in [1..Len(items) -> Item]
HoldsTyped ==
  exec \subseteq [p : 1..MaxProposals, via : DOMAIN items, by : Engines] /\ payloads \subseteq DOMAIN items
CountsTyped == asked \in 0..MaxProposals /\ pauses \in 0..MaxPauses /\ performed \subseteq 1..asked

\* The ref and the starts: an engine that was made before a stop does not come
\* back into the ref, because only a start that still waits puts one there.
RefsTyped ==
  /\ begun \in 0..MaxStarts /\ engine \in 0..begun /\ startingRun \in 0..begun
  /\ checks \subseteq 1..begun /\ keys \subseteq 1..begun
  /\ silenced \subseteq (1..begun) \ checks /\ engine \notin silenced
  /\ mixed \subseteq Engines

LoopsOf(r) == r.capture + r.think
\* The engine awaits an approval, or will when it is resumed.
Waits(r) == r.status = "awaiting_approval" \/ (r.paused /\ r.before = "awaiting_approval")
Torn(r) == r.status = "awaiting_approval" /\ r.paused /\ r.before = "awaiting_approval"
Odd(r) == r.status = "paused" /\ ~r.paused

\* An engine that was never mixed: what is pending is what it proposed, and it
\* awaits an approval only without a loop and for something not executed yet.
Alone(k) ==
  /\ \A i \in Pending : items[i].by = k /\ Doable(eng[k].cur.kind) => items[i].p = eng[k].cur.p
  /\ Waits(eng[k]) => LoopsOf(eng[k]) = 0 /\ (Doable(eng[k].cur.kind) => eng[k].cur.p \notin performed)
  /\ ~Torn(eng[k])

EnginesOK ==
  /\ eng \in [Engines -> EngineType]
  /\ \A k \in Engines : eng[k].cur.p <= asked /\ (Doable(eng[k].cur.kind) => eng[k].cur.p > 0) /\ ~Odd(eng[k])
  /\ \A j, k \in Engines : Doable(eng[j].cur.kind) /\ Doable(eng[k].cur.kind) /\ eng[j].cur.p = eng[k].cur.p => j = k
  /\ \A k \in Engines : Mixed(k) => k \in mixed
  /\ \A k \in Engines : k \notin mixed => Alone(k)

AssistantInv == EnginesOK /\ ItemsTyped /\ HoldsTyped /\ CountsTyped /\ RefsTyped

\* What every step but a proposal does to an engine: it proposes nothing, and
\* awaits an approval only if it did before.
Quieter(r, s) ==
  /\ s \in EngineType
  /\ s.cur.p <= r.cur.p /\ (Doable(s.cur.kind) => s.cur = r.cur)
  /\ Waits(s) => Waits(r) /\ LoopsOf(s) <= LoopsOf(r)
  /\ Torn(s) => Torn(r)
  /\ Odd(s) => Odd(r)

CurType == [p : 0..MaxProposals, kind : {"none", "action", "tool", "ask", "done"}]
Engine(ru, st, pa, be, cu, ca, th, co, sp) ==
  [running |-> ru, status |-> st, paused |-> pa, before |-> be, cur |-> cu,
   capture |-> ca, think |-> th, count |-> co, stopped |-> sp]

LEMMA EngineHas ==
  ASSUME NEW r \in EngineType
  PROVE  /\ r.running \in BOOLEAN /\ r.status \in Statuses /\ r.paused \in BOOLEAN
         /\ r.before \in Statuses \ {"paused"} /\ r.cur \in CurType
         /\ r.capture \in Nat /\ r.think \in Nat /\ r.count \in Nat /\ r.stopped \in BOOLEAN
         /\ r.cur.p \in Nat
BY AssistantBoundsAssumption DEF EngineType, CurType

LEMMA EngineBuilt ==
  ASSUME NEW ru \in BOOLEAN, NEW st \in Statuses, NEW pa \in BOOLEAN, NEW be \in Statuses \ {"paused"},
         NEW cu \in CurType, NEW ca \in Nat, NEW th \in Nat, NEW co \in Nat, NEW sp \in BOOLEAN
  PROVE  Engine(ru, st, pa, be, cu, ca, th, co, sp) \in EngineType
BY DEF EngineType, Engine, CurType

LEMMA NoProposalTyped == NoProposal \in CurType /\ Ask \in CurType /\ ~Doable("none") /\ ~Doable("ask")
BY AssistantBoundsAssumption DEF NoProposal, Ask, CurType, Doable

LEMMA StatusNames ==
  /\ "idle" \in Statuses /\ "capturing" \in Statuses /\ "thinking" \in Statuses
  /\ "awaiting_approval" \in Statuses /\ "executing" \in Statuses /\ "asking_user" \in Statuses
  /\ "paused" \in Statuses /\ "done" \in Statuses
  /\ FALSE \in BOOLEAN /\ TRUE \in BOOLEAN
BY DEF Statuses

LEMMA QuieterSame ==
  ASSUME NEW r \in EngineType
  PROVE  Quieter(r, r)
BY EngineHas DEF Quieter, LoopsOf

LEMMA QuieterTwice ==
  ASSUME NEW r \in EngineType, NEW s, NEW t, Quieter(r, s), Quieter(s, t)
  PROVE  Quieter(r, t)
<1>1. s \in EngineType /\ t \in EngineType
  BY DEF Quieter
<1>2. /\ LoopsOf(r) \in Nat /\ LoopsOf(s) \in Nat /\ LoopsOf(t) \in Nat
      /\ r.cur.p \in Nat /\ s.cur.p \in Nat /\ t.cur.p \in Nat
  BY <1>1, EngineHas DEF LoopsOf
<1> QED BY <1>1, <1>2 DEF Quieter

LEMMA BuiltQuiet ==
  ASSUME NEW r \in EngineType,
         NEW ru \in BOOLEAN, NEW st \in Statuses, NEW pa \in BOOLEAN, NEW be \in Statuses \ {"paused"},
         NEW cu \in CurType, NEW ca \in Nat, NEW th \in Nat, NEW co \in Nat, NEW sp \in BOOLEAN,
         cu = r.cur \/ (cu.p <= r.cur.p /\ ~Doable(cu.kind)),
         st = "awaiting_approval" \/ (pa /\ be = "awaiting_approval") => Waits(r) /\ ca + th <= r.capture + r.think,
         st = "awaiting_approval" /\ pa /\ be = "awaiting_approval" => Torn(r),
         st = "paused" /\ ~pa => Odd(r)
  PROVE  Quieter(r, Engine(ru, st, pa, be, cu, ca, th, co, sp))
<1> DEFINE s == Engine(ru, st, pa, be, cu, ca, th, co, sp)
<1>1. s \in EngineType
  BY EngineBuilt
<1>2. /\ s.status = st /\ s.paused = pa /\ s.before = be /\ s.cur = cu /\ s.capture = ca /\ s.think = th
  BY DEF Engine
<1>3. r.cur.p \in Nat
  BY EngineHas
<1> HIDE DEF s
<1>4. Quieter(r, s)
  BY <1>1, <1>2, <1>3 DEF Quieter, Waits, Torn, Odd, LoopsOf
<1> QED BY <1>4 DEF s

\* The steps of one engine.
LEMMA ResumedQuiet ==
  ASSUME NEW r \in EngineType
  PROVE  Quieter(r, Resumed(r))
<1>1. CASE r.running /\ ~r.paused /\ ~r.stopped
  <2>1. Resumed(r) = Engine(r.running, "capturing", r.paused, r.before, r.cur, r.capture + 1, r.think, r.count, r.stopped)
    BY <1>1 DEF Resumed, Engine, EngineType
  <2>2. r.capture + 1 \in Nat /\ "capturing" \in Statuses
    BY EngineHas, StatusNames
  <2>3. Resumed(r) \in EngineType
    BY <2>1, <2>2, EngineHas, EngineBuilt
  <2>4. Resumed(r).status = "capturing" /\ Resumed(r).paused = r.paused /\ Resumed(r).cur = r.cur
    BY <2>1 DEF Engine
  <2> QED BY <1>1, <2>3, <2>4, EngineHas DEF Quieter, Waits, Torn, Odd
<1>2. CASE ~(r.running /\ ~r.paused /\ ~r.stopped)
  BY <1>2, QuieterSame DEF Resumed
<1> QED BY <1>1, <1>2

LEMMA StoppedQuiet ==
  ASSUME NEW r \in EngineType
  PROVE  Quieter(r, Stopped(r))
<1>1. CASE r.running
  <2>1. Stopped(r) = Engine(FALSE, "idle", FALSE, r.before, NoProposal, r.capture, r.think, r.count, TRUE)
    BY <1>1 DEF Stopped, Engine, EngineType
  <2>0. "idle" \in Statuses /\ NoProposal \in CurType /\ TRUE \in BOOLEAN /\ FALSE \in BOOLEAN
    BY StatusNames, NoProposalTyped
  <2>2. Engine(FALSE, "idle", FALSE, r.before, NoProposal, r.capture, r.think, r.count, TRUE) \in EngineType
    BY <2>0, EngineHas, EngineBuilt
  <2>4. Stopped(r) \in EngineType
    BY <2>1, <2>2
  <2>5. NoProposal.p <= r.cur.p /\ ~Doable(NoProposal.kind)
    BY EngineHas, NoProposalTyped DEF NoProposal
  <2>3. Stopped(r).status = "idle" /\ Stopped(r).paused = FALSE /\ Stopped(r).cur = NoProposal
    BY <2>1 DEF Engine
  <2> QED BY <2>4, <2>3, <2>5, EngineHas DEF Quieter, Waits, Torn, Odd
<1>2. CASE ~r.running
  BY <1>2, QuieterSame DEF Stopped
<1> QED BY <1>1, <1>2

LEMMA EngineChanged ==
  ASSUME NEW r \in EngineType, NEW cu, NEW st, NEW s, s = [r EXCEPT !.cur = cu, !.status = st]
  PROVE  s = Engine(r.running, st, r.paused, r.before, cu, r.capture, r.think, r.count, r.stopped)
BY DEF Engine, EngineType

LEMMA DismissedQuiet ==
  ASSUME NEW r \in EngineType, NEW goesOn \in BOOLEAN
  PROVE  Quieter(r, Dismissed(r, goesOn))
<1>0. NoProposal.p <= r.cur.p /\ ~Doable(NoProposal.kind) /\ r.capture + r.think <= LoopsOf(r)
  BY EngineHas, NoProposalTyped DEF NoProposal, LoopsOf
<1>1. CASE ~Doable(r.cur.kind)
  BY <1>1, QuieterSame DEF Dismissed
<1>2. CASE Doable(r.cur.kind) /\ goesOn
  <2> DEFINE s == [r EXCEPT !.cur = NoProposal, !.status = "capturing"]
  <2>1. Dismissed(r, goesOn) = Resumed(s)
    BY <1>2 DEF Dismissed
  <2>2. s = Engine(r.running, "capturing", r.paused, r.before, NoProposal, r.capture, r.think, r.count, r.stopped)
    BY EngineChanged
  <2> HIDE DEF s
  <2>0. "capturing" \in Statuses /\ NoProposal \in CurType
    BY StatusNames, NoProposalTyped
  <2>3. s \in EngineType
    <3>1. /\ r.running \in BOOLEAN /\ r.paused \in BOOLEAN /\ r.before \in Statuses \ {"paused"}
          /\ r.capture \in Nat /\ r.think \in Nat /\ r.count \in Nat /\ r.stopped \in BOOLEAN
      BY EngineHas
    <3>2. Engine(r.running, "capturing", r.paused, r.before, NoProposal, r.capture, r.think, r.count, r.stopped) \in EngineType
      BY <2>0, <3>1, EngineBuilt
    <3> QED BY <2>2, <3>2
  <2>4. /\ s.status = "capturing" /\ s.paused = r.paused /\ s.before = r.before
        /\ s.cur = NoProposal /\ LoopsOf(s) = LoopsOf(r)
    BY <2>2 DEF Engine, LoopsOf
  <2>5. Quieter(r, s)
    BY <1>0, <2>3, <2>4, EngineHas DEF Quieter, Waits, Torn, Odd, LoopsOf
  <2> QED BY <2>1, <2>3, <2>5, ResumedQuiet, QuieterTwice
<1>3. CASE Doable(r.cur.kind) /\ ~goesOn
  <2> DEFINE st == IF r.paused THEN "paused" ELSE r.status
  <2>1. Dismissed(r, goesOn) = Engine(r.running, st, r.paused, r.before, NoProposal, r.capture, r.think, r.count, r.stopped)
    BY <1>3 DEF Dismissed, Engine, EngineType
  <2>2. st \in Statuses /\ st \in {"paused", r.status} /\ (st = "paused" /\ ~r.paused => r.status = "paused")
    BY EngineHas, StatusNames
  <2> HIDE DEF st
  <2> DEFINE s == Dismissed(r, goesOn)
  <2>0. NoProposal \in CurType
    BY NoProposalTyped
  <2>3. s \in EngineType
    <3>1. /\ r.running \in BOOLEAN /\ r.paused \in BOOLEAN /\ r.before \in Statuses \ {"paused"}
          /\ r.capture \in Nat /\ r.think \in Nat /\ r.count \in Nat /\ r.stopped \in BOOLEAN
      BY EngineHas
    <3>2. Engine(r.running, st, r.paused, r.before, NoProposal, r.capture, r.think, r.count, r.stopped) \in EngineType
      BY <2>0, <2>2, <3>1, EngineBuilt
    <3> QED BY <2>1, <3>2
  <2>4. /\ s.status = st /\ s.paused = r.paused /\ s.before = r.before
        /\ s.cur = NoProposal /\ LoopsOf(s) = LoopsOf(r)
    BY <2>1 DEF Engine, LoopsOf
  <2> HIDE DEF s
  <2>5. Quieter(r, s)
    BY <1>0, <2>2, <2>3, <2>4, EngineHas DEF Quieter, Waits, Torn, Odd, LoopsOf
  <2> QED BY <2>5 DEF s
<1> QED BY <1>1, <1>2, <1>3

LEMMA RunningQuiet ==
  ASSUME NEW r \in EngineType, NEW s, s = [r EXCEPT !.running = TRUE]
  PROVE  Quieter(r, s)
<1>1. s = Engine(TRUE, r.status, r.paused, r.before, r.cur, r.capture, r.think, r.count, r.stopped)
  BY DEF Engine, EngineType
<1>2. /\ r.status = "awaiting_approval" \/ (r.paused /\ r.before = "awaiting_approval")
           => Waits(r) /\ r.capture + r.think <= r.capture + r.think
      /\ r.status = "awaiting_approval" /\ r.paused /\ r.before = "awaiting_approval" => Torn(r)
      /\ r.status = "paused" /\ ~r.paused => Odd(r)
  BY EngineHas DEF Waits, Torn, Odd
<1>3. Quieter(r, Engine(TRUE, r.status, r.paused, r.before, r.cur, r.capture, r.think, r.count, r.stopped))
  BY <1>2, EngineHas, StatusNames, BuiltQuiet
<1> QED BY <1>1, <1>3

LEMMA CapturedQuiet ==
  ASSUME NEW r \in EngineType, r.capture > 0, NEW s,
         s = IF r.paused THEN [r EXCEPT !.capture = @ - 1]
             ELSE [r EXCEPT !.capture = @ - 1, !.think = @ + 1, !.status = "thinking"]
  PROVE  Quieter(r, s)
<1>0. r.capture - 1 \in Nat /\ r.think + 1 \in Nat
  BY EngineHas
<1>1. CASE r.paused
  <2>1. s = Engine(r.running, r.status, r.paused, r.before, r.cur, r.capture - 1, r.think, r.count, r.stopped)
    BY <1>1 DEF Engine, EngineType
  <2>2. /\ r.status = "awaiting_approval" \/ (r.paused /\ r.before = "awaiting_approval")
             => Waits(r) /\ (r.capture - 1) + r.think <= r.capture + r.think
        /\ r.status = "awaiting_approval" /\ r.paused /\ r.before = "awaiting_approval" => Torn(r)
        /\ r.status = "paused" /\ ~r.paused => Odd(r)
    BY EngineHas DEF Waits, Torn, Odd
  <2>3. Quieter(r, Engine(r.running, r.status, r.paused, r.before, r.cur, r.capture - 1, r.think, r.count, r.stopped))
    BY <1>0, <2>2, EngineHas, BuiltQuiet
  <2> QED BY <2>1, <2>3
<1>2. CASE ~r.paused
  <2>1. s = Engine(r.running, "thinking", r.paused, r.before, r.cur, r.capture - 1, r.think + 1, r.count, r.stopped)
    BY <1>2 DEF Engine, EngineType
  <2>2. /\ "thinking" # "awaiting_approval" /\ "thinking" # "paused" /\ r.cur = r.cur
        /\ ~(r.paused /\ r.before = "awaiting_approval")
    BY <1>2
  <2>3. Quieter(r, Engine(r.running, "thinking", r.paused, r.before, r.cur, r.capture - 1, r.think + 1, r.count, r.stopped))
    BY <1>0, <2>2, EngineHas, StatusNames, BuiltQuiet
  <2> QED BY <2>1, <2>3
<1> QED BY <1>1, <1>2

LEMMA FewerQuiet ==
  ASSUME NEW r \in EngineType, NEW ca \in Nat, NEW th \in Nat, ca + th <= r.capture + r.think
  PROVE  Quieter(r, Engine(r.running, r.status, r.paused, r.before, r.cur, ca, th, r.count, r.stopped))
<1>1. /\ r.status = "awaiting_approval" \/ (r.paused /\ r.before = "awaiting_approval")
           => Waits(r) /\ ca + th <= r.capture + r.think
      /\ r.status = "awaiting_approval" /\ r.paused /\ r.before = "awaiting_approval" => Torn(r)
      /\ r.status = "paused" /\ ~r.paused => Odd(r)
  BY DEF Waits, Torn, Odd
<1> QED BY <1>1, EngineHas, BuiltQuiet

LEMMA EndedQuiet ==
  ASSUME NEW r \in EngineType, NEW wait \in {"capture", "think"}, r[wait] > 0
  PROVE  Quieter(r, IF wait = "capture" THEN [r EXCEPT !.capture = @ - 1] ELSE [r EXCEPT !.think = @ - 1])
<1>1. r.capture \in Nat /\ r.think \in Nat
  BY EngineHas
<1>2. CASE wait = "capture"
  <2>1. r.capture - 1 \in Nat /\ (r.capture - 1) + r.think <= r.capture + r.think
    BY <1>1, <1>2
  <2>2. Quieter(r, Engine(r.running, r.status, r.paused, r.before, r.cur, r.capture - 1, r.think, r.count, r.stopped))
    BY <1>1, <2>1, FewerQuiet
  <2>3. [r EXCEPT !.capture = @ - 1]
          = Engine(r.running, r.status, r.paused, r.before, r.cur, r.capture - 1, r.think, r.count, r.stopped)
    BY DEF Engine, EngineType
  <2> QED BY <1>2, <2>2, <2>3, Zenon
<1>3. CASE wait = "think"
  <2>1. r.think - 1 \in Nat /\ r.capture + (r.think - 1) <= r.capture + r.think
    BY <1>1, <1>3
  <2>2. Quieter(r, Engine(r.running, r.status, r.paused, r.before, r.cur, r.capture, r.think - 1, r.count, r.stopped))
    BY <1>1, <2>1, FewerQuiet
  <2>3. [r EXCEPT !.think = @ - 1]
          = Engine(r.running, r.status, r.paused, r.before, r.cur, r.capture, r.think - 1, r.count, r.stopped)
    BY DEF Engine, EngineType
  <2>4. wait # "capture"
    BY <1>3
  <2> QED BY <2>2, <2>3, <2>4, Zenon
<1> QED BY <1>2, <1>3, Zenon

LEMMA FailedQuiet ==
  ASSUME NEW r \in EngineType, NEW s, s = [r EXCEPT !.status = "asking_user", !.paused = FALSE, !.cur = Ask]
  PROVE  Quieter(r, s)
<1>1. s = Engine(r.running, "asking_user", FALSE, r.before, Ask, r.capture, r.think, r.count, r.stopped)
  BY DEF Engine, EngineType
<1> DEFINE pa == FALSE
<1>3. Ask \in CurType /\ Ask.p <= r.cur.p /\ ~Doable(Ask.kind) /\ pa \in BOOLEAN /\ ~pa
  BY EngineHas, NoProposalTyped DEF Ask
<1>4. "asking_user" # "awaiting_approval" /\ "asking_user" # "paused"
  OBVIOUS
<1> HIDE DEF pa
<1>5. Quieter(r, Engine(r.running, "asking_user", pa, r.before, Ask, r.capture, r.think, r.count, r.stopped))
  BY <1>3, <1>4, EngineHas, StatusNames, BuiltQuiet
<1> QED BY <1>1, <1>5 DEF pa

\* Back to the loop without a proposal.
LEMMA ClearedQuiet ==
  ASSUME NEW r \in EngineType, NEW s, s = [r EXCEPT !.status = "capturing", !.cur = NoProposal]
  PROVE  Quieter(r, s)
<1>1. s = Engine(r.running, "capturing", r.paused, r.before, NoProposal, r.capture, r.think, r.count, r.stopped)
  BY DEF Engine, EngineType
<1>2. NoProposal \in CurType /\ NoProposal.p <= r.cur.p /\ ~Doable(NoProposal.kind)
  BY EngineHas, NoProposalTyped DEF NoProposal
<1>3. /\ r.paused /\ r.before = "awaiting_approval" => Waits(r) /\ r.capture + r.think <= r.capture + r.think
      /\ "capturing" # "awaiting_approval" /\ "capturing" # "paused"
  BY EngineHas DEF Waits
<1>4. Quieter(r, Engine(r.running, "capturing", r.paused, r.before, NoProposal, r.capture, r.think, r.count, r.stopped))
  BY <1>2, <1>3, EngineHas, StatusNames, BuiltQuiet
<1> QED BY <1>1, <1>4

LEMMA DoneQuiet ==
  ASSUME NEW r \in EngineType, NEW s, s = [r EXCEPT !.status = "done", !.running = FALSE]
  PROVE  Quieter(r, s)
<1>1. s = Engine(FALSE, "done", r.paused, r.before, r.cur, r.capture, r.think, r.count, r.stopped)
  BY DEF Engine, EngineType
<1>3. /\ r.paused /\ r.before = "awaiting_approval" => Waits(r) /\ r.capture + r.think <= r.capture + r.think
      /\ "done" # "awaiting_approval" /\ "done" # "paused"
  BY EngineHas DEF Waits
<1>4. Quieter(r, Engine(FALSE, "done", r.paused, r.before, r.cur, r.capture, r.think, r.count, r.stopped))
  BY <1>3, EngineHas, StatusNames, BuiltQuiet
<1> QED BY <1>1, <1>4

LEMMA CountedQuiet ==
  ASSUME NEW r \in EngineType, NEW ok \in BOOLEAN, NEW s, s = [r EXCEPT !.count = IF ok THEN @ + 1 ELSE @]
  PROVE  Quieter(r, s)
<1> DEFINE co == IF ok THEN r.count + 1 ELSE r.count
<1>1. s = Engine(r.running, r.status, r.paused, r.before, r.cur, r.capture, r.think, co, r.stopped)
  BY DEF Engine, EngineType
<1>2. co \in Nat
  BY EngineHas
<1> HIDE DEF co
<1>3. /\ r.status = "awaiting_approval" \/ (r.paused /\ r.before = "awaiting_approval")
           => Waits(r) /\ r.capture + r.think <= r.capture + r.think
      /\ r.status = "awaiting_approval" /\ r.paused /\ r.before = "awaiting_approval" => Torn(r)
      /\ r.status = "paused" /\ ~r.paused => Odd(r)
  BY EngineHas DEF Waits, Torn, Odd
<1>4. Quieter(r, Engine(r.running, r.status, r.paused, r.before, r.cur, r.capture, r.think, co, r.stopped))
  BY <1>2, <1>3, EngineHas, BuiltQuiet
<1> QED BY <1>1, <1>4

LEMMA AskedQuiet ==
  ASSUME NEW r \in EngineType, NEW s, s = [r EXCEPT !.status = "asking_user", !.cur.kind = "ask"]
  PROVE  Quieter(r, s)
<1> DEFINE cu == [r.cur EXCEPT !.kind = "ask"]
<1>1. s = Engine(r.running, "asking_user", r.paused, r.before, cu, r.capture, r.think, r.count, r.stopped)
  BY DEF Engine, EngineType
<1>2. cu \in CurType /\ cu.p <= r.cur.p /\ ~Doable(cu.kind)
  <2>1. r.cur \in CurType /\ r.cur.p \in Nat
    BY EngineHas
  <2>2. cu \in CurType /\ cu.p = r.cur.p /\ cu.kind = "ask"
    BY <2>1 DEF CurType
  <2> QED BY <2>1, <2>2, NoProposalTyped
<1> HIDE DEF cu
<1>3. /\ r.paused /\ r.before = "awaiting_approval" => Waits(r) /\ r.capture + r.think <= r.capture + r.think
      /\ "asking_user" # "awaiting_approval" /\ "asking_user" # "paused"
  BY EngineHas DEF Waits
<1>4. Quieter(r, Engine(r.running, "asking_user", r.paused, r.before, cu, r.capture, r.think, r.count, r.stopped))
  BY <1>2, <1>3, EngineHas, StatusNames, BuiltQuiet
<1> QED BY <1>1, <1>4

LEMMA ExecutingQuiet ==
  ASSUME NEW r \in EngineType, r.status = "awaiting_approval", NEW s, s = [r EXCEPT !.status = "executing"]
  PROVE  Quieter(r, s) /\ (~Torn(r) => ~Waits(s))
<1>1. s = Engine(r.running, "executing", r.paused, r.before, r.cur, r.capture, r.think, r.count, r.stopped)
  BY DEF Engine, EngineType
<1>3. /\ r.paused /\ r.before = "awaiting_approval" => Waits(r) /\ r.capture + r.think <= r.capture + r.think
      /\ "executing" # "awaiting_approval" /\ "executing" # "paused"
  BY EngineHas DEF Waits
<1>4. Quieter(r, Engine(r.running, "executing", r.paused, r.before, r.cur, r.capture, r.think, r.count, r.stopped))
  BY <1>3, EngineHas, StatusNames, BuiltQuiet
<1>5. s.status = "executing" /\ s.paused = r.paused /\ s.before = r.before
  BY <1>1 DEF Engine
<1> QED BY <1>1, <1>4, <1>5 DEF Waits, Torn

LEMMA PausedQuiet ==
  ASSUME NEW r \in EngineType, ~Odd(r), ~r.paused, NEW s,
         s = [r EXCEPT !.paused = TRUE, !.before = r.status, !.status = "paused"]
  PROVE  Quieter(r, s)
<1>1. s = Engine(r.running, "paused", TRUE, r.status, r.cur, r.capture, r.think, r.count, r.stopped)
  BY DEF Engine, EngineType
<1>2. r.status \in Statuses \ {"paused"}
  BY EngineHas DEF Odd
<1>3. /\ r.status = "awaiting_approval" => Waits(r) /\ r.capture + r.think <= r.capture + r.think
      /\ "paused" # "awaiting_approval"
  BY EngineHas DEF Waits
<1>4. Quieter(r, Engine(r.running, "paused", TRUE, r.status, r.cur, r.capture, r.think, r.count, r.stopped))
  BY <1>2, <1>3, EngineHas, StatusNames, BuiltQuiet
<1> QED BY <1>1, <1>4

LEMMA UnpausedQuiet ==
  ASSUME NEW r \in EngineType, r.paused, NEW s, s = [r EXCEPT !.paused = FALSE, !.status = r.before]
  PROVE  Quieter(r, s)
<1>1. s = Engine(r.running, r.before, FALSE, r.before, r.cur, r.capture, r.think, r.count, r.stopped)
  BY DEF Engine, EngineType
<1>2. r.before \in Statuses /\ r.before # "paused"
  BY EngineHas
<1>3. r.before = "awaiting_approval" => Waits(r) /\ r.capture + r.think <= r.capture + r.think
  BY EngineHas DEF Waits
<1>4. Quieter(r, Engine(r.running, r.before, FALSE, r.before, r.cur, r.capture, r.think, r.count, r.stopped))
  BY <1>2, <1>3, EngineHas, StatusNames, BuiltQuiet
<1> QED BY <1>1, <1>4

\* What the steps do to the approvals: none becomes pending or changes what it
\* is for, and none is made.
ItemsStay ==
  /\ ItemsTyped' /\ DOMAIN items' = DOMAIN items /\ Pending' \subseteq Pending
  /\ \A j \in DOMAIN items : items'[j].p = items[j].p /\ items'[j].by = items[j].by

\* transitionApprovalState, by the state it is called in.
LEMMA TransitionTyped ==
  /\ \A s, n \in ApprovalStates : Transition(s, n) \in ApprovalStates
  /\ \A s, n \in ApprovalStates : n # "pending" /\ s # "pending" => Transition(s, n) # "pending"
  /\ \A n \in {"approved", "denied", "expired", "canceled"} : Transition("pending", n) = n
  /\ ApproveAndExecute("pending") = "executing"
  /\ Transition("executing", "failed") = "failed"
BY DEF Transition, Allowed, ApprovalStates, ApproveAndExecute

LEMMA FunctionIsSeq ==
  ASSUME NEW S, NEW n \in Nat, NEW f \in [1..n -> S]
  PROVE  f \in Seq(S)
BY SeqDef

LEMMA OneMoves ==
  ASSUME ItemsTyped, NEW i \in DOMAIN items, NEW state \in ApprovalStates,
         items[i].state # "pending" => state # "pending", items' = [items EXCEPT ![i].state = state]
  PROVE  ItemsStay
<1>1. DOMAIN items = 1..Len(items) /\ DOMAIN items' = DOMAIN items
  BY DEF ItemsTyped
<1>2. Len(items') = Len(items)
  BY <1>1 DEF ItemsTyped
<1>3. ASSUME NEW j \in DOMAIN items
      PROVE  /\ items'[j] \in Item /\ items'[j].p = items[j].p /\ items'[j].by = items[j].by
             /\ items'[j].state = IF j = i THEN state ELSE items[j].state
  <2>1. items[j] \in Item
    BY <1>1, <1>3 DEF ItemsTyped
  <2> QED BY <2>1 DEF Item
<1>4. items' \in [1..Len(items') -> Item]
  BY <1>1, <1>2, <1>3 DEF ItemsTyped, Item
<1>5. Pending' \subseteq Pending
  BY <1>1, <1>3 DEF Pending
<1> QED BY <1>1, <1>2, <1>3, <1>4, <1>5 DEF ItemsStay, ItemsTyped

LEMMA SomeMove ==
  ASSUME ItemsTyped, NEW gone, Cancel(gone)
  PROVE  ItemsStay
<1>1. DOMAIN items = 1..Len(items) /\ DOMAIN items' = DOMAIN items
  BY DEF ItemsTyped, Cancel
<1>2. Len(items') = Len(items)
  BY <1>1 DEF ItemsTyped, Cancel
<1>3. ASSUME NEW j \in DOMAIN items
      PROVE  /\ items'[j] \in Item /\ items'[j].p = items[j].p /\ items'[j].by = items[j].by
             /\ items[j].state # "pending" => items'[j].state # "pending"
  <2> DEFINE state == IF j \in gone THEN Transition(items[j].state, "canceled") ELSE items[j].state
  <2>1. items[j] \in Item
    BY <1>1, <1>3 DEF ItemsTyped
  <2>2. items'[j] = [items[j] EXCEPT !.state = state]
    BY <1>3 DEF Cancel
  <2>3. state \in ApprovalStates /\ (items[j].state # "pending" => state # "pending")
    BY <2>1, TransitionTyped DEF Item, ApprovalStates
  <2> HIDE DEF state
  <2> QED BY <2>1, <2>2, <2>3 DEF Item
<1>4. items' \in [1..Len(items') -> Item]
  BY <1>1, <1>2, <1>3 DEF ItemsTyped, Item, Cancel
<1>5. Pending' \subseteq Pending
  BY <1>1, <1>3 DEF Pending
<1> QED BY <1>1, <1>2, <1>3, <1>4, <1>5 DEF ItemsStay, ItemsTyped

\* An approval is made, or none.
LEMMA AwaitKeeps ==
  ASSUME ItemsTyped, HoldsTyped, NEW k \in Engines, NEW r, r.cur.p \in 0..MaxProposals,
         Doable(r.cur.kind) => r.cur.p > 0, AwaitApproval(k, r), exec' = exec
  PROVE  /\ ItemsTyped' /\ HoldsTyped'
         /\ \A i \in Pending' : \/ i \in Pending /\ items'[i].p = items[i].p /\ items'[i].by = items[i].by
                                \/ items'[i].by = k /\ items'[i].p = r.cur.p
         /\ \A i \in DOMAIN items : i \in DOMAIN items' /\ items'[i] = items[i]
<1>1. CASE UNCHANGED <<items, payloads>>
  BY <1>1 DEF ItemsTyped, HoldsTyped, Pending
<1>2. CASE /\ Doable(r.cur.kind)
           /\ items' = Append(items, [state |-> "pending", p |-> r.cur.p, kind |-> r.cur.kind, by |-> k])
           /\ payloads' = payloads \cup {Len(items) + 1}
  <2> DEFINE n == Len(items)
             new == [state |-> "pending", p |-> r.cur.p, kind |-> r.cur.kind, by |-> k]
  <2>1. new \in Item
    BY <1>2, AssistantBoundsAssumption DEF Item, ApprovalStates, Doable
  <2>2. items \in Seq(Item) /\ DOMAIN items = 1..n /\ n \in Nat
    BY FunctionIsSeq DEF ItemsTyped
  <2>3. /\ items' \in Seq(Item) /\ Len(items') = n + 1
        /\ (\A j \in 1..n : items'[j] = items[j]) /\ items'[n + 1] = new
    BY <1>2, <2>1, <2>2, AppendProperties
  <2>4. items' \in [1..(n + 1) -> Item] /\ DOMAIN items' = 1..(n + 1)
    BY <2>3, LenProperties
  <2>5. 1..(n + 1) = 1..n \cup {n + 1}
    BY <2>2
  <2>6. ItemsTyped'
    BY <2>2, <2>3, <2>4 DEF ItemsTyped
  <2>7. HoldsTyped'
    BY <1>2, <2>2, <2>4, <2>5 DEF HoldsTyped
  <2>8. items'[n + 1].by = k /\ items'[n + 1].p = r.cur.p
    BY <2>3
  <2>9. Pending' \subseteq Pending \cup {n + 1}
    BY <2>2, <2>3, <2>4, <2>5 DEF Pending
  <2> HIDE DEF new, n
  <2>10. \A i \in DOMAIN items : i \in DOMAIN items' /\ items'[i] = items[i]
    BY <2>2, <2>3, <2>4, <2>5
  <2>11. \A i \in Pending : items'[i] = items[i]
    BY <2>10 DEF Pending
  <2> QED BY <2>6, <2>7, <2>8, <2>9, <2>10, <2>11
<1> QED BY <1>1, <1>2 DEF AwaitApproval

\* The invariant about the engines after a step that proposes nothing: an
\* approval that is made is for what its engine has proposed, and an engine
\* that has begun to execute does not wait any more.
LEMMA QuietStep ==
  ASSUME AssistantInv, asked' = asked, NEW k, NEW s, Becomes(k, s), k \in Engines => Quieter(eng[k], s),
         mixed' = mixed \cup {j \in Engines : Mixed(j)'},
         \A i \in Pending' : \/ i \in Pending /\ items'[i].p = items[i].p /\ items'[i].by = items[i].by
                             \/ k \in Engines /\ items'[i].by = k /\ items'[i].p = s.cur.p,
         \/ performed' = performed
         \/ /\ k \in Engines /\ Doable(eng[k].cur.kind) /\ performed' = performed \cup {eng[k].cur.p}
            /\ k \notin mixed => ~Waits(s)
  PROVE  EnginesOK'
<1>1. /\ eng \in [Engines -> EngineType]
      /\ \A j \in Engines : eng[j].cur.p <= asked /\ (Doable(eng[j].cur.kind) => eng[j].cur.p > 0) /\ ~Odd(eng[j])
      /\ \A j, l \in Engines : Doable(eng[j].cur.kind) /\ Doable(eng[l].cur.kind) /\ eng[j].cur.p = eng[l].cur.p => j = l
      /\ \A j \in Engines : j \notin mixed => Alone(j)
      /\ asked \in Nat
  BY AssistantBoundsAssumption DEF AssistantInv, EnginesOK, CountsTyped
<1>2. ASSUME NEW j \in Engines
      PROVE  Quieter(eng[j], eng'[j]) /\ eng'[j] \in EngineType /\ eng'[j] = IF j = k THEN s ELSE eng[j]
  <2>1. eng'[j] = IF j = k THEN s ELSE eng[j]
    BY DEF Becomes
  <2>2. eng[j] \in EngineType
    BY <1>1
  <2>3. Quieter(eng[j], eng'[j])
    BY <2>1, <2>2, QuieterSame
  <2> QED BY <2>1, <2>3 DEF Quieter
<1>3. eng' \in [Engines -> EngineType]
  BY <1>2 DEF Becomes
<1>4. ASSUME NEW j \in Engines
      PROVE  /\ Doable(eng'[j].cur.kind) => eng'[j].cur = eng[j].cur
             /\ eng'[j].cur.p <= asked /\ ~Odd(eng'[j])
  <2>1. Quieter(eng[j], eng'[j]) /\ eng[j].cur.p \in Nat /\ eng'[j].cur.p \in Nat
    BY <1>1, <1>2, EngineHas
  <2> QED BY <1>1, <2>1 DEF Quieter
<1>5. \A j \in Engines : eng'[j].cur.p <= asked' /\ (Doable(eng'[j].cur.kind) => eng'[j].cur.p > 0) /\ ~Odd(eng'[j])
  BY <1>1, <1>4
<1>6. \A j, l \in Engines : Doable(eng'[j].cur.kind) /\ Doable(eng'[l].cur.kind) /\ eng'[j].cur.p = eng'[l].cur.p => j = l
  BY <1>1, <1>4
<1>7. \A j \in Engines : Mixed(j)' => j \in mixed'
  OBVIOUS
<1>8. ASSUME NEW j \in Engines, j \notin mixed' PROVE Alone(j)'
  <2>0. j \notin mixed /\ Alone(j)
    BY <1>1, <1>8
  <2>1. /\ eng[j] \in EngineType /\ eng'[j] \in EngineType /\ Quieter(eng[j], eng'[j])
        /\ Doable(eng'[j].cur.kind) => eng'[j].cur = eng[j].cur
        /\ LoopsOf(eng[j]) \in Nat /\ LoopsOf(eng'[j]) \in Nat
    BY <1>1, <1>2, <1>4, EngineHas DEF LoopsOf
  <2>2. ASSUME NEW i \in Pending', items'[i].by = j, Doable(eng'[j].cur.kind)
        PROVE  items'[i].p = eng'[j].cur.p
    <3>1. CASE i \in Pending /\ items'[i].p = items[i].p /\ items'[i].by = items[i].by
      BY <2>0, <2>1, <2>2, <3>1 DEF Alone
    <3>2. CASE k \in Engines /\ items'[i].by = k /\ items'[i].p = s.cur.p
      BY <1>2, <2>2, <3>2
    <3> QED BY <3>1, <3>2
  <2>3. Waits(eng'[j]) => Waits(eng[j]) /\ LoopsOf(eng'[j]) = 0
    BY <2>0, <2>1 DEF Quieter, Alone
  <2>4. ~Torn(eng'[j])
    BY <2>0, <2>1 DEF Quieter, Alone
  <2>5. ASSUME Waits(eng'[j]), Doable(eng'[j].cur.kind) PROVE eng'[j].cur.p \notin performed'
    <3>1. eng'[j].cur = eng[j].cur /\ eng[j].cur.p \notin performed /\ Doable(eng[j].cur.kind)
      BY <2>0, <2>1, <2>3, <2>5 DEF Alone
    <3>2. CASE performed' = performed
      BY <3>1, <3>2
    <3>3. CASE /\ k \in Engines /\ Doable(eng[k].cur.kind) /\ performed' = performed \cup {eng[k].cur.p}
               /\ k \notin mixed => ~Waits(s)
      <4>1. j # k
        BY <1>2, <2>0, <2>5, <3>3
      <4>2. eng[j].cur.p # eng[k].cur.p
        BY <1>1, <3>1, <3>3, <4>1
      <4> QED BY <3>1, <3>3, <4>2
    <3> QED BY <3>2, <3>3
  <2> QED BY <2>2, <2>3, <2>4, <2>5 DEF Alone
<1> QED BY <1>3, <1>5, <1>6, <1>7, <1>8 DEF EnginesOK

Noted == mixed' = mixed \cup {j \in Engines : Mixed(j)'}

LEMMA Refs ==
  ASSUME AssistantInv
  PROVE  /\ begun \in Nat /\ MaxStarts \in Nat /\ begun <= MaxStarts
         /\ engine # 0 => engine \in Engines
         /\ \A k \in checks \cup keys : k \in Engines
         /\ \A k \in Engines : eng[k] \in EngineType
<1>1. \A k \in Engines : eng[k] \in EngineType
  BY DEF AssistantInv, EnginesOK
<1>2. RefsTyped
  BY DEF AssistantInv
<1> QED BY <1>1, <1>2, AssistantBoundsAssumption DEF RefsTyped, Engines

\* A step of one engine that executes nothing and makes no approval.
LEMMA EngineMoves ==
  ASSUME AssistantInv, Noted, asked' = asked, performed' = performed, pauses' \in 0..MaxPauses, RefsTyped',
         ItemsStay, exec' \subseteq exec, payloads' \subseteq payloads,
         NEW k, NEW s, Becomes(k, s), k \in Engines => Quieter(eng[k], s)
  PROVE  AssistantInv'
<1>1. ItemsTyped' /\ HoldsTyped' /\ CountsTyped'
  BY DEF AssistantInv, ItemsStay, HoldsTyped, CountsTyped
<1>2. \A i \in Pending' : i \in Pending /\ items'[i].p = items[i].p /\ items'[i].by = items[i].by
  BY DEF ItemsStay, Pending
<1>3. EnginesOK'
  BY <1>2, QuietStep DEF Noted
<1> QED BY <1>1, <1>3 DEF AssistantInv

LEMMA EngineOnly ==
  ASSUME AssistantInv, Noted, UNCHANGED <<asked, exec, items, payloads, pauses, performed>>, RefsTyped',
         NEW k, NEW s, Becomes(k, s), k \in Engines => Quieter(eng[k], s)
  PROVE  AssistantInv'
<1>1. ItemsStay /\ pauses' \in 0..MaxPauses
  BY DEF ItemsStay, AssistantInv, CountsTyped, ItemsTyped, Pending
<1> QED BY <1>1, EngineMoves

LEMMA RefsStay ==
  ASSUME AssistantInv, Noted, UNCHANGED <<engine, startVars, silenced>>
  PROVE  RefsTyped'
BY DEF AssistantInv, RefsTyped, Noted, startVars

\* The engines stay as they are.
LEMMA NoneMoves ==
  ASSUME AssistantInv, UNCHANGED eng
  PROVE  Becomes(0, NewEngine) /\ 0 \notin Engines
BY AssistantBoundsAssumption DEF AssistantInv, EnginesOK, Becomes, Engines

LEMMA StartsKeep ==
  ASSUME AssistantInv, Noted,
         Start \/ \E k \in Engines, ok \in BOOLEAN : ProviderChecked(k, ok) \/ KeyChecked(k, ok)
  PROVE  AssistantInv'
<1>0. mixed' \subseteq Engines
  BY DEF AssistantInv, RefsTyped, Noted
<1>1. CASE Start
  <2>1. UNCHANGED <<asked, exec, items, payloads, pauses, performed>>
    BY <1>1 DEF Start
  <2>2. RefsTyped'
    BY <1>0, <1>1, Refs DEF Start, AssistantInv, RefsTyped
  <2>3. CASE startingRun # 0 /\ engine # 0
    <3>1. Becomes(engine, Stopped(eng[engine])) /\ Quieter(eng[engine], Stopped(eng[engine]))
      BY <1>1, <2>3, Refs, StoppedQuiet DEF Start
    <3> QED BY <2>1, <2>2, <3>1, EngineOnly
  <2>4. CASE ~(startingRun # 0 /\ engine # 0)
    <3>1. UNCHANGED eng
      BY <1>1, <2>4 DEF Start
    <3> QED BY <2>1, <2>2, <3>1, NoneMoves, EngineOnly
  <2> QED BY <2>3, <2>4
<1>2. ASSUME NEW k \in Engines, NEW ok \in BOOLEAN, ProviderChecked(k, ok) PROVE AssistantInv'
  <2>1. UNCHANGED <<asked, exec, items, payloads, pauses, performed>> /\ UNCHANGED eng
    BY <1>2 DEF ProviderChecked
  <2>2. RefsTyped'
    <3>1. /\ begun' = begun /\ checks' = checks \ {k} /\ silenced' = silenced
          /\ keys' \subseteq keys \cup {k} /\ engine' \in {k, engine} /\ startingRun' = startingRun
      BY <1>2 DEF ProviderChecked
    <3>2. k \in 1..begun /\ k \notin silenced /\ k \in 0..begun /\ k \notin checks'
      BY <1>2, <3>1, Refs DEF AssistantInv, RefsTyped, ProviderChecked
    <3>3. engine' \in 0..begun' /\ engine' \notin silenced'
      BY <3>1, <3>2 DEF AssistantInv, RefsTyped
    <3> HIDE <1>2
    <3>4. checks' \subseteq 1..begun' /\ keys' \subseteq 1..begun'
      BY <3>1, <3>2 DEF AssistantInv, RefsTyped
    <3>5. silenced' \subseteq (1..begun') \ checks'
      BY <3>1 DEF AssistantInv, RefsTyped
    <3> QED BY <1>0, <3>1, <3>3, <3>4, <3>5 DEF AssistantInv, RefsTyped
  <2> QED BY <2>1, <2>2, NoneMoves, EngineOnly
<1>3. ASSUME NEW k \in Engines, NEW ok \in BOOLEAN, KeyChecked(k, ok) PROVE AssistantInv'
  <2>1. UNCHANGED <<asked, exec, items, payloads, pauses, performed>>
    BY <1>3 DEF KeyChecked
  <2>2. RefsTyped'
    <3>1. /\ begun' = begun /\ checks' = checks /\ silenced' = silenced /\ keys' \subseteq keys
          /\ engine' \in {0, engine} /\ startingRun' \in {0, startingRun}
      BY <1>3 DEF KeyChecked
    <3>2. 0 \in 0..begun /\ 0 \notin silenced
      BY Refs DEF AssistantInv, RefsTyped
    <3> QED BY <1>0, <3>1, <3>2 DEF AssistantInv, RefsTyped
  <2>3. CASE ok
    <3> DEFINE r == eng[k]
               s == [eng[k] EXCEPT !.running = TRUE]
    <3>1. Becomes(k, Resumed(s)) /\ r \in EngineType
      BY <1>3, <2>3, Refs DEF KeyChecked
    <3>2. s = [r EXCEPT !.running = TRUE]
      OBVIOUS
    <3> HIDE DEF r, s
    <3>3. Quieter(r, s)
      BY <3>1, <3>2, RunningQuiet
    <3>5. Quieter(r, Resumed(s))
      BY <3>1, <3>3, ResumedQuiet, QuieterTwice DEF Quieter
    <3>6. r = eng[k]
      BY DEF r
    <3> QED BY <2>1, <2>2, <3>1, <3>5, <3>6, EngineOnly
  <2>4. CASE ~ok
    <3>1. UNCHANGED eng
      BY <1>3, <2>4 DEF KeyChecked
    <3> QED BY <2>1, <2>2, <3>1, NoneMoves, EngineOnly
  <2> QED BY <2>3, <2>4
<1> QED BY <1>1, <1>2, <1>3

\* The loops that end or go on, the user's answers, and a run that is canceled.
LEMMA LoopsKeep ==
  ASSUME AssistantInv, Noted,
         \/ RunCanceled \/ \E ends \in BOOLEAN : Respond(ends)
         \/ \E k \in Engines : Captured(k) \/ \E wait \in {"capture", "think"} : LoopFails(k, wait)
  PROVE  AssistantInv'
<1>1. ASSUME NEW k \in Engines, Captured(k) PROVE AssistantInv'
  <2> DEFINE r == eng[k]
             s == IF r.paused THEN [r EXCEPT !.capture = @ - 1]
                  ELSE [r EXCEPT !.capture = @ - 1, !.think = @ + 1, !.status = "thinking"]
  <2>1. Becomes(k, s) /\ r \in EngineType /\ r.capture > 0
    BY <1>1, Refs DEF Captured
  <2>2. Quieter(r, s)
    BY <2>1, CapturedQuiet
  <2>3. RefsTyped' /\ UNCHANGED <<asked, exec, items, payloads, pauses, performed>>
    BY <1>1, RefsStay DEF Captured
  <2> HIDE DEF s
  <2> QED BY <2>1, <2>2, <2>3, EngineOnly
<1>2. ASSUME NEW k \in Engines, NEW wait \in {"capture", "think"}, LoopFails(k, wait) PROVE AssistantInv'
  <2> DEFINE r == IF wait = "capture" THEN [eng[k] EXCEPT !.capture = @ - 1] ELSE [eng[k] EXCEPT !.think = @ - 1]
             t == [r EXCEPT !.status = "asking_user", !.paused = FALSE, !.cur = Ask]
             s == IF r.stopped THEN r ELSE t
  <2>1. Becomes(k, s) /\ eng[k] \in EngineType
    BY <1>2, Refs DEF LoopFails
  <2>2. Quieter(eng[k], r)
    BY <1>2, <2>1, EndedQuiet DEF LoopFails
  <2>3. t = [r EXCEPT !.status = "asking_user", !.paused = FALSE, !.cur = Ask]
    OBVIOUS
  <2>4. s \in {r, t}
    OBVIOUS
  <2>5. RefsTyped' /\ UNCHANGED <<asked, exec, items, payloads, pauses, performed>>
    BY <1>2, RefsStay DEF LoopFails
  <2> HIDE DEF r, t, s
  <2>6. r \in EngineType
    BY <2>2 DEF Quieter
  <2>7. Quieter(r, t)
    BY <2>3, <2>6, FailedQuiet
  <2>8. Quieter(eng[k], s)
    BY <2>1, <2>2, <2>4, <2>7, QuieterTwice
  <2> QED BY <2>1, <2>5, <2>8, EngineOnly
<1>3. ASSUME NEW ends \in BOOLEAN, Respond(ends) PROVE AssistantInv'
  <2> DEFINE r == eng[engine]
             d == [r EXCEPT !.status = "done", !.running = FALSE]
             c == [r EXCEPT !.status = "capturing", !.cur = NoProposal]
  <2>1. r \in EngineType /\ engine \in Engines
    BY <1>3, Refs DEF Respond
  <2>2. RefsTyped' /\ UNCHANGED <<asked, exec, items, payloads, pauses, performed>>
    BY <1>3, RefsStay DEF Respond
  <2>3. Becomes(engine, IF ends THEN d ELSE Resumed(c))
    BY <1>3 DEF Respond
  <2>4. d = [r EXCEPT !.status = "done", !.running = FALSE] /\ c = [r EXCEPT !.status = "capturing", !.cur = NoProposal]
    OBVIOUS
  <2>5. r = eng[engine]
    OBVIOUS
  <2> HIDE DEF r, d, c
  <2>6. Quieter(r, d)
    BY <2>1, <2>4, DoneQuiet
  <2>7. Quieter(r, c)
    BY <2>1, <2>4, ClearedQuiet
  <2>8. Quieter(r, Resumed(c))
    BY <2>1, <2>7, ResumedQuiet, QuieterTwice DEF Quieter
  <2>9. Quieter(r, IF ends THEN d ELSE Resumed(c))
    BY <2>6, <2>8
  <2> QED BY <2>2, <2>3, <2>5, <2>9, EngineOnly
<1>4. CASE RunCanceled
  <2>1. Becomes(engine, Stopped(eng[engine])) /\ (engine \in Engines => Quieter(eng[engine], Stopped(eng[engine])))
    BY <1>4, Refs, StoppedQuiet DEF RunCanceled
  <2>2. UNCHANGED <<asked, exec, items, payloads, pauses, performed>>
    BY <1>4 DEF RunCanceled
  <2>3. RefsTyped'
    BY <1>4, Refs DEF RunCanceled, AssistantInv, RefsTyped, Noted
  <2> QED BY <2>1, <2>2, <2>3, EngineOnly
<1> QED BY <1>1, <1>2, <1>3, <1>4

\* What happens to the engine of the ref when approvals end without being executed.
LEMMA DismissQuiet ==
  ASSUME AssistantInv, engine \in Engines, NEW gone, NEW goesOn \in BOOLEAN,
         NEW s, s = IF gone \cap payloads # {} THEN Dismissed(eng[engine], goesOn) ELSE eng[engine]
  PROVE  Quieter(eng[engine], s) /\ Quieter(eng[engine], Stopped(s))
<1>1. eng[engine] \in EngineType
  BY Refs
<1>2. Quieter(eng[engine], s)
  BY <1>1, DismissedQuiet, QuieterSame
<1>3. Quieter(s, Stopped(s))
  BY <1>2, StoppedQuiet DEF Quieter
<1> QED BY <1>1, <1>2, <1>3, QuieterTwice

LEMMA StopRefs ==
  ASSUME AssistantInv, Noted, startingRun' = 0, engine' = 0, Silence, UNCHANGED <<begun, checks, keys>>
  PROVE  RefsTyped'
<1>1. begun \in Nat /\ 0 \notin 1..begun /\ 0 \in 0..begun
  BY Refs
<1>2. silenced' \subseteq (1..begun') \ checks'
  BY DEF AssistantInv, RefsTyped, Silence
<1>3. engine' \notin silenced'
  BY <1>1, <1>2
<1> QED BY <1>1, <1>2, <1>3 DEF AssistantInv, RefsTyped, Noted

LEMMA EndingsKeep ==
  ASSUME AssistantInv, Noted,
         \/ PreviewOff \/ Stop \/ SignOut
         \/ WorkspaceCleared(PendingTools) \/ WorkspaceCleared(NextTool)
         \/ \E i \in DOMAIN items : Refuse(i)
  PROVE  AssistantInv'
<1>0. ItemsTyped /\ pauses \in 0..MaxPauses
  BY DEF AssistantInv, CountsTyped
<1>1. ASSUME NEW gone, NEW goesOn \in BOOLEAN, ItemsStay, payloads' \subseteq payloads, DismissCurrent(gone, goesOn),
             UNCHANGED <<engine, startVars, asked, exec, pauses, performed, silenced>>
      PROVE  AssistantInv'
  <2> DEFINE s == IF gone \cap payloads # {} THEN Dismissed(eng[engine], goesOn) ELSE eng[engine]
  <2>1. Becomes(engine, s) /\ (engine \in Engines => Quieter(eng[engine], s))
    BY <1>1, DismissQuiet DEF DismissCurrent
  <2>2. RefsTyped'
    BY <1>1, RefsStay
  <2> HIDE DEF s
  <2> QED BY <1>0, <1>1, <2>1, <2>2, EngineMoves
<1>2. CASE PreviewOff
  BY <1>0, <1>1, <1>2, SomeMove DEF PreviewOff
<1>3. ASSUME NEW gone, WorkspaceCleared(gone) PROVE AssistantInv'
  BY <1>0, <1>1, <1>3, SomeMove DEF WorkspaceCleared
<1>4. ASSUME NEW i \in DOMAIN items, Refuse(i) PROVE AssistantInv'
  <2>1. /\ items[i].state = "pending" /\ "denied" \in ApprovalStates /\ "denied" # "pending"
        /\ Transition("pending", "denied") = "denied"
    BY <1>4, TransitionTyped DEF Refuse, ApprovalStates
  <2>2. items' = [items EXCEPT ![i].state = "denied"]
    <3>1. items' = [items EXCEPT ![i].state = Transition(items[i].state, "denied")]
      BY <1>4 DEF Refuse
    <3> QED BY <2>1, <3>1
  <2>3. ItemsStay
    BY <1>0, <2>1, <2>2, OneMoves
  <2> QED BY <1>1, <1>4, <2>3 DEF Refuse
<1>5. ASSUME NEW goesOn \in BOOLEAN, startingRun' = 0, engine' = 0, Silence, Cancel(Pending), payloads' \subseteq payloads,
             Becomes(engine, Stopped(IF Pending \cap payloads # {} THEN Dismissed(eng[engine], goesOn) ELSE eng[engine])),
             UNCHANGED <<begun, checks, keys, asked, exec, pauses, performed>>
      PROVE  AssistantInv'
  <2> DEFINE s == IF Pending \cap payloads # {} THEN Dismissed(eng[engine], goesOn) ELSE eng[engine]
  <2>1. Becomes(engine, Stopped(s)) /\ (engine \in Engines => Quieter(eng[engine], Stopped(s)))
    BY <1>5, DismissQuiet
  <2>2. RefsTyped'
    BY <1>5, StopRefs
  <2>3. ItemsStay
    BY <1>0, <1>5, SomeMove
  <2> HIDE DEF s
  <2> QED BY <1>0, <1>5, <2>1, <2>2, <2>3, EngineMoves
<1>6. CASE Stop
  <2>1. FALSE \in BOOLEAN /\ payloads' \subseteq payloads
    BY <1>6 DEF Stop
  <2> QED BY <1>5, <1>6, <2>1 DEF Stop
<1>7. CASE SignOut
  <2>1. TRUE \in BOOLEAN /\ payloads' \subseteq payloads
    BY <1>7 DEF SignOut
  <2> QED BY <1>5, <1>7, <2>1 DEF SignOut
<1> QED BY <1>2, <1>3, <1>4, <1>6, <1>7

LEMMA PauseKeeps ==
  ASSUME AssistantInv, Noted, Pause
  PROVE  AssistantInv'
<1> DEFINE r == eng[engine]
           p == [r EXCEPT !.paused = TRUE, !.before = r.status, !.status = "paused"]
           s == IF Pending \cap payloads # {} THEN Dismissed(p, FALSE) ELSE p
<1>0. ItemsTyped /\ pauses \in 0..MaxPauses /\ MaxPauses \in Nat
  BY AssistantBoundsAssumption DEF AssistantInv, CountsTyped
<1>1. engine \in Engines /\ r \in EngineType /\ ~r.paused /\ Becomes(engine, s)
  BY Refs DEF Pause
<1>2. ~Odd(r)
  BY <1>1 DEF AssistantInv, EnginesOK
<1>3. RefsTyped' /\ UNCHANGED <<asked, exec, performed>> /\ Cancel(Pending) /\ payloads' \subseteq payloads
  BY RefsStay DEF Pause
<1>4. pauses' \in 0..MaxPauses
  BY <1>0 DEF Pause
<1>5. ItemsStay
  BY <1>0, <1>3, SomeMove
<1>6. /\ p = [r EXCEPT !.paused = TRUE, !.before = r.status, !.status = "paused"]
      /\ s = (IF Pending \cap payloads # {} THEN Dismissed(p, FALSE) ELSE p) /\ r = eng[engine]
  OBVIOUS
<1> HIDE DEF r, p, s
<1>7. Quieter(r, p)
  BY <1>1, <1>2, <1>6, PausedQuiet
<1>8. p \in EngineType
  BY <1>7 DEF Quieter
<1>9. Quieter(p, s)
  <2>1. Quieter(p, p)
    BY <1>8, QuieterSame
  <2>2. Quieter(p, Dismissed(p, FALSE))
    <3>1. FALSE \in BOOLEAN
      OBVIOUS
    <3> QED BY <1>8, <3>1, DismissedQuiet
  <2> QED BY <1>6, <2>1, <2>2, Zenon
<1>10. Quieter(r, s)
  BY <1>1, <1>7, <1>9, QuieterTwice
<1> QED BY <1>1, <1>3, <1>4, <1>5, <1>6, <1>10, EngineMoves

LEMMA ResumeKeeps ==
  ASSUME AssistantInv, Noted, Resume
  PROVE  AssistantInv'
<1> DEFINE r == eng[engine]
           u == [r EXCEPT !.paused = FALSE, !.status = r.before]
           s == IF u.before \in {"capturing", "thinking"} THEN Resumed(u) ELSE u
<1>0. ItemsTyped /\ HoldsTyped
  BY DEF AssistantInv
<1>1. engine \in Engines /\ r \in EngineType /\ r.paused /\ Becomes(engine, s) /\ AwaitApproval(engine, s)
  BY Refs DEF Resume
<1>2. RefsTyped' /\ UNCHANGED <<asked, exec, pauses, performed>>
  BY RefsStay DEF Resume
<1>3. CountsTyped'
  BY <1>2 DEF AssistantInv, CountsTyped
<1>4. /\ u = [r EXCEPT !.paused = FALSE, !.status = r.before] /\ s \in {u, Resumed(u)} /\ r = eng[engine]
  OBVIOUS
<1>5. r.cur.p <= asked /\ (Doable(r.cur.kind) => r.cur.p > 0)
  BY <1>1 DEF AssistantInv, EnginesOK
<1> HIDE DEF r, u, s
<1>6. Quieter(r, u)
  BY <1>1, <1>4, UnpausedQuiet
<1>7. Quieter(r, s)
  <2>1. u \in EngineType
    BY <1>6 DEF Quieter
  <2>2. Quieter(u, Resumed(u))
    BY <2>1, ResumedQuiet
  <2>3. Quieter(r, Resumed(u))
    BY <1>1, <1>6, <2>2, QuieterTwice
  <2> QED BY <1>4, <1>6, <2>3, Zenon
<1>8. s.cur.p \in 0..MaxProposals /\ (Doable(s.cur.kind) => s.cur.p > 0)
  <2>1. s \in EngineType /\ (Doable(s.cur.kind) => s.cur = r.cur)
    BY <1>7 DEF Quieter
  <2>2. s.cur \in CurType
    BY <2>1, EngineHas
  <2> QED BY <1>5, <2>1, <2>2 DEF CurType
<1>9. /\ ItemsTyped' /\ HoldsTyped'
      /\ \A i \in Pending' : \/ i \in Pending /\ items'[i].p = items[i].p /\ items'[i].by = items[i].by
                             \/ items'[i].by = engine /\ items'[i].p = s.cur.p
  BY <1>0, <1>1, <1>2, <1>8, AwaitKeeps
<1>10. EnginesOK'
  BY <1>1, <1>2, <1>4, <1>7, <1>9, QuietStep DEF Noted
<1> QED BY <1>2, <1>3, <1>9, <1>10 DEF AssistantInv

LEMMA ItemHas ==
  ASSUME ItemsTyped, NEW i \in DOMAIN items
  PROVE  items[i].state \in ApprovalStates /\ items[i].kind \in {"action", "tool"} /\ items[i].by \in Engines
BY DEF ItemsTyped, Item

LEMMA ApproveKeeps ==
  ASSUME AssistantInv, Noted, NEW i \in DOMAIN items, Approve(i)
  PROVE  AssistantInv'
<1> DEFINE r == eng[engine]
           goes == r.status = "awaiting_approval" /\ r.cur.kind = items[i].kind
           s == [r EXCEPT !.status = "executing"]
<1>0. ItemsTyped /\ HoldsTyped /\ pauses \in 0..MaxPauses
  BY DEF AssistantInv, CountsTyped
<1>1. engine \in Engines /\ r \in EngineType /\ items[i].state = "pending" /\ Doable(items[i].kind)
  BY <1>0, Refs, ItemHas DEF Approve, IsNext, Doable
<1>2. RefsTyped' /\ UNCHANGED <<asked, pauses>>
  BY RefsStay DEF Approve
<1>3. CASE ~goes
  <2>1. UNCHANGED <<eng, exec, performed>> /\ payloads' \subseteq payloads
    BY <1>3 DEF Approve
  <2>2. items' = [items EXCEPT ![i].state = "failed"]
    <3>1. items' = [items EXCEPT ![i].state = Transition(ApproveAndExecute(items[i].state), "failed")]
      BY <1>3 DEF Approve
    <3> QED BY <1>1, <3>1, TransitionTyped
  <2>3. ItemsStay
    <3>1. "failed" \in ApprovalStates /\ "failed" # "pending"
      BY DEF ApprovalStates
    <3> QED BY <1>0, <2>2, <3>1, OneMoves
  <2> QED BY <1>0, <1>2, <2>1, <2>3, NoneMoves, EngineMoves
<1>4. CASE goes
  <2> DEFINE e == [p |-> r.cur.p, via |-> i, by |-> engine]
  <2>1. /\ Becomes(engine, s) /\ performed' = performed \cup {r.cur.p} /\ exec' = exec \cup {e}
        /\ payloads' = payloads
    BY <1>4 DEF Approve
  <2>2. items' = [items EXCEPT ![i].state = "executing"]
    <3>1. items' = [items EXCEPT ![i].state = ApproveAndExecute(items[i].state)]
      BY <1>4 DEF Approve
    <3> QED BY <1>1, <3>1, TransitionTyped
  <2>3. ItemsStay
    <3>1. "executing" \in ApprovalStates /\ "executing" # "pending"
      BY DEF ApprovalStates
    <3> QED BY <1>0, <2>2, <3>1, OneMoves
  <2>4. Doable(r.cur.kind) /\ r.cur.p \in 1..asked /\ r.cur.p \in 1..MaxProposals
    <3>1. r.cur.kind = items[i].kind /\ r.cur.p <= asked /\ (Doable(r.cur.kind) => r.cur.p > 0)
      BY <1>1, <1>4 DEF AssistantInv, EnginesOK
    <3>2. r.cur.p \in 0..MaxProposals /\ asked \in Nat /\ MaxProposals \in Nat
      BY <1>1, EngineHas, AssistantBoundsAssumption DEF CurType, AssistantInv, CountsTyped
    <3> QED BY <1>1, <3>1, <3>2
  <2>5. CountsTyped'
    BY <1>2, <2>1, <2>4 DEF AssistantInv, CountsTyped
  <2>6. HoldsTyped'
    <3>1. e \in [p : 1..MaxProposals, via : DOMAIN items, by : Engines]
      BY <1>1, <2>4
    <3> HIDE DEF e
    <3> QED BY <1>0, <2>1, <2>3, <3>1 DEF HoldsTyped, ItemsStay
  <2>7. s = [r EXCEPT !.status = "executing"] /\ r = eng[engine] /\ r.status = "awaiting_approval"
    BY <1>4
  <2>8. engine \notin mixed => ~Torn(r)
    BY <1>1 DEF AssistantInv, EnginesOK, Alone
  <2> HIDE DEF r, s, goes
  <2>9. Quieter(r, s) /\ (~Torn(r) => ~Waits(s))
    BY <1>1, <2>7, ExecutingQuiet
  <2>10. \A j \in Pending' : j \in Pending /\ items'[j].p = items[j].p /\ items'[j].by = items[j].by
    BY <2>3 DEF ItemsStay, Pending
  <2>11. EnginesOK'
    BY <1>1, <1>2, <2>1, <2>4, <2>7, <2>8, <2>9, <2>10, QuietStep DEF Noted
  <2> QED BY <1>2, <2>3, <2>5, <2>6, <2>11 DEF AssistantInv, ItemsStay
<1> QED BY <1>3, <1>4

LEMMA ExecutedKeeps ==
  ASSUME AssistantInv, Noted, NEW e \in exec, NEW ok \in BOOLEAN, Executed(e, ok)
  PROVE  AssistantInv'
<1> DEFINE o == eng[e.by]
           r == [o EXCEPT !.count = IF ok THEN @ + 1 ELSE @]
           c == [r EXCEPT !.status = "capturing", !.cur = NoProposal]
           a == [r EXCEPT !.status = "asking_user", !.cur.kind = "ask"]
           s == IF ok /\ r.count < MaxActions THEN Resumed(c) ELSE a
           n == IF ok THEN "executed" ELSE "failed"
<1>0. ItemsTyped /\ pauses \in 0..MaxPauses /\ e.via \in DOMAIN items /\ e.by \in Engines
  BY DEF AssistantInv, CountsTyped, HoldsTyped
<1>1. o \in EngineType /\ Becomes(e.by, s)
  BY <1>0, Refs DEF Executed
<1>2. RefsTyped' /\ UNCHANGED <<asked, pauses, performed>> /\ exec' \subseteq exec /\ payloads' \subseteq payloads
  BY RefsStay DEF Executed
<1>3. ItemsStay
  <2>1. items' = [items EXCEPT ![e.via].state = Transition(items[e.via].state, n)]
    BY DEF Executed
  <2>2. n \in ApprovalStates /\ n # "pending"
    BY DEF ApprovalStates
  <2> HIDE DEF n
  <2>3. /\ Transition(items[e.via].state, n) \in ApprovalStates
        /\ items[e.via].state # "pending" => Transition(items[e.via].state, n) # "pending"
    BY <1>0, <2>2, ItemHas, TransitionTyped
  <2> QED BY <1>0, <2>1, <2>3, OneMoves
<1>4. /\ o = eng[e.by] /\ r = [o EXCEPT !.count = IF ok THEN @ + 1 ELSE @]
      /\ c = [r EXCEPT !.status = "capturing", !.cur = NoProposal]
      /\ a = [r EXCEPT !.status = "asking_user", !.cur.kind = "ask"]
      /\ s \in {Resumed(c), a}
  BY Zenon
<1> HIDE DEF o, r, c, a, s
<1>5. Quieter(o, r)
  BY <1>1, <1>4, CountedQuiet
<1>6. r \in EngineType
  BY <1>5 DEF Quieter
<1>7. Quieter(r, c) /\ Quieter(r, a)
  BY <1>4, <1>6, ClearedQuiet, AskedQuiet
<1>8. Quieter(r, Resumed(c))
  BY <1>6, <1>7, ResumedQuiet, QuieterTwice DEF Quieter
<1>9. Quieter(o, s)
  BY <1>1, <1>4, <1>5, <1>7, <1>8, QuieterTwice
<1> QED BY <1>0, <1>1, <1>2, <1>3, <1>4, <1>9, EngineMoves

\* The only step that makes a proposal: an engine that is not mixed has one
\* loop, which ends in it, and nothing else that waits for the user.
ProposedBy(r, n, kind, m) ==
  [r EXCEPT !.think = @ - 1, !.capture = @ + m,
            !.cur = IF kind = "read" THEN NoProposal ELSE [p |-> n, kind |-> kind],
            !.status = StatusAfter(kind), !.running = @ /\ kind # "done"]

Proposes(r, s, n, kind, m) ==
  /\ s \in EngineType
  /\ s.paused = r.paused /\ s.before = r.before /\ s.status # "paused"
  /\ s.status = "awaiting_approval" => Doable(kind)
  /\ LoopsOf(s) = LoopsOf(r) - (1 - m)
  /\ Doable(s.cur.kind) => s.cur = [p |-> n, kind |-> kind]
  /\ s.cur.p \in {0, n}

LEMMA ProposedBuilt ==
  ASSUME NEW r \in EngineType, NEW n \in 1..MaxProposals, r.think > 0,
         NEW kind \in {"action", "tool", "ask", "read", "done"}, NEW m \in {0, 1},
         NEW s, s = ProposedBy(r, n, kind, m)
  PROVE  Proposes(r, s, n, kind, m)
<1> DEFINE ca == r.capture + m
           th == r.think - 1
           cu == IF kind = "read" THEN NoProposal ELSE [p |-> n, kind |-> kind]
           st == StatusAfter(kind)
           ru == r.running /\ kind # "done"
<1>2. ca \in Nat /\ th \in Nat /\ ca + th = LoopsOf(r) - (1 - m)
  BY EngineHas DEF LoopsOf
<1>3. cu \in CurType /\ cu.p \in {0, n} /\ (Doable(cu.kind) => cu = [p |-> n, kind |-> kind])
  <2>1. CASE kind = "read"
    BY <2>1, NoProposalTyped DEF NoProposal
  <2>2. CASE kind # "read"
    BY <2>2, AssistantBoundsAssumption DEF CurType
  <2> QED BY <2>1, <2>2
<1>4. st \in Statuses /\ st # "paused" /\ (st = "awaiting_approval" => Doable(kind))
  BY DEF StatusAfter, Statuses, Doable
<1>5. ru \in BOOLEAN
  BY Zenon
<1>6. s = [r EXCEPT !.think = th, !.capture = ca, !.cur = cu, !.status = st, !.running = ru]
  BY Zenon DEF ProposedBy
<1> HIDE DEF ca, th, cu, st, ru
<1>7. s = Engine(ru, st, r.paused, r.before, cu, ca, th, r.count, r.stopped)
  BY <1>6 DEF Engine, EngineType
<1>8. s \in EngineType
  <2>1. r.paused \in BOOLEAN /\ r.before \in Statuses \ {"paused"} /\ r.count \in Nat /\ r.stopped \in BOOLEAN
    BY EngineHas
  <2>2. Engine(ru, st, r.paused, r.before, cu, ca, th, r.count, r.stopped) \in EngineType
    BY <1>2, <1>3, <1>4, <1>5, <2>1, EngineBuilt
  <2> QED BY <1>7, <2>2
<1>9. /\ s.paused = r.paused /\ s.before = r.before /\ s.status = st /\ s.cur = cu
      /\ s.capture = ca /\ s.think = th
  BY <1>7 DEF Engine
<1> QED BY <1>2, <1>3, <1>4, <1>8, <1>9 DEF LoopsOf, Proposes

LEMMA ProposedKeeps ==
  ASSUME AssistantInv, Noted, NEW k \in Engines, NEW kind \in {"action", "tool", "ask", "read", "done"},
         Proposed(k, kind)
  PROVE  AssistantInv'
<1> DEFINE r == eng[k]
           m == IF kind = "read" /\ r.running /\ ~r.paused THEN 1 ELSE 0
           n == asked + 1
           s == [r EXCEPT !.think = @ - 1, !.capture = @ + m,
                          !.cur = IF kind = "read" THEN NoProposal ELSE [p |-> n, kind |-> kind],
                          !.status = StatusAfter(kind), !.running = @ /\ kind # "done"]
<1>0. /\ ItemsTyped /\ HoldsTyped /\ asked \in Nat /\ MaxProposals \in Nat
      /\ performed \subseteq 1..asked /\ pauses \in 0..MaxPauses
  BY AssistantBoundsAssumption DEF AssistantInv, CountsTyped
<1>1. r \in EngineType /\ r.think > 0 /\ n \in 1..MaxProposals /\ asked' = n
  BY <1>0, Refs DEF Proposed
<1>2. Becomes(k, s) /\ AwaitApproval(k, s)
  BY DEF Proposed
<1>3. UNCHANGED <<engine, startVars, exec, pauses, performed, silenced>>
  BY DEF Proposed
<1>4. RefsTyped' /\ CountsTyped'
  BY <1>0, <1>1, <1>3, RefsStay DEF CountsTyped
<1>5. m \in {0, 1} /\ (m = 1 => kind = "read") /\ r = eng[k] /\ n = asked + 1 /\ ~Doable("read")
  BY DEF Doable
<1>6. s = ProposedBy(r, n, kind, m)
  BY Zenon DEF ProposedBy
<1> HIDE DEF r, m, n, s
<1>7. /\ s \in EngineType
      /\ s.paused = r.paused /\ s.before = r.before /\ s.status # "paused"
      /\ s.status = "awaiting_approval" => Doable(kind)
      /\ LoopsOf(s) = LoopsOf(r) - (1 - m)
      /\ Doable(s.cur.kind) => s.cur = [p |-> n, kind |-> kind]
      /\ s.cur.p \in {0, n}
  <2>1. r \in EngineType /\ n \in 1..MaxProposals /\ r.think > 0 /\ m \in {0, 1}
    BY <1>1, <1>5
  <2>2. Proposes(r, s, n, kind, m)
    BY <1>6, <2>1, ProposedBuilt
  <2> QED BY <2>2 DEF Proposes
<1>8. s.cur.p \in 0..MaxProposals /\ (Doable(s.cur.kind) => s.cur.p = n /\ n > 0)
  BY <1>0, <1>1, <1>7
<1>9. /\ ItemsTyped' /\ HoldsTyped'
      /\ \A i \in Pending' : \/ i \in Pending /\ items'[i].p = items[i].p /\ items'[i].by = items[i].by
                             \/ items'[i].by = k /\ items'[i].p = s.cur.p
  <2>1. Doable(s.cur.kind) => s.cur.p > 0
    BY <1>8
  <2> QED BY <1>0, <1>2, <1>3, <1>8, <2>1, AwaitKeeps
<1>10. ASSUME NEW j \in Engines PROVE eng'[j] = IF j = k THEN s ELSE eng[j]
  BY <1>2 DEF Becomes
<1>11. eng' \in [Engines -> EngineType]
  <2>1. \A j \in Engines : eng'[j] \in EngineType
    BY <1>7, <1>10, Refs
  <2> QED BY <1>2, <2>1 DEF Becomes
<1>12. /\ \A j \in Engines : eng[j].cur.p <= asked /\ (Doable(eng[j].cur.kind) => eng[j].cur.p > 0) /\ ~Odd(eng[j])
       /\ \A j, l \in Engines : Doable(eng[j].cur.kind) /\ Doable(eng[l].cur.kind) /\ eng[j].cur.p = eng[l].cur.p => j = l
       /\ \A j \in Engines : Mixed(j) => j \in mixed
       /\ \A j \in Engines : j \notin mixed => Alone(j)
       /\ \A j \in Engines : eng[j].cur.p \in Nat
  BY Refs, EngineHas DEF AssistantInv, EnginesOK
<1>13. ASSUME NEW j \in Engines
       PROVE  eng'[j].cur.p <= asked' /\ (Doable(eng'[j].cur.kind) => eng'[j].cur.p > 0) /\ ~Odd(eng'[j])
  <2>1. CASE j = k
    BY <1>0, <1>1, <1>5, <1>7, <1>8, <1>10, <2>1 DEF Odd
  <2>2. CASE j # k
    BY <1>0, <1>1, <1>5, <1>10, <1>12, <2>2
  <2> QED BY <2>1, <2>2
<1>14. ASSUME NEW j \in Engines, NEW l \in Engines, Doable(eng'[j].cur.kind), Doable(eng'[l].cur.kind),
              eng'[j].cur.p = eng'[l].cur.p
       PROVE  j = l
  <2>1. \A o \in Engines \ {k} : eng'[o] = eng[o] /\ eng[o].cur.p # n
    BY <1>0, <1>5, <1>10, <1>12
  <2>2. Doable(eng'[k].cur.kind) => eng'[k].cur.p = n
    BY <1>8, <1>10
  <2> QED BY <1>12, <1>14, <2>1, <2>2
<1>15. \A j \in Engines : Mixed(j)' => j \in mixed'
  BY DEF Noted
<1>16. ASSUME NEW j \in Engines, j \notin mixed', j # k PROVE Alone(j)'
  <2>1. Alone(j) /\ eng'[j] = eng[j] /\ performed' = performed
    BY <1>3, <1>10, <1>12, <1>16 DEF Noted
  <2>2. \A i \in Pending' : items'[i].by = j => i \in Pending /\ items'[i].p = items[i].p /\ items'[i].by = items[i].by
    BY <1>9, <1>16
  <2> QED BY <2>1, <2>2 DEF Alone
<1>17. ASSUME k \notin mixed' PROVE Alone(k)'
  <2>1. k \notin mixed /\ Alone(k) /\ ~Mixed(k)
    BY <1>12, <1>17 DEF Noted
  <2>2. LoopsOf(r) = 1 /\ \A i \in Pending : items[i].by # k
    <3>1. r.capture \in Nat /\ r.think \in Nat
      BY <1>1, EngineHas
    <3>2. Waiting(k) = LoopsOf(r) /\ LoopsOf(r) >= 1 /\ LoopsOf(r) \in Nat
      BY <1>1, <1>5, <3>1 DEF Waiting, LoopsOf
    <3>3. ~(Waiting(k) > 1)
      BY <2>1 DEF Mixed
    <3>4. Waiting(k) = 1
      BY <3>2, <3>3
    <3> QED BY <2>1, <3>2, <3>4 DEF Mixed
  <2>3. ~Waits(r) /\ ~(r.paused /\ r.before = "awaiting_approval")
    BY <1>5, <2>1, <2>2 DEF Alone, Waits
  <2>4. eng'[k] = s
    BY <1>10
  <2>5. \A i \in Pending' : items'[i].by = k => items'[i].p = s.cur.p
    BY <1>9, <2>2
  <2>6. Waits(s) => LoopsOf(s) = 0
    BY <1>5, <1>7, <2>2, <2>3 DEF Waits
  <2>7. Doable(s.cur.kind) => s.cur.p \notin performed'
    BY <1>0, <1>3, <1>5, <1>8
  <2>8. ~Torn(s)
    BY <1>7, <2>3 DEF Torn
  <2> QED BY <2>4, <2>5, <2>6, <2>7, <2>8 DEF Alone
<1>18. EnginesOK'
  BY <1>11, <1>13, <1>14, <1>15, <1>16, <1>17 DEF EnginesOK
<1> QED BY <1>4, <1>9, <1>18 DEF AssistantInv

LEMMA InitAssistantInv == AssistantInit => AssistantInv
<1> SUFFICES ASSUME AssistantInit PROVE AssistantInv
  OBVIOUS
<1>1. /\ eng = [k \in Engines |-> NewEngine] /\ engine = 0 /\ startingRun = 0 /\ begun = 0 /\ checks = {} /\ keys = {}
      /\ asked = 0 /\ exec = {} /\ items = <<>> /\ payloads = {} /\ pauses = 0
      /\ performed = {} /\ silenced = {} /\ mixed = {}
  BY DEF AssistantInit
<1>2. NewEngine \in EngineType /\ ~Waits(NewEngine) /\ ~Torn(NewEngine) /\ ~Odd(NewEngine)
      /\ NewEngine.cur.p = 0 /\ ~Doable(NewEngine.cur.kind) /\ NewEngine.capture = 0 /\ NewEngine.think = 0
  BY AssistantBoundsAssumption DEF NewEngine, EngineType, Statuses, NoProposal, Waits, Torn, Odd, Doable
<1>3. Pending = {} /\ Len(items) = 0
  BY <1>1 DEF Pending
<1>4. \A k \in Engines : eng[k] = NewEngine
  BY <1>1
<1>5. ASSUME NEW k \in Engines PROVE ~Mixed(k) /\ Alone(k)
  BY <1>1, <1>2, <1>3, <1>4 DEF Mixed, Waiting, Alone
<1>6. EnginesOK
  BY <1>1, <1>2, <1>4, <1>5 DEF EnginesOK
<1>7. ItemsTyped /\ HoldsTyped
  BY <1>1, <1>3 DEF ItemsTyped, HoldsTyped
<1>8. CountsTyped /\ RefsTyped
  BY <1>1, AssistantBoundsAssumption DEF CountsTyped, RefsTyped
<1> QED BY <1>6, <1>7, <1>8 DEF AssistantInv

LEMMA NextAssistantInv ==
  ASSUME AssistantInv, [AssistantNext]_assistantVars
  PROVE  AssistantInv'
<1>1. CASE UNCHANGED assistantVars
  BY <1>1 DEF AssistantInv, assistantVars, EnginesOK, ItemsTyped, HoldsTyped, CountsTyped, RefsTyped,
              Mixed, Waiting, Alone, Pending
<1>2. CASE AssistantNext
  <2>1. Noted /\ AssistantStep
    BY <1>2 DEF AssistantNext, Noted
  <2>2. CASE Start \/ \E k \in Engines, ok \in BOOLEAN : ProviderChecked(k, ok) \/ KeyChecked(k, ok)
    BY <2>1, <2>2, StartsKeep
  <2>3. CASE \/ RunCanceled \/ \E ends \in BOOLEAN : Respond(ends)
             \/ \E k \in Engines : Captured(k) \/ \E wait \in {"capture", "think"} : LoopFails(k, wait)
    BY <2>1, <2>3, LoopsKeep
  <2>4. CASE \/ PreviewOff \/ Stop \/ SignOut
             \/ WorkspaceCleared(PendingTools) \/ WorkspaceCleared(NextTool)
             \/ \E i \in DOMAIN items : Refuse(i)
    BY <2>1, <2>4, EndingsKeep
  <2>5. CASE Pause
    BY <2>1, <2>5, PauseKeeps
  <2>6. CASE Resume
    BY <2>1, <2>6, ResumeKeeps
  <2>7. CASE \E i \in DOMAIN items : ApproveAction(i) \/ ApproveTool(i)
    BY <2>1, <2>7, ApproveKeeps DEF ApproveAction, ApproveTool
  <2>8. CASE \E e \in exec, ok \in BOOLEAN : Executed(e, ok)
    BY <2>1, <2>8, ExecutedKeeps
  <2>9. CASE \E k \in Engines, kind \in {"action", "tool", "ask", "read", "done"} : Proposed(k, kind)
    BY <2>1, <2>9, ProposedKeeps
  <2> QED BY <2>1, <2>2, <2>3, <2>4, <2>5, <2>6, <2>7, <2>8, <2>9 DEF AssistantStep
<1> QED BY <1>1, <1>2

\* Types, and for every engine that was never mixed: it awaits an approval only
\* without a loop, for the proposal its pending approvals were made for, which
\* was not executed before; an engine stopped by the user is not in the ref.
THEOREM AssistantInvariance == AssistantSpec => []AssistantInv
<1>1. AssistantInv /\ [AssistantNext]_assistantVars => AssistantInv'
  BY NextAssistantInv
<1> QED BY InitAssistantInv, <1>1, PTL DEF AssistantSpec

\* Only an approval adds to what is executed, and it does so for the engine in
\* the ref.
LEMMA OnlyApproved ==
  ASSUME AssistantInv, AssistantNext, NEW e \in exec' \ exec
  PROVE  \E i \in Pending :
           /\ e = [p |-> eng[engine].cur.p, via |-> i, by |-> engine] /\ engine \in Engines
           /\ eng[engine].status = "awaiting_approval" /\ Doable(eng[engine].cur.kind)
           /\ items'[i].p = items[i].p
<1>0. ItemsTyped
  BY DEF AssistantInv
<1>1. PICK i \in DOMAIN items : ApproveAction(i) \/ ApproveTool(i)
  <2>1. AssistantStep /\ ~(exec' \subseteq exec)
    BY DEF AssistantNext
  <2> QED BY <2>1 DEF AssistantStep, Start, Pause, PreviewOff, Resume, Stop, SignOut, RunCanceled, WorkspaceCleared,
                      ProviderChecked, KeyChecked, Captured, LoopFails, Proposed, Refuse, Executed, Respond
<1>2. Approve(i) /\ Doable(items[i].kind)
  BY <1>1 DEF ApproveAction, ApproveTool, Doable
<1>3. exec' # exec
  OBVIOUS
<1>4. /\ eng[engine].status = "awaiting_approval" /\ eng[engine].cur.kind = items[i].kind
      /\ exec' = exec \cup {[p |-> eng[engine].cur.p, via |-> i, by |-> engine]}
  BY <1>2, <1>3 DEF Approve
<1>5. engine \in Engines /\ i \in Pending
  BY <1>2, Refs DEF Approve, IsNext, Pending
<1>6. items'[i].p = items[i].p
  <2>1. items' = [items EXCEPT ![i].state = ApproveAndExecute(items[i].state)]
    BY <1>2, <1>4 DEF Approve
  <2>2. items[i] \in Item
    BY <1>0 DEF ItemsTyped
  <2> QED BY <2>1, <2>2 DEF Item
<1> QED BY <1>2, <1>4, <1>5, <1>6

\* handleAiApproveAction and handleAiApproveTool execute the proposal the approval
\* was made for, and none a second time, for an engine that was never mixed.
THEOREM ExecutesTheApproved == AssistantSpec => ApprovedIsExecutedOnce
<1>1. ASSUME AssistantInv, [AssistantNext]_assistantVars
      PROVE  [\A e \in exec' \ exec : e.by \notin mixed => e.p \notin performed /\ items[e.via].p = e.p]_assistantVars
  <2>1. CASE UNCHANGED assistantVars
    BY <2>1
  <2>2. ASSUME AssistantNext, NEW e \in exec' \ exec, e.by \notin mixed
        PROVE  e.p \notin performed /\ items[e.via].p = e.p
    <3>1. PICK i \in Pending :
            /\ e = [p |-> eng[engine].cur.p, via |-> i, by |-> engine] /\ engine \in Engines
            /\ eng[engine].status = "awaiting_approval" /\ Doable(eng[engine].cur.kind)
      BY <1>1, <2>2, OnlyApproved
    <3>2. e.p = eng[engine].cur.p /\ e.via = i /\ engine \notin mixed
      BY <2>2, <3>1
    <3>3. Alone(engine) /\ ~Mixed(engine)
      BY <1>1, <3>1, <3>2 DEF AssistantInv, EnginesOK
    <3>4. items[i].by = engine
      <4>1. items[i].by \in Engines
        BY <1>1, ItemHas DEF AssistantInv, Pending
      <4> QED BY <3>1, <3>3, <4>1 DEF Mixed
    <3> QED BY <3>1, <3>2, <3>3, <3>4 DEF Alone, Waits
  <2> QED BY <1>1, <2>1, <2>2
<1> QED BY <1>1, AssistantInvariance, PTL DEF AssistantSpec, ApprovedIsExecutedOnce

\* After Stop or a sign-out none of the engines made before executes anything,
\* although their loops go on to propose: an approval reaches only the engine in
\* the ref, and only a start that was still waiting puts one there.
THEOREM StopIsLast == AssistantSpec => NothingAfterStop
<1>1. ASSUME AssistantInv, [AssistantNext]_assistantVars
      PROVE  [\A e \in exec' \ exec : e.by \notin silenced]_assistantVars
  <2>1. CASE UNCHANGED assistantVars
    BY <2>1
  <2>2. ASSUME AssistantNext, NEW e \in exec' \ exec PROVE e.by \notin silenced
    <3>1. e.by = engine
      BY <1>1, <2>2, OnlyApproved
    <3> QED BY <1>1, <3>1 DEF AssistantInv, RefsTyped
  <2> QED BY <1>1, <2>1, <2>2
<1> QED BY <1>1, AssistantInvariance, PTL DEF AssistantSpec, NothingAfterStop

-----------------------------------------------------------------------------
(* The overlay window: Overlay.                                            *)

WinCall == [ask : {"enter", "exit", "status"}, by : {"user", "effect", "nobody"}]
Clean == win.framed /\ ~win.onTop /\ ~overlayOn /\ kept = <<>>
Enters == {i \in DOMAIN winCalls : winCalls[i].ask = "enter"}
Exits  == {i \in DOMAIN winCalls : winCalls[i].ask = "exit"}

\* When the calls before the n-th are over, nothing is left of overlay mode:
\* the last that matters leaves it, or none enters it and nothing is left now.
LeftBefore(n) ==
  \/ \E j \in Exits : j < n /\ \A i \in Enters : i < n => i < j
  \/ Clean /\ \A i \in Enters : i >= n

OverlayInv ==
  /\ winCalls \in Seq(WinCall) /\ (overlayShown = "unknown" => ~aiRunning)
  /\ ~exitFailed => /\ kept = <<>> \/ Head(kept).framed
                    /\ \A n \in Enters : LeftBefore(n)
                    /\ ~aiRunning => LeftBefore(Len(winCalls) + 1)

\* The first k calls are over, the others are still asked in their order.
CallsMoved(k) ==
  /\ winCalls' \in Seq(WinCall) /\ k <= Len(winCalls) /\ Len(winCalls') >= Len(winCalls) - k
  /\ \A i \in 1..(Len(winCalls) - k) : winCalls'[i].ask = winCalls[i + k].ask

\* What the first call leaves of the window.
Served(k) ==
  \/ k = 0 /\ (Clean => Clean')
  \/ k = 1 /\ \/ winCalls[1].ask = "enter"
              \/ winCalls[1].ask = "exit" /\ Clean'
              \/ winCalls[1].ask = "status" /\ (Clean => Clean')

LEMMA CallIndexes ==
  ASSUME winCalls \in Seq(WinCall)
  PROVE  Len(winCalls) \in Nat /\ DOMAIN winCalls = 1..Len(winCalls)
BY LenProperties

LEMMA LeftStays ==
  ASSUME winCalls \in Seq(WinCall), NEW k \in {0, 1}, CallsMoved(k), Served(k),
         NEW n \in 1..(Len(winCalls) + 1 - k), LeftBefore(n + k)
  PROVE  LeftBefore(n)'
<1> DEFINE L == Len(winCalls)
           M == Len(winCalls')
<1>1. L \in Nat /\ M \in Nat /\ DOMAIN winCalls = 1..L /\ DOMAIN winCalls' = 1..M /\ M >= L - k /\ k <= L
  <2>1. L \in Nat /\ DOMAIN winCalls = 1..L
    BY LenProperties
  <2>2. winCalls' \in Seq(WinCall)
    BY DEF CallsMoved
  <2>3. M \in Nat /\ DOMAIN winCalls' = 1..M
    BY <2>2, LenProperties
  <2> QED BY <2>1, <2>3 DEF CallsMoved
<1>2. \A i \in 1..(L - k) : winCalls'[i].ask = winCalls[i + k].ask
  BY DEF CallsMoved
<1>n. n \in 1..(L + 1 - k)
  OBVIOUS
<1> HIDE DEF L, M
<1>3. \A i \in Enters' : i < n => i + k \in Enters
  <2> SUFFICES ASSUME NEW i \in Enters', i < n PROVE i + k \in Enters
    OBVIOUS
  <2>1. i \in 1..M /\ winCalls'[i].ask = "enter"
    BY <1>1 DEF Enters
  <2>2. i \in 1..(L - k) /\ i + k \in 1..L
    BY <1>1, <1>n, <2>1
  <2> QED BY <1>1, <1>2, <2>1, <2>2 DEF Enters
<1>4. CASE \E j \in Exits : j < n + k /\ \A i \in Enters : i < n + k => i < j
  <2>1. PICK j \in Exits : j < n + k /\ \A i \in Enters : i < n + k => i < j
    BY <1>4
  <2>2. j \in 1..L /\ winCalls[j].ask = "exit"
    BY <1>1 DEF Exits
  <2>3. CASE j = k
    <3>3. k = 1 /\ winCalls[1].ask = "exit"
      BY <2>2, <2>3
    <3>1. k = 1 /\ Clean'
      BY <3>3 DEF Served
    <3>2. \A i \in Enters' : i >= n
      BY <1>1, <1>3, <2>1, <2>3 DEF Enters
    <3> QED BY <3>1, <3>2 DEF LeftBefore
  <2>4. CASE j # k
    <3>1. j - k \in 1..(L - k) /\ j - k < n
      BY <1>1, <2>1, <2>2, <2>4
    <3>2. j - k \in Exits'
      BY <1>1, <1>2, <2>2, <3>1 DEF Exits
    <3>3. \A i \in Enters' : i < n => i < j - k
      BY <1>1, <1>3, <2>1, <2>2 DEF Enters
    <3> QED BY <3>1, <3>2, <3>3 DEF LeftBefore
  <2> QED BY <2>3, <2>4
<1>5. CASE Clean /\ \A i \in Enters : i >= n + k
  <2>1. \A i \in Enters' : i >= n
    BY <1>1, <1>3, <1>5 DEF Enters
  <2>2. k = 1 => winCalls[1].ask # "enter"
    BY <1>1, <1>5 DEF Enters
  <2>3. Clean'
    BY <1>5, <2>2 DEF Served
  <2> QED BY <2>1, <2>3 DEF LeftBefore
<1> QED BY <1>4, <1>5 DEF LeftBefore

\* Steps that ask for no entry.
LEMMA NoEntryKeeps ==
  ASSUME OverlayInv, ~exitFailed, NEW k \in {0, 1}, CallsMoved(k), Served(k),
         \A i \in Enters' : i <= Len(winCalls) - k,
         ~aiRunning' => ~aiRunning \/ Len(winCalls') \in Exits'
  PROVE  /\ \A n \in Enters' : LeftBefore(n)'
         /\ (~aiRunning => LeftBefore(Len(winCalls) + 1))'
<1>0. winCalls \in Seq(WinCall)
  BY DEF OverlayInv
<1>l. PICK L \in Nat : L = Len(winCalls) /\ DOMAIN winCalls = 1..L
  BY <1>0, LenProperties
<1>n. PICK M \in Nat : M = Len(winCalls') /\ DOMAIN winCalls' = 1..M
  <2>1. winCalls' \in Seq(WinCall)
    BY DEF CallsMoved
  <2> QED BY <2>1, LenProperties
<1>1. M >= L - k /\ k <= L
  BY <1>l, <1>n DEF CallsMoved
<1>m. (\A i \in 1..(L - k) : winCalls'[i].ask = winCalls[i + k].ask) /\ \A i \in Enters' : i <= L - k
  BY <1>l DEF CallsMoved
<1>h. \A n \in 1..(L + 1 - k) : LeftBefore(n + k) => LeftBefore(n)'
  BY <1>0, <1>l, LeftStays
<1>2. ASSUME NEW n \in Enters' PROVE LeftBefore(n)'
  <2>4. n \in 1..M /\ winCalls'[n].ask = "enter" /\ n <= L - k
    BY <1>n, <1>m DEF Enters
  <2>5. n \in 1..(L - k) /\ n + k \in 1..L
    BY <1>1, <2>4
  <2>1. n \in 1..(L - k) /\ n + k \in Enters
    BY <1>l, <1>m, <2>4, <2>5 DEF Enters
  <2>2. LeftBefore(n + k)
    BY <2>1 DEF OverlayInv
  <2>3. n \in 1..(L + 1 - k)
    BY <2>1
  <2> QED BY <1>h, <2>2, <2>3
<1>3. ASSUME ~aiRunning', NEW m \in Nat, m = M + 1 PROVE LeftBefore(m)'
  <2>1. CASE M \in Exits'
    <3>1. \A i \in Enters' : i < M + 1 => i < M
      BY <1>1, <1>n, <2>1 DEF Enters, Exits
    <3> QED BY <1>3, <2>1, <3>1 DEF LeftBefore
  <2>2. CASE ~aiRunning
    <3>1. PICK q \in Nat : q = L + 1 - k /\ q \in 1..(L + 1 - k) /\ q + k = L + 1
      BY <1>1
    <3>2. LeftBefore(q + k)
      BY <1>l, <2>2, <3>1 DEF OverlayInv
    <3>3. LeftBefore(q)'
      BY <1>h, <3>1, <3>2
    <3>4. \A i \in Enters' : i \in Nat /\ i < q /\ i < m
      BY <1>1, <1>3, <1>n, <1>m, <3>1 DEF Enters
    <3>5. CASE Clean' /\ \A i \in Enters' : i >= q
      <4>1. Enters' = {}
        BY <3>1, <3>4, <3>5
      <4> QED BY <3>5, <4>1 DEF LeftBefore
    <3>6. CASE \E j \in Exits' : j < q /\ \A i \in Enters' : i < q => i < j
      <4>1. PICK j \in Exits' : j < q /\ \A i \in Enters' : i < q => i < j
        BY <3>6
      <4>2. j < m
        BY <1>n, <1>1, <1>3, <3>1, <4>1 DEF Exits
      <4> QED BY <3>4, <4>1, <4>2 DEF LeftBefore
    <3> QED BY <3>3, <3>5, <3>6 DEF LeftBefore
  <2> QED BY <1>3, <1>n, <2>1, <2>2
<1>4. ASSUME ~aiRunning' PROVE LeftBefore(Len(winCalls) + 1)'
  <2>1. \A m : m = Len(winCalls') + 1 => LeftBefore(m)'
    BY <1>3, <1>4, <1>n
  <2> QED BY <2>1 DEF LeftBefore, Clean, Enters, Exits
<1> QED BY <1>2, <1>4

\* The calls under way are canceled, and more are made.
LEMMA FollowsMoves ==
  ASSUME winCalls \in Seq(WinCall), NEW more, more = <<>> \/ more = <<Call("exit")>>,
         NEW run \in BOOLEAN, winCalls' = Canceled(winCalls) \o more \o Sync(run)
  PROVE  /\ CallsMoved(0)
         /\ ~run => Len(winCalls') \in Exits' /\ \A i \in Enters' : i <= Len(winCalls)
         /\ run /\ more = <<>> => Len(winCalls') = Len(winCalls) + 1
<1>l. PICK L \in Nat : L = Len(winCalls) /\ DOMAIN winCalls = 1..L /\ winCalls \in [1..L -> WinCall]
  BY LenProperties
<1>1. Canceled(winCalls) \in [1..L -> WinCall] /\ \A i \in 1..L : Canceled(winCalls)[i].ask = winCalls[i].ask
  BY <1>l DEF Canceled, WinCall
<1>2. Canceled(winCalls) \in Seq(WinCall)
  BY <1>1, SeqDef
<1>3. Len(Canceled(winCalls)) = L
  BY <1>1, <1>2, LenProperties
<1>4. PICK last : /\ last = Sync(run) /\ last \in Seq(WinCall) /\ Len(last) = 1
                  /\ last[1].ask = (IF run THEN "enter" ELSE "exit")
  <2>1. /\ Sync(run) \in Seq(WinCall) /\ Len(Sync(run)) = 1
        /\ Sync(run)[1].ask = (IF run THEN "enter" ELSE "exit")
    BY DEF Sync, WinCall
  <2> QED BY <2>1
<1>5. PICK n \in {0, 1} : /\ more \in Seq(WinCall) /\ Len(more) = n /\ (n = 1 => more[1].ask = "exit")
                          /\ (more = <<>> => n = 0)
  <2>1. CASE more = <<>>
    BY <2>1, EmptySeq
  <2>2. CASE more = <<Call("exit")>>
    BY <2>2 DEF Call, WinCall
  <2> QED BY <2>1, <2>2
<1>6. PICK cs : cs = Canceled(winCalls) \o more
  OBVIOUS
<1>7. /\ cs \in Seq(WinCall) /\ Len(cs) = L + n
      /\ \A i \in 1..(L + n) : cs[i] = IF i <= L THEN Canceled(winCalls)[i] ELSE more[i - L]
  BY <1>2, <1>3, <1>5, <1>6, ConcatProperties
<1>8. winCalls' = cs \o last
  BY <1>4, <1>6
<1>9. PICK M \in Nat :
        /\ winCalls' \in Seq(WinCall) /\ Len(winCalls') = M /\ DOMAIN winCalls' = 1..M /\ M = L + n + 1
        /\ \A i \in 1..M : winCalls'[i] = IF i <= L + n THEN cs[i] ELSE last[i - (L + n)]
  <2>1. winCalls' \in Seq(WinCall) /\ Len(winCalls') = Len(cs) + Len(last)
    BY <1>4, <1>7, <1>8, ConcatProperties
  <2>2. \A i \in 1..(Len(cs) + Len(last)) :
          winCalls'[i] = IF i <= Len(cs) THEN cs[i] ELSE last[i - Len(cs)]
    BY <1>4, <1>7, <1>8, ConcatProperties
  <2>5. \A i \in 1..(L + n + 1) : winCalls'[i] = IF i <= L + n THEN cs[i] ELSE last[i - (L + n)]
    BY <1>4, <1>7, <2>2
  <2>3. Len(winCalls') = L + n + 1 /\ L + n + 1 \in Nat
    BY <1>4, <1>5, <1>7, <2>1
  <2>4. DOMAIN winCalls' = 1..(L + n + 1)
    BY <2>1, <2>3, LenProperties
  <2> QED BY <2>1, <2>3, <2>4, <2>5
<1>10. M - (L + n) = 1 /\ ~(M <= L + n) /\ M \in 1..M
  BY <1>5, <1>9
<1>11. \A i \in 1..L : winCalls'[i].ask = winCalls[i].ask
  <2> SUFFICES ASSUME NEW i \in 1..L PROVE winCalls'[i].ask = winCalls[i].ask
    OBVIOUS
  <2>1. i \in 1..(L + n) /\ i \in 1..M /\ i <= L /\ i <= L + n
    BY <1>5, <1>9
  <2> QED BY <1>1, <1>7, <1>9, <2>1
<1>12. winCalls'[M].ask = (IF run THEN "enter" ELSE "exit")
  BY <1>4, <1>9, <1>10
<1>13. ASSUME NEW i \in 1..M, i > L, i < M PROVE winCalls'[i].ask = "exit"
  <2>1. n = 1 /\ i = L + 1 /\ i - L = 1 /\ i \in 1..(L + n) /\ ~(i <= L) /\ i <= L + n
    <3>1. n = 0 \/ n = 1
      BY <1>5
    <3>2. M = L + n + 1 /\ i \in Nat /\ i > L /\ i < M
      BY <1>9, <1>13
    <3>3. n = 1
      BY <3>1, <3>2
    <3>4. i = L + 1
      BY <3>2, <3>3
    <3> QED BY <3>3, <3>4
  <2> QED BY <1>5, <1>7, <1>9, <2>1
<1>14. CallsMoved(0)
  <2>1. M >= L - 0 /\ 0 <= L /\ L - 0 = L /\ \A i \in 1..L : i + 0 = i
    BY <1>5, <1>9
  <2> QED BY <1>l, <1>9, <1>11, <2>1 DEF CallsMoved
<1>15. ASSUME ~run PROVE M \in Exits' /\ \A i \in Enters' : i <= L
  <2>1. M \in Exits'
    BY <1>9, <1>10, <1>12, <1>15 DEF Exits
  <2>2. ASSUME NEW i \in Enters' PROVE i <= L
    <3>1. i \in 1..M /\ winCalls'[i].ask = "enter"
      BY <1>9 DEF Enters
    <3>2. i # M
      BY <1>12, <1>15, <3>1
    <3>3. L \in Nat /\ M \in Nat
      BY <1>5, <1>9
    <3>4. i < M
      BY <3>1, <3>2, <3>3
    <3>5. ~(i > L)
      BY <1>13, <3>1, <3>4
    <3> QED BY <3>1, <3>3, <3>5
  <2> QED BY <2>1, <2>2
<1>16. run /\ more = <<>> => M = L + 1
  BY <1>5, <1>9
<1> QED BY <1>l, <1>9, <1>14, <1>15, <1>16

\* A call is served, and the caller may ask for the status.
LEMMA ServingMoves ==
  ASSUME winCalls \in Seq(WinCall), winCalls # <<>>, NEW ok \in BOOLEAN, AsksStatus(ok) \/ winCalls' = Tail(winCalls)
  PROVE  CallsMoved(1) /\ \A i \in Enters' : i <= Len(winCalls) - 1
<1>l. PICK L \in Nat : L = Len(winCalls) /\ L > 0 /\ DOMAIN winCalls = 1..L /\ Head(winCalls) \in WinCall
  BY LenProperties, HeadTailProperties, EmptySeq
<1>1. PICK tl \in Seq(WinCall) : tl = Tail(winCalls) /\ Len(tl) = L - 1 /\ \A i \in 1..(L - 1) : tl[i] = winCalls[i + 1]
  <2>1. /\ Tail(winCalls) \in Seq(WinCall) /\ Len(Tail(winCalls)) = Len(winCalls) - 1
        /\ \A i \in 1..Len(Tail(winCalls)) : Tail(winCalls)[i] = winCalls[i + 1]
    BY HeadTailProperties
  <2> QED BY <1>l, <2>1
<1>2. CASE winCalls' = tl
  <2>1. DOMAIN winCalls' = 1..(L - 1)
    BY <1>1, <1>2, LenProperties
  <2> QED BY <1>l, <1>1, <1>2, <2>1 DEF CallsMoved, Enters
<1>3. CASE winCalls' = Append(tl, [Head(winCalls) EXCEPT !.ask = "status"])
  <2>1. PICK c \in WinCall : c.ask = "status" /\ winCalls' = Append(tl, c)
    BY <1>l, <1>3 DEF WinCall
  <2>2. winCalls' \in Seq(WinCall) /\ Len(winCalls') = L /\ (\A i \in 1..(L - 1) : winCalls'[i] = tl[i]) /\ winCalls'[L] = c
    <3>1. /\ winCalls' \in Seq(WinCall) /\ Len(winCalls') = Len(tl) + 1
          /\ (\A i \in 1..Len(tl) : winCalls'[i] = tl[i]) /\ winCalls'[Len(tl) + 1] = c
      BY <2>1, AppendProperties
    <3>2. Len(tl) + 1 = L
      BY <1>1, <1>l
    <3> QED BY <1>1, <3>1, <3>2
  <2>3. DOMAIN winCalls' = 1..L
    BY <2>2, LenProperties
  <2>4. CallsMoved(1)
    BY <1>l, <1>1, <2>2 DEF CallsMoved
  <2>5. \A i \in Enters' : i <= L - 1
    BY <1>l, <2>1, <2>2, <2>3 DEF Enters
  <2> QED BY <1>l, <2>4, <2>5
<1> QED BY <1>1, <1>2, <1>3 DEF AsksStatus

LEMMA AppMoves ==
  ASSUME OverlayInv, AssistantStarts \/ AssistantEnds \/ StopPressed \/ StopAllPressed
  PROVE  OverlayInv'
<1>0. winCalls \in Seq(WinCall) /\ UNCHANGED <<nativeVars, overlayShown, exitFailed>> /\ (Clean <=> Clean')
  <2>1. UNCHANGED <<nativeVars, overlayShown, exitFailed>>
    BY DEF AssistantStarts, AssistantEnds, StopPressed, StopAllPressed
  <2> QED BY <2>1 DEF OverlayInv, nativeVars, Clean
<1>l. PICK L \in Nat : L = Len(winCalls) /\ DOMAIN winCalls = 1..L
  BY <1>0, LenProperties
<1>k. (kept = <<>> \/ Head(kept).framed) => (kept = <<>> \/ Head(kept).framed)'
  BY <1>0 DEF nativeVars
<1>s. Served(0)
  BY <1>0 DEF Served
<1>1. CASE AssistantStarts
  <2>1. ~aiRunning /\ aiRunning' /\ overlayShown' # "unknown"
    BY <1>0, <1>1 DEF AssistantStarts, Follows
  <2>2. winCalls' = Canceled(winCalls) \o <<>> \o Sync(TRUE)
    BY <1>1 DEF AssistantStarts, Follows
  <2>3. CallsMoved(0) /\ Len(winCalls') = L + 1
    BY <1>0, <1>l, <2>2, FollowsMoves
  <2>4. ASSUME ~exitFailed, NEW n \in Enters' PROVE LeftBefore(n)'
    <3>1. winCalls' \in Seq(WinCall)
      BY <2>3 DEF CallsMoved
    <3>2. DOMAIN winCalls' = 1..(L + 1)
      BY <2>3, <3>1, LenProperties
    <3>3. n \in 1..(L + 1) /\ winCalls'[n].ask = "enter"
      BY <3>2 DEF Enters
    <3>4. LeftBefore(n)
      <4>1. CASE n = L + 1
        BY <1>l, <2>1, <2>4, <4>1 DEF OverlayInv
      <4>2. CASE n # L + 1
        <5>1. n \in 1..L /\ winCalls[n].ask = "enter"
          BY <1>l, <2>3, <3>3, <4>2 DEF CallsMoved
        <5> QED BY <1>l, <2>4, <5>1 DEF OverlayInv, Enters
      <4> QED BY <4>1, <4>2
    <3>5. n + 0 = n /\ n \in 1..(Len(winCalls) + 1 - 0)
      BY <1>l, <3>3
    <3> QED BY <1>0, <1>s, <2>3, <3>4, <3>5, LeftStays
  <2>5. winCalls' \in Seq(WinCall) /\ (overlayShown' = "unknown" => ~aiRunning')
    BY <2>1, <2>3 DEF CallsMoved
  <2>6. ASSUME ~exitFailed
        PROVE  (kept = <<>> \/ Head(kept).framed)' /\ (\A n \in Enters' : LeftBefore(n)')
               /\ (~aiRunning => LeftBefore(Len(winCalls) + 1))'
    BY <1>k, <2>1, <2>4, <2>6 DEF OverlayInv
  <2> QED BY <1>0, <2>5, <2>6 DEF OverlayInv
<1>2. CASE AssistantEnds \/ StopPressed \/ StopAllPressed
  <2>1. CallsMoved(0) /\ Len(winCalls') \in Exits' /\ (\A i \in Enters' : i <= Len(winCalls) - 0)
    <3>1. CASE AssistantEnds \/ StopPressed
      <4>1. PICK more : /\ more = <<>> \/ more = <<Call("exit")>>
                        /\ winCalls' = Canceled(winCalls) \o more \o Sync(FALSE)
        BY <3>1 DEF AssistantEnds, StopPressed, Follows
      <4>2. CallsMoved(0) /\ Len(winCalls') \in Exits' /\ (\A i \in Enters' : i <= Len(winCalls))
        BY <1>0, <4>1, FollowsMoves
      <4> QED BY <1>l, <4>2
    <3>2. CASE StopAllPressed
      <4>1. PICK c \in WinCall : c.ask = "exit" /\ winCalls' = Append(winCalls, c)
        BY <3>2 DEF StopAllPressed, Call, WinCall
      <4>2. /\ winCalls' \in Seq(WinCall) /\ Len(winCalls') = L + 1
            /\ (\A i \in 1..L : winCalls'[i] = winCalls[i]) /\ winCalls'[L + 1] = c
        BY <1>0, <1>l, <4>1, AppendProperties
      <4>3. DOMAIN winCalls' = 1..(L + 1)
        BY <4>2, LenProperties
      <4>4. L + 1 \in 1..(L + 1)
        OBVIOUS
      <4>5. Len(winCalls') \in Exits'
        BY <4>1, <4>2, <4>3, <4>4 DEF Exits
      <4>6. \A i \in Enters' : i <= L
        BY <4>1, <4>2, <4>3 DEF Enters
      <4>7. CallsMoved(0)
        BY <1>l, <4>2 DEF CallsMoved
      <4> QED BY <1>l, <4>5, <4>6, <4>7
    <3> QED BY <1>2, <3>1, <3>2
  <2>2. overlayShown' = "unknown" => ~aiRunning'
    BY <1>0, <1>2 DEF OverlayInv, AssistantEnds, StopPressed, StopAllPressed, Follows
  <2>3. ASSUME ~exitFailed
        PROVE  (\A n \in Enters' : LeftBefore(n)') /\ (~aiRunning => LeftBefore(Len(winCalls) + 1))'
    BY <1>s, <2>1, <2>3, NoEntryKeeps
  <2> QED BY <1>0, <1>k, <2>1, <2>2, <2>3 DEF OverlayInv, CallsMoved
<1> QED BY <1>1, <1>2

\* A call of the native side.
LEMMA NativeServes ==
  ASSUME OverlayInv, winCalls # <<>>, NEW ok \in BOOLEAN, AsksStatus(ok) \/ winCalls' = Tail(winCalls),
         UNCHANGED <<aiRunning, overlayShown>>,
         exitFailed => exitFailed',
         ~exitFailed' => Served(1) /\ (kept = <<>> \/ Head(kept).framed)'
  PROVE  OverlayInv'
<1>1. CallsMoved(1) /\ \A i \in Enters' : i <= Len(winCalls) - 1
  BY ServingMoves DEF OverlayInv
<1>2. ASSUME ~exitFailed'
      PROVE  (\A n \in Enters' : LeftBefore(n)') /\ (~aiRunning => LeftBefore(Len(winCalls) + 1))'
  BY <1>1, <1>2, NoEntryKeeps
<1>3. winCalls' \in Seq(WinCall) /\ (overlayShown' = "unknown" => ~aiRunning')
  BY <1>1 DEF OverlayInv, CallsMoved
<1> QED BY <1>2, <1>3 DEF OverlayInv

LEMMA NativeMoves ==
  ASSUME OverlayInv, Enter \/ Exit
  PROVE  OverlayInv'
<1>0. winCalls \in Seq(WinCall) /\ winCalls # <<>> /\ Head(winCalls) = winCalls[1]
  <2>1. winCalls \in Seq(WinCall) /\ winCalls # <<>>
    BY DEF OverlayInv, Enter, Exit
  <2> QED BY <2>1
<1>l. PICK L \in Nat : L = Len(winCalls) /\ DOMAIN winCalls = 1..L /\ 1 \in 1..L
  BY <1>0, LenProperties, EmptySeq
<1>1. PICK ok \in BOOLEAN : AsksStatus(ok)
  BY DEF Enter, Exit
<1>2. UNCHANGED <<aiRunning, overlayShown>> /\ (exitFailed => exitFailed')
  <2>1. exitFailed' = exitFailed \/ exitFailed' = TRUE
    BY DEF Enter, Exit, LeaveFails
  <2>2. UNCHANGED <<aiRunning, overlayShown>>
    BY DEF Enter, Exit
  <2> QED BY <2>1, <2>2
<1>3. ASSUME ~exitFailed' PROVE Served(1) /\ (kept = <<>> \/ Head(kept).framed)'
  <2>1. ~exitFailed /\ (kept = <<>> \/ Head(kept).framed)
    BY <1>2, <1>3 DEF OverlayInv
  <2>2. CASE Enter
    <3>1. winCalls[1].ask = "enter" /\ 1 \in Enters
      BY <1>0, <1>l, <2>2 DEF Enter, Enters
    <3>2. LeftBefore(1)
      BY <2>1, <3>1 DEF OverlayInv
    <3>3. Clean
      BY <1>l, <3>2 DEF LeftBefore, Exits
    <3>4. CASE kept' = <<Snapshot>>
      BY <3>1, <3>3, <3>4 DEF Snapshot, Served, Clean
    <3>5. CASE kept' = <<>> \/ kept' = kept
      BY <3>1, <3>3, <3>5 DEF Served, Clean
    <3> QED BY <2>2, <3>4, <3>5 DEF Enter
  <2>3. CASE Exit
    <3>1. winCalls[1].ask = "exit" /\ Leave
      BY <1>0, <1>3, <2>3 DEF Exit, LeaveFails
    <3>2. Clean'
      BY <2>1, <3>1 DEF Leave, Clean, Before, Plain, Restored
    <3> QED BY <3>1, <3>2 DEF Served, Clean
  <2> QED BY <2>2, <2>3
<1> QED BY <1>0, <1>1, <1>2, <1>3, NativeServes

LEMMA StatusMoves ==
  ASSUME OverlayInv, StatusAnswered
  PROVE  OverlayInv'
<1>0. winCalls \in Seq(WinCall) /\ winCalls # <<>> /\ Head(winCalls) = winCalls[1]
  BY DEF OverlayInv, StatusAnswered
<1>1. /\ UNCHANGED <<nativeVars, aiRunning, exitFailed>> /\ winCalls[1].ask = "status" /\ Served(1)
      /\ (overlayShown' = "unknown" => overlayShown = "unknown")
  BY <1>0 DEF StatusAnswered, Served, Clean, nativeVars
<1>k. (kept = <<>> \/ Head(kept).framed) => (kept = <<>> \/ Head(kept).framed)'
  BY <1>1 DEF nativeVars
<1>l. PICK L \in Nat : L = Len(winCalls) /\ L > 0 /\ DOMAIN winCalls = 1..L
  BY <1>0, LenProperties, EmptySeq
<1>2. CallsMoved(1) /\ (\A i \in Enters' : i <= Len(winCalls) - 1) /\ (~aiRunning' => ~aiRunning \/ Len(winCalls') \in Exits')
  <2>1. CASE winCalls' = Tail(winCalls)
    BY <1>0, <1>1, <2>1, ServingMoves
  <2>2. CASE overlayShown = "unknown" /\ winCalls' = Canceled(Tail(winCalls)) \o Sync(aiRunning)
    <3>1. ~aiRunning /\ Sync(aiRunning) = Sync(FALSE)
      BY <2>2 DEF OverlayInv, Sync
    <3>2. PICK tl \in Seq(WinCall) : /\ tl = Tail(winCalls) /\ Len(tl) = L - 1 /\ DOMAIN tl = 1..(L - 1)
                                     /\ tl \in [1..(L - 1) -> WinCall]
                                     /\ \A i \in 1..(L - 1) : tl[i] = winCalls[i + 1]
      <4>1. /\ Tail(winCalls) \in Seq(WinCall) /\ Len(Tail(winCalls)) = L - 1
            /\ \A i \in 1..Len(Tail(winCalls)) : Tail(winCalls)[i] = winCalls[i + 1]
        BY <1>0, <1>l, HeadTailProperties
      <4>2. DOMAIN Tail(winCalls) = 1..(L - 1) /\ Tail(winCalls) \in [1..(L - 1) -> WinCall]
        BY <4>1, LenProperties
      <4> QED BY <4>1, <4>2
    <3>3. PICK cs : cs = Canceled(tl)
      OBVIOUS
    <3>4. cs \in [1..(L - 1) -> WinCall] /\ \A i \in 1..(L - 1) : cs[i].ask = tl[i].ask
      <4>1. cs = [i \in 1..(L - 1) |-> IF tl[i].by = "effect" THEN [tl[i] EXCEPT !.by = "nobody"] ELSE tl[i]]
        BY <3>2, <3>3 DEF Canceled
      <4>2. ASSUME NEW w \in WinCall PROVE [w EXCEPT !.by = "nobody"] \in WinCall /\ [w EXCEPT !.by = "nobody"].ask = w.ask
        BY DEF WinCall
      <4>3. ASSUME NEW i \in 1..(L - 1) PROVE cs[i] \in WinCall /\ cs[i].ask = tl[i].ask
        BY <3>2, <4>1, <4>2
      <4> QED BY <4>1, <4>3
    <3>5. cs \in Seq(WinCall)
      BY <1>l, <3>4, SeqDef
    <3>6. Len(cs) = L - 1
      BY <1>l, <3>4, <3>5, LenProperties
    <3>7. PICK c \in WinCall : c.ask = "exit" /\ Sync(FALSE) = <<c>>
      BY DEF Sync, WinCall
    <3>8. winCalls' = Append(cs, c)
      BY <2>2, <3>1, <3>2, <3>3, <3>5, <3>7, AppendIsConcat
    <3>9. /\ winCalls' \in Seq(WinCall) /\ Len(winCalls') = L /\ winCalls'[L] = c
          /\ \A i \in 1..(L - 1) : winCalls'[i] = cs[i]
      <4>1. /\ winCalls' \in Seq(WinCall) /\ Len(winCalls') = Len(cs) + 1 /\ winCalls'[Len(cs) + 1] = c
            /\ \A i \in 1..Len(cs) : winCalls'[i] = cs[i]
        BY <3>5, <3>8, AppendProperties
      <4> QED BY <1>l, <3>6, <4>1
    <3>10. DOMAIN winCalls' = 1..L
      BY <3>9, LenProperties
    <3>11. \A i \in Enters' : i <= L - 1
      BY <1>l, <3>7, <3>9, <3>10 DEF Enters
    <3>12. CallsMoved(1)
      BY <1>l, <3>2, <3>4, <3>9 DEF CallsMoved
    <3> QED BY <1>l, <3>1, <3>11, <3>12
  <2> QED BY <2>1, <2>2 DEF StatusAnswered
<1>3. ASSUME ~exitFailed
      PROVE  (\A n \in Enters' : LeftBefore(n)') /\ (~aiRunning => LeftBefore(Len(winCalls) + 1))'
  BY <1>1, <1>2, <1>3, NoEntryKeeps
<1>4. winCalls' \in Seq(WinCall) /\ (overlayShown' = "unknown" => ~aiRunning')
  BY <1>1, <1>2 DEF OverlayInv, CallsMoved
<1> QED BY <1>1, <1>k, <1>3, <1>4 DEF OverlayInv

LEMMA WindowMoves ==
  ASSUME OverlayInv, CloseRequested \/ UserSwitches
  PROVE  OverlayInv'
<1>1. UNCHANGED <<winCalls, aiRunning, overlayShown>> /\ (exitFailed => exitFailed')
  BY DEF CloseRequested, UserSwitches, LeaveFails
<1>2. ASSUME ~exitFailed' PROVE (Clean => Clean') /\ (kept = <<>> \/ Head(kept).framed)'
  <2>1. ~exitFailed /\ (kept = <<>> \/ Head(kept).framed)
    BY <1>1, <1>2 DEF OverlayInv
  <2>2. CASE Leave
    BY <2>1, <2>2 DEF Leave, Clean, Before, Plain, Restored
  <2>3. CASE UserSwitches
    BY <2>1, <2>3 DEF UserSwitches, Clean
  <2> QED BY <1>2, <2>2, <2>3 DEF CloseRequested, LeaveFails
<1>3. Enters' = Enters /\ Exits' = Exits
  BY <1>1 DEF Enters, Exits
<1>4. ASSUME ~exitFailed', NEW n, LeftBefore(n) PROVE LeftBefore(n)'
  BY <1>2, <1>3, <1>4 DEF LeftBefore
<1>5. ASSUME ~exitFailed' PROVE (~aiRunning => LeftBefore(Len(winCalls) + 1))'
  BY <1>1, <1>2, <1>3, <1>5 DEF LeftBefore, OverlayInv
<1> QED BY <1>1, <1>2, <1>3, <1>4, <1>5 DEF OverlayInv

\* Every step keeps the invariant.
LEMMA NextOverlayInv == OverlayInv /\ [OverlayNext]_overlayVars => OverlayInv'
<1>1. OverlayInv /\ UNCHANGED overlayVars => OverlayInv'
  BY DEF OverlayInv, overlayVars, nativeVars, Enters, Exits, LeftBefore, Clean
<1> QED BY <1>1, AppMoves, NativeMoves, StatusMoves, WindowMoves DEF OverlayNext

LEMMA InitOverlayInv == OverlayInit => OverlayInv
<1> SUFFICES ASSUME OverlayInit PROVE OverlayInv
  OBVIOUS
<1>1. PICK c \in WinCall, d \in WinCall : c = Call("status") /\ d = [ask |-> "exit", by |-> "effect"]
  BY DEF Call, WinCall
<1>2. <<c>> \in Seq(WinCall) /\ Len(<<c>>) = 1 /\ <<c>>[1] = c
  OBVIOUS
<1>3. winCalls = Append(<<c>>, d)
  <2>1. Sync(FALSE) = <<d>>
    BY <1>1 DEF Sync
  <2>2. Append(<<c>>, d) = <<c>> \o <<d>>
    BY <1>2, AppendIsConcat
  <2> QED BY <1>1, <2>1, <2>2 DEF OverlayInit
<1>4. winCalls \in Seq(WinCall) /\ Len(winCalls) = 2 /\ winCalls[1] = c /\ winCalls[2] = d
  BY <1>2, <1>3, AppendProperties
<1>5. DOMAIN winCalls = 1..2
  BY <1>4, LenProperties
<1>6. \A i \in 1..2 : winCalls[i].ask # "enter"
  BY <1>1, <1>4 DEF Call
<1>7. winCalls \in Seq(WinCall) /\ Enters = {} /\ Clean
  BY <1>4, <1>5, <1>6 DEF OverlayInit, Enters, Clean, Plain
<1> QED BY <1>7 DEF OverlayInit, OverlayInv, LeftBefore

\* The overlay window, for any number of calls and failures: unless an exit
\* failed, the calls under way undo overlay mode before an idle assistant.
THEOREM OverlayInvariance == OverlaySpec => []OverlayInv
BY InitOverlayInv, NextOverlayInv, PTL DEF OverlaySpec

\* Once the calls of the window are served and the assistant does not run,
\* nothing of overlay mode is left, unless an exit failed (App.tsx's effect and
\* overlay_mode.rs).
THEOREM NothingStaysOver == OverlaySpec => []NoOverlayLeft
<1>1. OverlayInv => NoOverlayLeft
  <2> SUFFICES ASSUME OverlayInv, ~aiRunning, winCalls = <<>>, ~exitFailed PROVE Clean
    BY DEF NoOverlayLeft, Clean
  <2>1. LeftBefore(Len(winCalls) + 1) /\ Exits = {}
    BY DEF OverlayInv, Exits
  <2> QED BY <2>1 DEF LeftBefore
<1> QED BY <1>1, OverlayInvariance, PTL

-----------------------------------------------------------------------------
(* The chat: ChatTasks.                                                    *)

\* The numbers given to turns.
TurnTyped ==
  /\ turnId \in 0..MaxTurns /\ turns \subseteq 1..turnId /\ conf \in 0..turnId
  /\ abandoned \subseteq 1..turnId

\* A number names one thing only: the last one is never given up, and a turn
\* that has answered is not under way any more.
NumbersApart == turnId \notin abandoned /\ conf \notin turns

\* The inductive invariant.
TurnInv == TurnTyped /\ NumbersApart /\ NoStaleQuestion

\* Giving up the turns under way, with the question on the screen kept or
\* taken away.
LEMMA AbandonKeeps ==
  ASSUME TurnInv, Abandon, turns' = turns, conf' \in {0, conf}
  PROVE  /\ turnId' \in 0..MaxTurns /\ turns' \subseteq 1..turnId' /\ conf' \in 0..turnId'
         /\ abandoned' \subseteq 1..turnId' /\ NumbersApart' /\ NoStaleQuestion'
BY TurnsAssumption DEF TurnInv, TurnTyped, NumbersApart, NoStaleQuestion, Abandon

\* A new turn takes the question away.
LEMMA TurnStartKeeps ==
  ASSUME TurnInv, StartTurn, conf' = 0, abandoned' = abandoned
  PROVE  /\ turnId' \in 0..MaxTurns /\ turns' \subseteq 1..turnId' /\ conf' \in 0..turnId'
         /\ abandoned' \subseteq 1..turnId' /\ NumbersApart' /\ NoStaleQuestion'
BY TurnsAssumption DEF TurnInv, TurnTyped, NumbersApart, NoStaleQuestion, StartTurn

\* Every step keeps the invariant.
LEMMA NextTurnInv == TurnInv /\ [ChatNext]_chatVars => TurnInv'
<1> SUFFICES ASSUME TurnInv, [ChatNext]_chatVars PROVE TurnInv'
  OBVIOUS
<1> USE TurnsAssumption
<1>s. ASSUME UNCHANGED <<turnId, turns, abandoned>>, conf' \in {0, conf}
      PROVE  TurnInv'
  BY <1>s DEF TurnInv, TurnTyped, NumbersApart, NoStaleQuestion
<1>1. CASE SendMessage
  <2>1. CASE runActive /\ Abandon /\ UNCHANGED turns
    BY <1>1, <2>1, AbandonKeeps DEF SendMessage, TurnInv, TurnTyped
  <2>2. CASE StartTurn /\ UNCHANGED abandoned
    BY <1>1, <2>2, TurnStartKeeps DEF SendMessage, TurnInv, TurnTyped
  <2>3. CASE UNCHANGED <<turnId, turns, convBusy, abandoned>>
    BY <1>1, <2>3, <1>s DEF SendMessage
  <2> QED BY <1>1, <2>1, <2>2, <2>3 DEF SendMessage
<1>2. CASE ConfirmTask
  <2>1. turns' = turns /\ conf' \in {0, conf} /\ Abandon
    BY <1>2 DEF ConfirmTask
  <2> QED BY <1>2, <2>1, AbandonKeeps DEF TurnInv, TurnTyped
<1>3. CASE CancelTask \/ BeginSetup \/ CancelSetup \/ \E endsRun \in BOOLEAN : StopTasks(endsRun)
  <2>1. turns' = turns /\ conf' \in {0, conf} /\ Abandon
    BY <1>3 DEF CancelTask, BeginSetup, CancelSetup, StopTasks
  <2> QED BY <2>1, AbandonKeeps DEF TurnInv, TurnTyped
<1>4. CASE RunEnds
  BY <1>4 DEF RunEnds, TurnInv, TurnTyped, NumbersApart, NoStaleQuestion
<1>5. ASSUME NEW id \in 1..MaxTurns, NEW kind \in Kinds, TurnAnswered(id, kind) PROVE TurnInv'
  BY <1>5 DEF TurnAnswered, TurnInv, TurnTyped, NumbersApart, NoStaleQuestion
<1>6. ASSUME NEW id \in 1..MaxTurns, NEW ok \in BOOLEAN, TaskDispatched(id, ok) PROVE TurnInv'
  BY <1>6 DEF TaskDispatched, TurnInv, TurnTyped, NumbersApart, NoStaleQuestion
<1>7. CASE Replay
  BY <1>7, TurnStartKeeps DEF Replay, TurnInv, TurnTyped
<1>8. CASE FollowProgress \/ RuntimeStops \/ (\E ok \in BOOLEAN : InstallDone(ok) \/ StartAnswered(ok))
  <2>1. UNCHANGED <<turnId, turns, abandoned, conf>>
    BY <1>8 DEF FollowProgress, RuntimeStops, InstallDone, StartAnswered
  <2> QED BY <1>s, <2>1
<1>9. CASE UNCHANGED chatVars
  BY <1>9, <1>s DEF chatVars
<1> QED BY <1>1, <1>2, <1>3, <1>4, <1>5, <1>6, <1>7, <1>8, <1>9 DEF ChatNext

LEMMA InitTurnInv == ChatInit => TurnInv
BY TurnsAssumption DEF ChatInit, TurnInv, TurnTyped, NumbersApart, NoStaleQuestion

\* The conversation of App.tsx, for any number of turns: the numbers stay as
\* TurnInv says.
THEOREM TurnInvariance == ChatSpec => []TurnInv
BY InitTurnInv, NextTurnInv, PTL DEF ChatSpec

\* A task to confirm comes from a turn the user had not given up, however many
\* answers are still to come (assistantConversationRequestIdRef of App.tsx).
THEOREM QuestionIsCurrent == ChatSpec => []NoStaleQuestion
<1>1. TurnInv => NoStaleQuestion
  BY DEF TurnInv
<1> QED BY <1>1, TurnInvariance, PTL

-----------------------------------------------------------------------------
(* The task runner: AgentTask.                                             *)

\* What is indexed by the tasks, without the types of the values.
PerTask ==
  /\ loop \in [Tasks -> Loops] /\ step \in [Tasks -> Nat]
  /\ DOMAIN pending = Tasks /\ DOMAIN decision = Tasks /\ DOMAIN cancelled = Tasks
  /\ current \in 0..MaxTasks

\* An interaction can be taken only while its loop waits for it, and an answer
\* is on the channel only until the loop goes on.
AnswersAwaited ==
  \A t \in Tasks :
    /\ pending[t] \in {"none", loop[t]} /\ (pending[t] # "none" => loop[t] \in {"approval", "input"})
    /\ decision[t] # "none" => loop[t] \in {"approval", "input"} /\ pending[t] = "none"

\* Who goes on because of a yes goes on in the step the yes was for; only a
\* cancel in between makes the answer worthless.
YesIsForThisStep ==
  \A t \in Tasks :
    /\ decision[t] = "approved" => cancelled[t] \/ <<t, step[t]>> \in granted
    /\ loop[t] = "execute" => <<t, step[t]>> \in granted

\* The inductive invariant.
AgentInv == PerTask /\ AnswersAwaited /\ YesIsForThisStep /\ RunsWhatWasApproved

\* A command takes the interaction of the task stored last.
LEMMA TakeKeeps ==
  ASSUME AgentInv, NEW kind \in {"approval", "input"}, NEW sent \in {"approved", "denied", "answered"},
         Take(kind, sent)
  PROVE  AgentInv'
<1>1. current \in Tasks /\ pending[current] = kind /\ loop[current] = kind
  BY AgentBoundsAssumption DEF Take, AgentInv, PerTask, AnswersAwaited, Tasks
<1>2. PerTask' /\ AnswersAwaited'
  BY <1>1 DEF Take, AgentInv, PerTask, AnswersAwaited
<1>3. granted \subseteq granted' /\ (sent = "approved" => cancelled[current] \/ <<current, step[current]>> \in granted')
  BY DEF Take
<1>4. YesIsForThisStep'
  BY <1>1, <1>3 DEF Take, AgentInv, PerTask, YesIsForThisStep
<1>5. RunsWhatWasApproved'
  BY <1>3 DEF Take, AgentInv, RunsWhatWasApproved
<1> QED BY <1>2, <1>4, <1>5 DEF AgentInv

\* The parts of a cancel.
LEMMA CancelKeeps ==
  ASSUME AgentInv, CancelFlag \/ \E t \in Tasks : CancelRest(t)
  PROVE  AgentInv'
<1>1. CASE CancelFlag
  <2>1. current \in Tasks
    BY <1>1, AgentBoundsAssumption DEF CancelFlag, AgentInv, PerTask, Tasks
  <2> QED BY <1>1, <2>1 DEF CancelFlag, AgentInv, PerTask, AnswersAwaited, YesIsForThisStep, RunsWhatWasApproved
<1>2. ASSUME NEW t \in Tasks, CancelRest(t) PROVE AgentInv'
  <2>1. /\ pending' = [pending EXCEPT ![t] = "none"]
        /\ decision' = [decision EXCEPT ![t] = CASE pending[t] = "approval" -> "denied"
                                                 [] pending[t] = "input" -> "answered"
                                                 [] OTHER -> decision[t]]
        /\ UNCHANGED <<loop, step, cancelled, current, granted, ran>>
    BY <1>2 DEF CancelRest
  <2>2. decision'[t] # "none" => loop[t] \in {"approval", "input"} /\ pending'[t] = "none"
    BY <2>1 DEF AgentInv, PerTask, AnswersAwaited
  <2>3. decision'[t] = "approved" => decision[t] = "approved"
    BY <2>1 DEF AgentInv, PerTask
  <2>4. PerTask' /\ AnswersAwaited'
    BY <2>1, <2>2 DEF AgentInv, PerTask, AnswersAwaited
  <2>5. YesIsForThisStep' /\ RunsWhatWasApproved'
    BY <2>1, <2>3 DEF AgentInv, PerTask, YesIsForThisStep, RunsWhatWasApproved
  <2> QED BY <2>4, <2>5 DEF AgentInv
<1> QED BY <1>1, <1>2

\* A step of a loop.
LEMMA LoopStepKeeps ==
  ASSUME AgentInv, NEW t \in Tasks, LoopStep(t)
  PROVE  AgentInv'
<1> DEFINE Moved(to) ==
      /\ loop' = [loop EXCEPT ![t] = to] /\ to \in Loops /\ to # "execute"
      /\ UNCHANGED <<step, pending, decision, ran>>
<1>0. UNCHANGED <<cancelled, current, granted>>
  BY DEF LoopStep
<1>m. ASSUME NEW to, Moved(to), loop[t] \notin {"approval", "input"} PROVE AgentInv'
  <2>1. pending[t] = "none" /\ decision[t] = "none"
    BY <1>m DEF AgentInv, AnswersAwaited
  <2> QED BY <1>0, <1>m, <2>1 DEF AgentInv, PerTask, AnswersAwaited, YesIsForThisStep, RunsWhatWasApproved
<1>1. ASSUME NEW n \in 0..MaxSteps, PlanTask(t, n) PROVE AgentInv'
  <2>1. loop[t] = "plan" /\ (Moved("next") \/ Moved("end"))
    BY <1>1 DEF PlanTask, Goes, Ends, Loops
  <2> QED BY <1>m, <2>1
<1>2. ASSUME NEW to \in {"ask", "observe", "propose"}, NextStep(t, to) PROVE AgentInv'
  <2>1. loop[t] = "next" /\ pending[t] = "none" /\ decision[t] = "none"
    BY <1>2 DEF NextStep, AgentInv, AnswersAwaited
  <2>2. CASE Moved("end") \/ Moved("sum")
    BY <1>m, <2>1, <2>2
  <2>3. CASE /\ loop' = [loop EXCEPT ![t] = to] /\ step' = [step EXCEPT ![t] = step[t] + 1]
             /\ UNCHANGED <<pending, decision, ran>>
    BY <1>0, <2>1, <2>3 DEF Loops, AgentInv, PerTask, AnswersAwaited, YesIsForThisStep, RunsWhatWasApproved
  <2> QED BY <1>2, <2>2, <2>3 DEF NextStep, Goes, Ends, Loops
<1>3. CASE ObserveScreen(t) \/ ProposeNextOperation(t) \/ ExecuteAtOnce(t)
  <2>1. /\ loop[t] \in {"observe", "propose", "auto"}
        /\ \E to \in {"end", "propose", "auto", "request", "ask", "sum", "next"} : Moved(to)
    BY <1>3 DEF ObserveScreen, ProposeNextOperation, ExecuteAtOnce, GoesOn, Goes, Ends, Loops
  <2> QED BY <1>m, <2>1
<1>4. ASSUME NEW kind \in {"approval", "input"}, NEW st, Request(t, kind, st) PROVE AgentInv'
  BY <1>0, <1>4 DEF Request, Goes, Loops, AgentInv, PerTask, AnswersAwaited, YesIsForThisStep, RunsWhatWasApproved
<1>5. CASE Answered(t)
  <2>1. loop[t] \in {"approval", "input"} /\ decision[t] # "none"
    BY <1>5 DEF Answered
  <2>2. pending[t] = "none" /\ UNCHANGED <<step, pending, ran>> /\ decision' = [decision EXCEPT ![t] = "none"]
    BY <1>5, <2>1 DEF Answered, Ends, AgentInv, AnswersAwaited
  <2>3. \E to \in {"end", "next", "execute"} :
          loop' = [loop EXCEPT ![t] = to] /\ (to = "execute" => decision[t] = "approved" /\ ~cancelled[t])
    BY <1>5 DEF Answered, Ends, Goes
  <2>4. PerTask' /\ AnswersAwaited'
    BY <1>0, <2>2, <2>3 DEF Loops, AgentInv, PerTask, AnswersAwaited
  <2>5. YesIsForThisStep' /\ RunsWhatWasApproved'
    BY <1>0, <2>2, <2>3 DEF AgentInv, PerTask, YesIsForThisStep, RunsWhatWasApproved
  <2> QED BY <2>4, <2>5 DEF AgentInv
<1>6. ASSUME NEW ok \in BOOLEAN, ExecutePending(t, ok) PROVE AgentInv'
  BY <1>0, <1>6 DEF ExecutePending, Goes, Loops, AgentInv, PerTask, AnswersAwaited, YesIsForThisStep, RunsWhatWasApproved
<1>7. CASE CompleteTask(t)
  <2>1. loop[t] = "sum" /\ Moved("end")
    BY <1>7 DEF CompleteTask, Goes, Loops
  <2> QED BY <1>m, <2>1
<1> QED BY <1>1, <1>2, <1>3, <1>4, <1>5, <1>6, <1>7 DEF LoopStep, RequestApproval, RequestUserInput

\* Every step keeps the invariant.
LEMMA NextAgentInv == AgentInv /\ [AgentNext]_agentVars => AgentInv'
<1> SUFFICES ASSUME AgentInv, [AgentNext]_agentVars PROVE AgentInv'
  OBVIOUS
<1>1. ASSUME NEW t \in Tasks, StartTask(t) PROVE AgentInv'
  <2>1. pending[t] = "none" /\ decision[t] = "none" /\ loop[t] = "none"
    BY <1>1 DEF StartTask, AgentInv, AnswersAwaited
  <2> QED BY <1>1, <2>1 DEF StartTask, Goes, Loops, AgentInv, PerTask, AnswersAwaited, YesIsForThisStep, RunsWhatWasApproved
<1>2. ASSUME NEW t \in Tasks, StoreAgent(t) PROVE AgentInv'
  BY <1>2, AgentBoundsAssumption
     DEF StoreAgent, Tasks, AgentInv, PerTask, AnswersAwaited, YesIsForThisStep, RunsWhatWasApproved
<1>3. CASE UNCHANGED agentVars
  BY <1>3 DEF agentVars, AgentInv, PerTask, AnswersAwaited, YesIsForThisStep, RunsWhatWasApproved
<1>4. CASE ApproveProposal \/ DenyProposal \/ SubmitResponse
  BY <1>4, TakeKeeps DEF ApproveProposal, DenyProposal, SubmitResponse
<1> QED BY <1>1, <1>2, <1>3, <1>4, CancelKeeps, LoopStepKeeps DEF AgentNext

LEMMA InitAgentInv == AgentInit => AgentInv
BY AgentBoundsAssumption DEF AgentInit, Loops, AgentInv, PerTask, AnswersAwaited, YesIsForThisStep, RunsWhatWasApproved

\* The task runner of agent/mod.rs, for any number of tasks, keeps its answers
\* as AgentInv says.
THEOREM AgentInvariance == AgentSpec => []AgentInv
BY InitAgentInv, NextAgentInv, PTL DEF AgentSpec

\* What a task does to the machine was approved in its own step before the
\* task was cancelled (execute_pending), whatever tasks are started beside it
\* and whenever a cancel meets an answer.
THEOREM OnlyApprovedRuns == AgentSpec => []RunsWhatWasApproved
<1>1. AgentInv => RunsWhatWasApproved
  BY DEF AgentInv
<1> QED BY <1>1, AgentInvariance, PTL

\* The types that AgentTypeOK adds to the invariant: a loop leaves the plan with
\* its first step, and ends with a final status.
TaskTyped ==
  /\ DOMAIN steps = Tasks /\ DOMAIN taskStatus = Tasks
  /\ starting \subseteq Tasks /\ shown \in 0..MaxTasks
  /\ \A t \in Tasks : /\ steps[t] \in 0..MaxSteps /\ step[t] <= steps[t]
                      /\ loop[t] \in {"none", "plan"} => step[t] = 0
                      /\ loop[t] = "end" => taskStatus[t] \in Final

LEMMA LoopStepTyped ==
  ASSUME AgentInv, TaskTyped, NEW t \in Tasks, LoopStep(t)
  PROVE  TaskTyped'
<1>0. step \in [Tasks -> Nat] /\ DOMAIN loop = Tasks /\ t \in 1..MaxTasks /\ starting' = starting
  BY DEF LoopStep, AgentInv, PerTask, Tasks
<1>1. ASSUME Ends(t) PROVE TaskTyped'
  <2>1. /\ loop' = [loop EXCEPT ![t] = "end"] /\ UNCHANGED <<step, steps, shown>>
        /\ \E st \in Final : taskStatus' = [taskStatus EXCEPT ![t] = st]
    BY <1>1 DEF Ends, Goes, Says, Final
  <2> QED BY <1>0, <2>1 DEF TaskTyped
<1>2. ASSUME NEW to \in Loops \ {"none", "plan", "end"}, Goes(t, to), UNCHANGED <<step, steps>>,
             taskStatus' = taskStatus \/ (\E st : Says(t, st)), shown' \in {shown, t}
      PROVE  TaskTyped'
  <2>1. /\ loop' = [loop EXCEPT ![t] = to] /\ to \notin {"none", "plan", "end"} /\ shown' \in 0..MaxTasks
        /\ DOMAIN taskStatus' = Tasks /\ \A u \in Tasks \ {t} : taskStatus'[u] = taskStatus[u]
    BY <1>0, <1>2 DEF Goes, Says, TaskTyped
  <2> QED BY <1>0, <1>2, <2>1 DEF TaskTyped
<1>3. ASSUME NEW n \in 0..MaxSteps, PlanTask(t, n) PROVE TaskTyped'
  <2>1. CASE loop[t] = "plan" /\ Goes(t, "next") /\ steps' = [steps EXCEPT ![t] = n] /\ UNCHANGED <<step, taskStatus, shown>>
    BY <1>0, <2>1 DEF Goes, TaskTyped
  <2> QED BY <1>1, <1>3, <2>1 DEF PlanTask
<1>4. ASSUME NEW at \in {"ask", "observe", "propose"}, NextStep(t, at) PROVE TaskTyped'
  <2>1. CASE /\ step[t] < steps[t] /\ Goes(t, at) /\ step' = [step EXCEPT ![t] = @ + 1] /\ Says(t, "Executing")
             /\ UNCHANGED <<steps, shown>>
    <3>1. step[t] \in Nat /\ steps[t] \in Nat /\ step[t] + 1 <= steps[t]
      BY <1>0, <2>1 DEF TaskTyped
    <3>2. loop' = [loop EXCEPT ![t] = at] /\ taskStatus' = [taskStatus EXCEPT ![t] = "Executing"]
      BY <2>1 DEF Goes, Says
    <3> QED BY <1>0, <2>1, <3>1, <3>2 DEF TaskTyped
  <2>2. CASE Goes(t, "sum") /\ UNCHANGED <<step, steps, taskStatus, shown>>
    BY <1>2, <2>2 DEF Loops
  <2> QED BY <1>1, <1>4, <2>1, <2>2 DEF NextStep
<1>5. CASE ObserveScreen(t) \/ ProposeNextOperation(t) \/ ExecuteAtOnce(t)
  <2>1. Ends(t) \/ \E to \in {"propose", "auto", "request", "ask", "sum", "next"} :
                     Goes(t, to) /\ UNCHANGED <<step, steps, taskStatus, shown>>
    BY <1>5 DEF ObserveScreen, ProposeNextOperation, ExecuteAtOnce, GoesOn
  <2> QED BY <1>1, <1>2, <2>1 DEF Loops
<1>6. CASE RequestApproval(t) \/ RequestUserInput(t)
  <2>1. \E to \in {"approval", "input"} : \E st : Goes(t, to) /\ Says(t, st) /\ UNCHANGED <<step, steps>> /\ shown' \in {shown, t}
    BY <1>6 DEF RequestApproval, RequestUserInput, Request, WindowHears
  <2> QED BY <1>2, <2>1 DEF Loops
<1>7. CASE Answered(t)
  <2>1. Ends(t) \/ \E to \in {"execute", "next"} : Goes(t, to) /\ UNCHANGED <<step, steps, taskStatus, shown>>
    BY <1>7 DEF Answered
  <2> QED BY <1>1, <1>2, <2>1 DEF Loops
<1>8. ASSUME NEW ok \in BOOLEAN, ExecutePending(t, ok) PROVE TaskTyped'
  <2>1. CASE Goes(t, "next") /\ UNCHANGED <<step, steps, taskStatus, shown>>
    BY <1>2, <2>1 DEF Loops
  <2>2. CASE Goes(t, "end") /\ UNCHANGED <<step, steps, shown>> /\ Says(t, IF cancelled[t] THEN "Cancelled" ELSE "Failed")
    <3>1. /\ loop' = [loop EXCEPT ![t] = "end"]
          /\ \E st \in Final : taskStatus' = [taskStatus EXCEPT ![t] = st]
      BY <2>2 DEF Goes, Says, Final
    <3> QED BY <1>0, <2>2, <3>1 DEF TaskTyped
  <2> QED BY <1>8, <2>1, <2>2 DEF ExecutePending
<1>9. CASE CompleteTask(t)
  <2>1. loop' = [loop EXCEPT ![t] = "end"] /\ taskStatus' = [taskStatus EXCEPT ![t] = "Completed"] /\ UNCHANGED <<step, steps, shown>>
    BY <1>9 DEF CompleteTask, Goes, Says
  <2> QED BY <1>0, <2>1 DEF TaskTyped, Final
<1> QED BY <1>3, <1>4, <1>5, <1>6, <1>7, <1>8, <1>9 DEF LoopStep

LEMMA NextTaskTyped == AgentInv /\ TaskTyped /\ [AgentNext]_agentVars => TaskTyped'
<1> SUFFICES ASSUME AgentInv, TaskTyped, [AgentNext]_agentVars PROVE TaskTyped'
  OBVIOUS
<1>1. ASSUME NEW t \in Tasks, StartTask(t) PROVE TaskTyped'
  BY <1>1 DEF StartTask, Goes, TaskTyped, AgentInv, PerTask
<1>2. ASSUME NEW t \in Tasks, StoreAgent(t) PROVE TaskTyped'
  BY <1>2 DEF StoreAgent, TaskTyped
<1>3. ASSUME NEW t \in Tasks, CancelRest(t) PROVE TaskTyped'
  <2>1. taskStatus' = [taskStatus EXCEPT ![t] = "Cancelled"] /\ UNCHANGED <<loop, step, steps, starting, shown>>
    BY <1>3 DEF CancelRest, Says
  <2> QED BY <2>1 DEF TaskTyped, Final
<1>4. CASE ApproveProposal \/ DenyProposal \/ SubmitResponse \/ CancelFlag \/ UNCHANGED agentVars
  <2>1. UNCHANGED <<loop, step, steps, taskStatus, starting, shown>>
    BY <1>4 DEF ApproveProposal, DenyProposal, SubmitResponse, Take, CancelFlag, agentVars
  <2> QED BY <2>1 DEF TaskTyped
<1> QED BY <1>1, <1>2, <1>3, <1>4, LoopStepTyped DEF AgentNext

-----------------------------------------------------------------------------
(* The rest of the chat's types.                                            *)

SetupTyped ==
  /\ progress \in {"not_started", "installing", "installed", "ready", "error"}
  /\ setup \in {"none", "approval", "installing", "error"} /\ setupBusy = (setup = "installing")
  /\ setupStarts \in 0..turnId /\ (confBusy => conf # 0)

LEMMA NextSetupTyped == TurnInv /\ SetupTyped /\ [ChatNext]_chatVars => SetupTyped'
<1> SUFFICES ASSUME TurnInv, SetupTyped, [ChatNext]_chatVars PROVE SetupTyped'
  OBVIOUS
<1>0. turnId \in Nat /\ setupStarts \in Nat /\ setupStarts <= turnId
  BY TurnsAssumption DEF TurnInv, TurnTyped, SetupTyped
<1>1. CASE SendMessage
  <2>1. UNCHANGED <<setupStarts, progress>> /\ conf' = 0 /\ confBusy' = FALSE /\ setupBusy' = (setup' = "installing")
    BY <1>1 DEF SendMessage
  <2>2. turnId' \in {turnId, turnId + 1} /\ setup' \in {"none", "approval", "installing", "error"}
    BY <1>1 DEF SendMessage, Abandon, StartTurn, SetupStage
  <2> QED BY <1>0, <2>1, <2>2 DEF SetupTyped
<1>2. CASE ConfirmTask \/ CancelTask \/ (\E endsRun \in BOOLEAN : StopTasks(endsRun))
  <2>1. UNCHANGED <<setup, setupBusy, setupStarts, progress>> /\ turnId' = turnId + 1 /\ (confBusy' => conf' # 0)
    BY <1>2 DEF ConfirmTask, CancelTask, StopTasks, Abandon, setupVars, pendingVars, SetupTyped
  <2> QED BY <1>0, <2>1 DEF SetupTyped
<1>3. CASE RunEnds \/ UNCHANGED chatVars
  BY <1>3 DEF RunEnds, chatVars, setupVars, pendingVars, SetupTyped
<1>4. ASSUME NEW id \in 1..MaxTurns, NEW kind \in Kinds, TurnAnswered(id, kind) PROVE SetupTyped'
  <2>1. UNCHANGED <<setup, setupBusy, setupStarts, progress, turnId, confBusy>> /\ conf' \in {id, conf}
    BY <1>4 DEF TurnAnswered, setupVars, pendingVars
  <2> QED BY <2>1 DEF SetupTyped
<1>5. ASSUME NEW id \in 1..MaxTurns, NEW ok \in BOOLEAN, TaskDispatched(id, ok) PROVE SetupTyped'
  BY <1>5 DEF TaskDispatched, setupVars, pendingVars, SetupTyped
<1>6. CASE BeginSetup
  <2>1. /\ setup' = "installing" /\ setupBusy' = TRUE /\ setupStarts' = setupStarts + 1 /\ turnId' = turnId + 1
        /\ UNCHANGED <<conf, confBusy, progress>>
    BY <1>6 DEF BeginSetup, Abandon
  <2>2. setupBusy' = (setup' = "installing")
    BY <2>1
  <2>3. setupStarts' \in 0..turnId'
    BY <1>0, <2>1
  <2> QED BY <2>1, <2>2, <2>3 DEF SetupTyped
<1>7. CASE CancelSetup \/ Replay
  <2>1. /\ setup' = "none" /\ setupBusy' = FALSE /\ turnId' = turnId + 1 /\ UNCHANGED <<setupStarts, progress>>
        /\ (UNCHANGED <<conf, confBusy>> \/ confBusy' = FALSE)
    BY <1>7 DEF CancelSetup, Replay, Abandon, StartTurn
  <2>2. setupBusy' = (setup' = "installing")
    BY <2>1
  <2>3. setupStarts' \in 0..turnId'
    BY <1>0, <2>1
  <2> QED BY <2>1, <2>2, <2>3 DEF SetupTyped
<1>8. CASE FollowProgress
  BY <1>8 DEF FollowProgress, SetupStage, SetupTyped
<1>9. CASE RuntimeStops \/ (\E ok \in BOOLEAN : InstallDone(ok))
  <2>1. UNCHANGED <<turnId, conf, confBusy, setup, setupBusy, setupStarts>> /\ progress' \in {progress, "ready", "error"}
    BY <1>9 DEF RuntimeStops, InstallDone, pendingVars
  <2> QED BY <2>1 DEF SetupTyped
<1>10. ASSUME NEW ok \in BOOLEAN, StartAnswered(ok) PROVE SetupTyped'
  <2>1. setupStarts' \in 0..turnId /\ UNCHANGED <<turnId, conf, confBusy>>
    BY <1>0, <1>10 DEF StartAnswered
  <2>2. CASE UNCHANGED <<setup, setupBusy>> /\ progress' \in {"installing", "ready", "installed"}
    BY <2>1, <2>2 DEF SetupTyped
  <2>3. CASE progress' = progress /\ setup' \in {"none", "error"} /\ setupBusy' = FALSE
    BY <2>1, <2>3 DEF SetupTyped
  <2> QED BY <1>10, <2>2, <2>3 DEF StartAnswered, pendingVars
<1> QED BY <1>1, <1>2, <1>3, <1>4, <1>5, <1>6, <1>7, <1>8, <1>9, <1>10 DEF ChatNext

-----------------------------------------------------------------------------
(* The updater: Updates.                                                    *)

\* What is read, kept and installed is a release that was published; the
\* updater holds one from the download on.
UpdatesInv ==
  /\ release \in 1..MaxReleases /\ version \in 1..MaxReleases /\ relCache.n \in 0..release
  /\ DOMAIN request = Clients /\ \A c \in Clients : request[c].read.n \in 0..release
  /\ handle \in [n : 0..MaxReleases, at : {"none", "open", "downloaded"}]
  /\ handle # NoHandle => handle.n > 0
  /\ upd \in {"downloading", "installing"} => handle.n > 0
  /\ timer \in {"set", "cleared", "fired"}
  /\ upd \in {"idle", "checking", "downloading", "downloaded", "upToDate", "error", "installing"}
  /\ checkBusy = TRUE => upd \in {"checking", "downloading"}
  /\ upd \in {"checking", "downloading"} => checkBusy = TRUE
  /\ checkBusy \in {TRUE, FALSE}

\* One request of the feed moves on.
LEMMA RequestTyped ==
  ASSUME UpdatesInv, NEW c, NEW at, NEW read, read.n \in 0..release,
         request' = [request EXCEPT ![c] = [at |-> at, read |-> read]], release' = release
  PROVE  DOMAIN request' = Clients /\ \A d \in Clients : request'[d].read.n \in 0..release'
BY DEF UpdatesInv

LEMMA AskTyped ==
  ASSUME UpdatesInv, NEW c, AskFeed(c), release' = release
  PROVE  DOMAIN request' = Clients /\ \A d \in Clients : request'[d].read.n \in 0..release'
<1>1. release \in Nat /\ relCache.n \in 0..release /\ NoRelease.n \in 0..release
  BY ReleasesAssumption DEF UpdatesInv, NoRelease
<1>2. \/ request' = [request EXCEPT ![c] = [at |-> "answer", read |-> relCache]]
      \/ request' = [request EXCEPT ![c] = [at |-> "github", read |-> NoRelease]]
  BY DEF AskFeed
<1> QED BY <1>1, <1>2, RequestTyped

LEMMA NextUpdatesInv == UpdatesInv /\ [UpdatesNext]_updatesVars => UpdatesInv'
<1> SUFFICES ASSUME UpdatesInv, [UpdatesNext]_updatesVars PROVE UpdatesInv'
  OBVIOUS
<1> USE ReleasesAssumption
<1>0. release \in Nat /\ version \in Nat /\ MaxReleases \in Nat
  BY DEF UpdatesInv
<1>f. ASSUME UNCHANGED <<windowVars, timer>>, release' \in 1..MaxReleases, relCache'.n \in 0..release',
             DOMAIN request' = Clients, \A c \in Clients : request'[c].read.n \in 0..release'
      PROVE  UpdatesInv'
  BY <1>f DEF UpdatesInv, windowVars
<1>1. CASE PublishRelease \/ UploadAssets
  <2>1. UNCHANGED <<relCache, request, windowVars, timer>> /\ release' \in {release, release + 1} /\ release' \in 1..MaxReleases
    BY <1>0, <1>1 DEF PublishRelease, UploadAssets, UpdatesInv
  <2>2. \A n \in 0..release : n \in 0..release'
    BY <1>0, <2>1
  <2> QED BY <1>f, <2>1, <2>2 DEF UpdatesInv
<1>2. CASE OtherAsks
  BY <1>2, <1>f, AskTyped DEF OtherAsks, serverVars, UpdatesInv
<1>3. ASSUME NEW c \in Clients, FetchRelease(c) PROVE UpdatesInv'
  <2>1. Latest.n \in 0..release /\ UNCHANGED <<release, relCache>>
    BY <1>0, <1>3 DEF Latest, FetchRelease, serverVars
  <2>2. DOMAIN request' = Clients /\ \A d \in Clients : request'[d].read.n \in 0..release'
    BY <1>3, <2>1, RequestTyped DEF FetchRelease
  <2> QED BY <1>3, <1>f, <2>1, <2>2 DEF FetchRelease, UpdatesInv
<1>4. ASSUME NEW c \in Clients, NEW ok \in BOOLEAN, CacheRelease(c, ok) PROVE UpdatesInv'
  <2>1. PICK read : read.n \in 0..release /\ request' = [request EXCEPT ![c] = [at |-> "answer", read |-> read]]
    <3>1. request[c].read.n \in 0..release /\ NoRelease.n \in 0..release
      BY <1>0 DEF UpdatesInv, NoRelease
    <3>2. request' = [request EXCEPT ![c] = [at |-> "answer", read |-> IF ok THEN request[c].read ELSE NoRelease]]
      BY <1>4 DEF CacheRelease, UpdatesInv
    <3> QED BY <3>1, <3>2
  <2>2. release' = release /\ relCache'.n \in 0..release'
    BY <1>4 DEF CacheRelease, UpdatesInv
  <2>3. DOMAIN request' = Clients /\ \A d \in Clients : request'[d].read.n \in 0..release'
    BY <2>1, <2>2, RequestTyped
  <2> QED BY <1>4, <1>f, <2>2, <2>3 DEF CacheRelease, UpdatesInv
<1>5. CASE CacheExpires
  <2>1. UNCHANGED <<release, request, windowVars, timer>> /\ relCache'.n \in 0..release
    BY <1>5, <1>0 DEF CacheExpires, NoRelease
  <2> QED BY <1>f, <2>1 DEF UpdatesInv
<1>6. CASE RenderAgain
  BY <1>6 DEF RenderAgain, serverVars, windowVars, UpdatesInv
<1>7. CASE BackgroundCheck \/ ManualCheck
  <2>1. /\ checkBusy' = TRUE /\ upd' = "checking" /\ AskFeed("desktop")
        /\ UNCHANGED <<release, relCache, handle, version>> /\ timer' \in {timer, "fired"}
    BY <1>7 DEF BackgroundCheck, ManualCheck, RunCheck, serverVars
  <2>2. DOMAIN request' = Clients /\ \A d \in Clients : request'[d].read.n \in 0..release'
    BY <2>1, AskTyped
  <2> QED BY <2>1, <2>2 DEF UpdatesInv
<1>8. CASE CheckAnswered
  <2>1. UNCHANGED <<release, relCache, version, timer>>
    BY <1>8 DEF CheckAnswered, serverVars
  <2>2. DOMAIN request' = Clients /\ \A d \in Clients : request'[d].read.n \in 0..release'
    <3>1. NoRelease.n \in 0..release
      BY <1>0 DEF NoRelease
    <3> QED BY <1>8, <2>1, <3>1, RequestTyped DEF CheckAnswered
  <2>3. PICK n \in 0..release :
          \/ n > version /\ Replace(n, "open") /\ upd' = "downloading" /\ UNCHANGED checkBusy
          \/ handle' = NoHandle /\ upd' \in {"error", "upToDate"} /\ checkBusy' = FALSE
    <3>1. FeedAnswer(request["desktop"].read) \in 0..release
      BY <1>0 DEF FeedAnswer, Manifest, UpdatesInv, Clients
    <3> QED BY <1>8, <3>1 DEF CheckAnswered
  <2>4. checkBusy = TRUE
    BY <1>8 DEF CheckAnswered, UpdatesInv
  <2>5. CASE n > version /\ Replace(n, "open") /\ upd' = "downloading" /\ UNCHANGED checkBusy
    <3>1. n > 0 /\ n \in 0..MaxReleases
      BY <1>0, <2>5 DEF UpdatesInv
    <3>2. handle' = [n |-> n, at |-> "open"]
      BY <2>5 DEF Replace
    <3> QED BY <2>1, <2>2, <2>4, <2>5, <3>1, <3>2 DEF UpdatesInv
  <2>6. CASE handle' = NoHandle /\ upd' \in {"error", "upToDate"} /\ checkBusy' = FALSE
    <3>1. handle' \in [n : 0..MaxReleases, at : {"none", "open", "downloaded"}]
      BY <1>0, <2>6 DEF NoHandle
    <3> QED BY <2>1, <2>2, <2>6, <3>1 DEF UpdatesInv
  <2> QED BY <2>3, <2>5, <2>6
<1>9. ASSUME NEW ok \in BOOLEAN, DownloadEnded(ok) PROVE UpdatesInv'
  <2>1. UNCHANGED <<release, relCache, request, version, timer>> /\ checkBusy' = FALSE /\ upd' \in {"downloaded", "error"}
    BY <1>9 DEF DownloadEnded, serverVars
  <2>2. \/ handle' = [n |-> handle.n, at |-> "downloaded"] /\ handle.n > 0
        \/ handle' = NoHandle
    BY <1>9 DEF DownloadEnded, Replace, UpdatesInv
  <2>3. handle' \in [n : 0..MaxReleases, at : {"none", "open", "downloaded"}] /\ (handle' # NoHandle => handle'.n > 0)
    BY <1>0, <2>2 DEF UpdatesInv, NoHandle
  <2> QED BY <2>1, <2>3 DEF UpdatesInv
<1>10. CASE RestartToUpdate \/ InstallFailed
  <2>1. UNCHANGED <<release, relCache, request, handle, checkBusy, version, timer>>
    BY <1>10 DEF RestartToUpdate, InstallFailed, serverVars
  <2>2. checkBusy = FALSE /\ upd' \in {"installing", "error"} /\ (upd' = "installing" => handle.n > 0)
    BY <1>10 DEF RestartToUpdate, InstallFailed, UpdatesInv
  <2> QED BY <2>1, <2>2 DEF UpdatesInv
<1>11. CASE Installed \/ Reopen
  <2>1. PICK n \in 1..MaxReleases : Launch(n)
    BY <1>0, <1>11 DEF Installed, Reopen, UpdatesInv
  <2>2. /\ UNCHANGED <<release, relCache>> /\ version' = n /\ upd' = "idle" /\ handle' = NoHandle
        /\ checkBusy' = FALSE /\ timer' = "set"
    BY <2>1 DEF Launch, serverVars
  <2>3. DOMAIN request' = Clients /\ \A d \in Clients : request'[d].read.n \in 0..release'
    <3>1. NoRelease.n \in 0..release
      BY <1>0 DEF NoRelease
    <3> QED BY <2>1, <2>2, <3>1, RequestTyped DEF Launch
  <2>4. handle' \in [n : 0..MaxReleases, at : {"none", "open", "downloaded"}]
    BY <1>0, <2>2 DEF NoHandle
  <2> QED BY <2>1, <2>2, <2>3, <2>4 DEF UpdatesInv
<1>12. CASE UNCHANGED updatesVars
  BY <1>12 DEF updatesVars, serverVars, windowVars, UpdatesInv
<1> QED BY <1>1, <1>2, <1>3, <1>4, <1>5, <1>6, <1>7, <1>8, <1>9, <1>10, <1>11, <1>12 DEF UpdatesNext

-----------------------------------------------------------------------------
(* All of them side by side: MCDesktop.                                     *)

DesktopInv ==
  /\ AssistantInv /\ OverlayInv /\ TurnInv /\ SetupTyped /\ AgentInv /\ TaskTyped /\ UpdatesInv

LEMMA DesktopInvTypes == DesktopInv => DesktopTypeOK
<1> SUFFICES ASSUME DesktopInv PROVE DesktopTypeOK
  OBVIOUS
<1>1. AssistantTypeOK
  <2>1. EnginesOK /\ ItemsTyped /\ HoldsTyped /\ CountsTyped /\ RefsTyped
    BY DEF DesktopInv, AssistantInv
  <2>2. items \in Seq(Item)
    BY <2>1, FunctionIsSeq DEF ItemsTyped
  <2> QED BY <2>1, <2>2 DEF AssistantTypeOK, EnginesOK, HoldsTyped, CountsTyped, RefsTyped, Item
<1>2. AgentTypeOK
  BY DEF DesktopInv, AgentInv, PerTask, AnswersAwaited, TaskTyped, AgentTypeOK
<1>3. ChatTypeOK
  BY TurnsAssumption DEF DesktopInv, TurnInv, TurnTyped, SetupTyped, ChatTypeOK
<1>4. UpdatesTypeOK
  <2>1. UpdatesInv
    BY DEF DesktopInv
  <2>2. release \in 1..MaxReleases /\ relCache.n <= release
    BY <2>1, ReleasesAssumption DEF UpdatesInv
  <2>3. checkBusy = (upd \in {"checking", "downloading"})
    <3>1. CASE checkBusy = TRUE
      BY <2>1, <3>1 DEF UpdatesInv
    <3>2. CASE checkBusy = FALSE
      <4>1. upd \notin {"checking", "downloading"}
        BY <2>1, <3>2 DEF UpdatesInv
      <4>2. (upd \in {"checking", "downloading"}) = FALSE
        BY <4>1
      <4> QED BY <3>2, <4>2
    <3> QED BY <2>1, <3>1, <3>2 DEF UpdatesInv
  <2> QED BY <2>1, <2>2, <2>3 DEF UpdatesInv, UpdatesTypeOK
<1> QED BY <1>1, <1>2, <1>3, <1>4 DEF DesktopTypeOK

\* Every component of the desktop starts and moves within its own module's steps.
LEMMA DesktopMoves ==
  /\ DesktopInit => AssistantInit /\ AgentInit /\ ChatInit /\ OverlayInit /\ UpdatesInit
  /\ [DesktopNext]_desktopVars =>
       /\ [AssistantNext]_assistantVars /\ [AgentNext]_agentVars /\ [ChatNext]_chatVars
       /\ [OverlayNext]_overlayVars /\ [UpdatesNext]_updatesVars
BY DEF DesktopInit, DesktopNext, desktopVars

LEMMA InitDesktopInv == DesktopInit => DesktopInv
<1> SUFFICES ASSUME DesktopInit PROVE DesktopInv
  OBVIOUS
<1>1. AssistantInit /\ AgentInit /\ ChatInit /\ OverlayInit /\ UpdatesInit
  BY DesktopMoves
<1>2. TaskTyped
  BY <1>1, AgentBoundsAssumption DEF AgentInit, TaskTyped
<1>3. SetupTyped
  <2>1. setupBusy = (setup = "installing")
    BY <1>1 DEF ChatInit
  <2>2. setupStarts \in 0..turnId
    BY <1>1 DEF ChatInit
  <2> QED BY <1>1, <2>1, <2>2 DEF ChatInit, SetupTyped
<1>4. UpdatesInv
  <2>1. /\ release \in 1..MaxReleases /\ version \in 1..MaxReleases /\ relCache.n \in 0..release
        /\ handle \in [n : 0..MaxReleases, at : {"none", "open", "downloaded"}]
    BY <1>1, ReleasesAssumption DEF UpdatesInit, NoRelease, NoHandle
  <2>2. DOMAIN request = Clients /\ \A c \in Clients : request[c].read.n \in 0..release
    BY <1>1 DEF UpdatesInit, NoRelease
  <2>3. handle = NoHandle /\ upd = "idle" /\ timer = "set" /\ checkBusy = FALSE
    BY <1>1 DEF UpdatesInit
  <2> QED BY <2>1, <2>2, <2>3 DEF UpdatesInv
<1> QED
  BY <1>1, <1>2, <1>3, <1>4, InitAssistantInv, InitOverlayInv, InitTurnInv, InitAgentInv DEF DesktopInv

LEMMA NextDesktopInv == DesktopInv /\ [DesktopNext]_desktopVars => DesktopInv'
BY DesktopMoves, NextAssistantInv, NextOverlayInv, NextTurnInv, NextSetupTyped, NextAgentInv, NextTaskTyped,
   NextUpdatesInv DEF DesktopInv

\* Side by side the components keep their invariants.
THEOREM DesktopInvariance == DesktopSpec => []DesktopInv
BY InitDesktopInv, NextDesktopInv, PTL DEF DesktopSpec

\* The types of the desktop's components, for any bounds, with what one part of
\* their state says of another: a pending interaction has a loop that waits for
\* it, an updater that is busy checks or downloads, and so on.
THEOREM DesktopTypes == DesktopSpec => []DesktopTypeOK
BY DesktopInvariance, DesktopInvTypes, PTL

\* What the desktop's components do side by side are behaviours of each, so
\* that the theorems above hold there.
THEOREM DesktopIsEachComponents == DesktopSpec => AssistantSpec /\ AgentSpec /\ ChatSpec /\ OverlaySpec
BY DesktopMoves, PTL DEF DesktopSpec, AssistantSpec, AgentSpec, ChatSpec, OverlaySpec
============================================================================
