--------------------------- MODULE PresenceProofs ---------------------------
(***************************************************************************)
(* Proofs about ScreenPresence, for any bounds: that no frame is left      *)
(* while the preview is off, that a connected device is shown as one, and  *)
(* that the API ends up with the stream state of the desktop, as long as   *)
(* no state was lost or overtaken.  Then the types of Dashboard.           *)
(***************************************************************************)
EXTENDS MCPresence, SequenceTheorems, TLAPS

Letter == [kind : {"hello", "on", "off", "frame", "ping"}, n : Nat]
HelloAwait == {"authenticate", "register", "presence"}
Await  == {"touch", "touched", "effect", "row"} \cup HelloAwait

Letters(q) == {q[i] : i \in DOMAIN q}
InTransit  == UNION {Letters(traffic[s]) : s \in SocketIds}

\* The state is of its type, and a socket that was not opened is empty.
LinkTyped ==
  /\ made \in 0 .. MaxSockets /\ link \in 0 .. made
  /\ captures \in [open : Nat, made : Nat]
  /\ held \subseteq SocketIds /\ work \subseteq [s : SocketIds, m : Letter, at : Await]
TrafficTyped ==
  /\ traffic \in [SocketIds -> Seq(Letter)]
  /\ \A s \in SocketIds : s > made => traffic[s] = <<>>
StateTyped ==
  /\ toggles \in Nat /\ newest \in [memory : Nat, row : Nat]
  /\ {streaming, connected} \subseteq BOOLEAN /\ memoryOn \in BOOLEAN /\ rowOn \in BOOLEAN /\ slipped \in BOOLEAN

\* A device that is connected, or is being set present by a hello, was heard of.
Greeting ==
  /\ connected => link # 0 /\ fresh
  /\ \A h \in work : h.at = "presence" => fresh

\* No stream state is newer than the streamer's; a handler of one has no
\* presence to set, and writes the row.
Numbered ==
  /\ \A m \in InTransit : IsState(m) => m.n <= toggles
  /\ \A h \in work : IsState(h.m) => h.m.n <= toggles /\ h.at \notin HelloAwait
  /\ \A h \in work : h.at = "row" => IsState(h.m)
  /\ newest.memory <= toggles /\ newest.row <= toggles

\* The newest stream state is the streamer's, wherever it is, and the memory and
\* the row have taken it or it is on its way to them.
IsLast(m) == IsState(m) /\ m.n = toggles
Speaks ==
  /\ \A m \in InTransit : IsLast(m) => (m.kind = "on" <=> streaming)
  /\ \A h \in work : IsLast(h.m) => (h.m.kind = "on" <=> streaming)
  /\ newest.memory = toggles => (memoryOn <=> streaming)
  /\ newest.row = toggles => (rowOn <=> streaming)
Awaited ==
  \/ \E m \in InTransit : IsLast(m)
  \/ /\ newest.memory = toggles \/ \E h \in work : IsLast(h.m) /\ h.at # "row"
     /\ newest.row = toggles \/ \E h \in work : IsLast(h.m)
Follows == slipped \/ (Speaks /\ Awaited)

\* The inductive invariant.
PresenceInv ==
  LinkTyped /\ TrafficTyped /\ StateTyped /\ Greeting /\ Numbered /\ Follows /\ FrameOnlyWhileOn

-----------------------------------------------------------------------------
\* The letters of a socket after it has taken one more.
LEMMA LettersAppend ==
  ASSUME NEW q \in Seq(Letter), NEW m \in Letter
  PROVE  Append(q, m) \in Seq(Letter) /\ Letters(Append(q, m)) = Letters(q) \cup {m}
<1>1. /\ Append(q, m) \in Seq(Letter) /\ Len(q) \in Nat /\ DOMAIN q = 1 .. Len(q)
      /\ DOMAIN Append(q, m) = 1 .. Len(q) + 1
      /\ Append(q, m)[Len(q) + 1] = m /\ \A i \in 1 .. Len(q) : Append(q, m)[i] = q[i]
  BY AppendProperties, LenProperties
<1>2. \A i : i \in 1 .. Len(q) + 1 <=> i \in 1 .. Len(q) \/ i = Len(q) + 1
  BY <1>1
<1> DEFINE p == Append(q, m)
<1> HIDE DEF p
<1>3. DOMAIN p = 1 .. Len(q) + 1 /\ p[Len(q) + 1] = m /\ (\A i \in 1 .. Len(q) : p[i] = q[i]) /\ DOMAIN q = 1 .. Len(q)
  BY <1>1 DEF p
<1>4. {p[i] : i \in DOMAIN p} = {q[i] : i \in DOMAIN q} \cup {m}
  BY <1>2, <1>3
<1> QED BY <1>1, <1>4 DEF Letters, p

\* Those it has after handing out its first.
LEMMA LettersTail ==
  ASSUME NEW q \in Seq(Letter), q # <<>>
  PROVE  /\ Head(q) \in Letter /\ Tail(q) \in Seq(Letter)
         /\ Letters(q) = Letters(Tail(q)) \cup {Head(q)}
<1>1. /\ Head(q) \in Letter /\ Tail(q) \in Seq(Letter) /\ Len(q) \in Nat /\ Len(q) > 0 /\ DOMAIN q = 1 .. Len(q)
      /\ Len(Tail(q)) = Len(q) - 1 /\ DOMAIN Tail(q) = 1 .. Len(Tail(q)) /\ Head(q) = q[1]
      /\ \A i \in 1 .. Len(Tail(q)) : Tail(q)[i] = q[i + 1]
  BY HeadTailProperties, LenProperties, EmptySeq
<1> DEFINE p == Tail(q)
           n == Len(q)
<1> HIDE DEF p, n
<1>2. n \in Nat /\ n > 0 /\ DOMAIN q = 1 .. n /\ DOMAIN p = 1 .. n - 1 /\ \A i \in 1 .. n - 1 : p[i] = q[i + 1]
  BY <1>1 DEF p, n
<1>3. ASSUME NEW i \in 1 .. n PROVE i = 1 \/ (i - 1 \in 1 .. n - 1 /\ p[i - 1] = q[i])
  BY <1>2
<1>4. {q[i] : i \in DOMAIN q} = {p[i] : i \in DOMAIN p} \cup {q[1]}
  <2>1. ASSUME NEW i \in 1 .. n PROVE q[i] \in {p[j] : j \in 1 .. n - 1} \cup {q[1]}
    BY <1>3
  <2>2. ASSUME NEW i \in 1 .. n - 1 PROVE p[i] \in {q[j] : j \in 1 .. n}
    <3>1. i + 1 \in 1 .. n /\ p[i] = q[i + 1]
      BY <1>2
    <3> QED BY <3>1
  <2>3. q[1] \in {q[j] : j \in 1 .. n}
    BY <1>2
  <2>4. DOMAIN q = 1 .. n /\ DOMAIN p = 1 .. n - 1
    BY <1>2
  <2> QED BY <2>1, <2>2, <2>3, <2>4
<1> QED BY <1>1, <1>4 DEF Letters, p

\* The letters on their way when the queue of one socket changes.
LEMMA TransitOne ==
  ASSUME TrafficTyped, NEW s \in SocketIds, NEW q, traffic' = [traffic EXCEPT ![s] = q]
  PROVE  /\ InTransit' \subseteq InTransit \cup Letters(q)
         /\ Letters(q) \subseteq InTransit'
         /\ InTransit \subseteq InTransit' \cup Letters(traffic[s])
<1>1. traffic'[s] = q /\ \A r \in SocketIds \ {s} : traffic'[r] = traffic[r]
  BY DEF TrafficTyped
<1>2. \A r \in SocketIds \ {s} : Letters(traffic'[r]) = Letters(traffic[r])
  BY <1>1
<1>3. Letters(traffic'[s]) = Letters(q)
  BY <1>1
<1>4. InTransit' = UNION {Letters(traffic'[r]) : r \in SocketIds}
  BY DEF InTransit, Letters
<1> QED BY <1>2, <1>3, <1>4 DEF InTransit

\* What is on its way are letters, those of every socket.
LEMMA TransitTyped == TrafficTyped => InTransit \subseteq Letter /\ \A s \in SocketIds : Letters(traffic[s]) \subseteq InTransit
BY DEF TrafficTyped, InTransit, Letters

\* Nothing is on its way when no socket has a letter.
LEMMA TransitEmpty == TrafficTyped /\ (\A s \in SocketIds : traffic[s] = <<>>) => InTransit = {}
BY DEF InTransit, Letters

-----------------------------------------------------------------------------
\* A step that neither switches the stream nor applies a stream state, and in
\* which every state goes on towards the memory and the row, or has slipped.
LEMMA Carries ==
  ASSUME Numbered, Follows, StateTyped, UNCHANGED <<toggles, streaming, newest, memoryOn, rowOn>>,
         slipped => slipped',
         \A m \in InTransit' : IsState(m) => m \in InTransit,
         \A h \in work' : IsState(h.m) => h.at \notin HelloAwait /\ (h.m \in InTransit \/ \E g \in work : g.m = h.m),
         \A h \in work' : h.at = "row" => IsState(h.m),
         slipped' \/ \A m \in InTransit : IsState(m) => m \in InTransit' \/ \E h \in work' : h.m = m /\ h.at # "row",
         \A g \in work : IsState(g.m) => slipped' \/ \E h \in work' : h.m = g.m /\ (h.at = "row" => g.at = "row")
  PROVE  Numbered' /\ Follows'
<1>1. \A m : IsState(m) => (IsState(m)' <=> IsState(m))
  BY DEF IsState
<1>2. Numbered'
  BY DEF Numbered, IsState
<1>3. CASE slipped'
  BY <1>2, <1>3 DEF Follows
<1>4. CASE ~slipped'
  <2>0. Speaks /\ Awaited
    BY <1>4 DEF Follows
  <2>1. Speaks'
    BY <2>0 DEF Speaks, IsLast, IsState
  <2>2. Awaited'
    <3>1. CASE \E m \in InTransit : IsLast(m)
      BY <1>4, <3>1 DEF Awaited, IsLast, IsState
    <3>2. CASE ~ \E m \in InTransit : IsLast(m)
      <4>1. newest'.memory = toggles' \/ \E h \in work' : IsLast(h.m) /\ h.at # "row"
        BY <1>4, <2>0, <3>2 DEF Awaited, IsLast, IsState
      <4>2. newest'.row = toggles' \/ \E h \in work' : IsLast(h.m)
        BY <1>4, <2>0, <3>2 DEF Awaited, IsLast, IsState
      <4> QED BY <4>1, <4>2 DEF Awaited, IsLast, IsState
    <3> QED BY <3>1, <3>2
  <2> QED BY <1>2, <2>1, <2>2 DEF Follows
<1> QED BY <1>3, <1>4

-----------------------------------------------------------------------------
\* What a message of a socket becomes.
Taken(s, m) == [s |-> s, m |-> m, at |-> IF m.kind = "hello" THEN "authenticate" ELSE "touch"]
LEMMA ReceiveParts ==
  ASSUME LinkTyped, TrafficTyped, NEW s \in SocketIds, Receive(s)
  PROVE  \E m \in Letter, q \in Seq(Letter) :
           /\ traffic[s] # <<>> /\ Letters(traffic[s]) = Letters(q) \cup {m}
           /\ traffic' = [traffic EXCEPT ![s] = q]
           /\ \/ work' = work \cup {Taken(s, m)} /\ slipped' = slipped
              \/ work' = work /\ slipped' = (slipped \/ IsState(m))
<1>1. traffic[s] \in Seq(Letter) /\ traffic[s] # <<>>
  BY DEF TrafficTyped, Receive
<1> QED BY <1>1, LettersTail DEF Receive, Taken

\* The letters of a queue that was cut off.
LEMMA LettersCut ==
  ASSUME NEW q \in Seq(Letter), NEW k \in 0 .. Len(q)
  PROVE  /\ SubSeq(q, 1, k) \in Seq(Letter) /\ Letters(SubSeq(q, 1, k)) \subseteq Letters(q)
         /\ \A m \in Letters(q) : m \in Letters(SubSeq(q, 1, k)) \/ \E i \in k + 1 .. Len(q) : q[i] = m
<1> DEFINE p == SubSeq(q, 1, k)
           n == Len(q)
<1>1. n \in Nat /\ DOMAIN q = 1 .. n /\ k \in 0 .. n /\ (\A i \in 1 .. n : q[i] \in Letter)
  BY LenProperties, ElementOfSeq
<1>2. p \in Seq(Letter) /\ DOMAIN p = 1 .. k /\ \A i \in 1 .. k : p[i] = q[i]
  <2>1. \A i \in 1 .. k : q[i] \in Letter
    BY <1>1
  <2>2. 1 \in Int /\ k \in Int
    BY <1>1
  <2>3. p \in Seq(Letter) /\ Len(p) = (IF 1 <= k THEN k - 1 + 1 ELSE 0) /\ \A i \in 1 .. k - 1 + 1 : p[i] = q[1 + i - 1]
    BY <2>1, <2>2, SubSeqProperties
  <2>4. DOMAIN p = 1 .. Len(p)
    BY <2>3, LenProperties
  <2> HIDE DEF p, n
  <2>5. Len(p) = k
    BY <1>1, <2>3
  <2>6. \A i \in 1 .. k : i \in 1 .. k - 1 + 1 /\ 1 + i - 1 = i
    BY <1>1
  <2> QED BY <2>3, <2>4, <2>5, <2>6
<1> HIDE DEF p, n
<1>3. \A i \in 1 .. n : i \in 1 .. k \/ i \in k + 1 .. n
  BY <1>1
<1>4. \A i \in 1 .. k : i \in 1 .. n
  BY <1>1
<1>5. Letters(p) \subseteq Letters(q)
  BY <1>1, <1>2, <1>4 DEF Letters
<1>6. \A m \in Letters(q) : m \in Letters(p) \/ \E i \in k + 1 .. n : q[i] = m
  BY <1>1, <1>2, <1>3 DEF Letters
<1> QED BY <1>2, <1>5, <1>6 DEF p, n

\* The desktop's connection and the socket handlers of the API keep the types.
LEMMA LinkTypes ==
  ASSUME LinkTyped, TrafficTyped, StateTyped, PresenceNext
  PROVE  LinkTyped'
<1>0. MaxSockets \in Nat /\ made \in Nat
  BY PresenceBoundsAssumption DEF LinkTyped
<1>1. CASE OpenSocket
  BY <1>0, <1>1 DEF OpenSocket, LinkTyped, SocketIds
<1>2. CASE LoseSocket \/ QuitDesktop \/ SwitchStream \/ Capture \/ SendFrame \/ Ping \/ Silence
  <2>1. UNCHANGED <<made, held, work>> /\ link' \in {0, link}
    BY <1>2 DEF LoseSocket, QuitDesktop, SwitchStream, Capture, SendFrame, Ping, Silence, desktopSide
  <2>2. captures' \in [open : Nat, made : Nat]
    BY <1>2 DEF LoseSocket, QuitDesktop, SwitchStream, Capture, SendFrame, Ping, Silence, desktopSide, LinkTyped
  <2> QED BY <1>0, <2>1, <2>2 DEF LinkTyped
<1>3. ASSUME NEW s \in SocketIds, Receive(s) PROVE LinkTyped'
  <2>1. PICK m \in Letter : work' \in {work, work \cup {Taken(s, m)}}
    BY <1>3, ReceiveParts
  <2>2. Taken(s, m) \in [s : SocketIds, m : Letter, at : Await]
    BY DEF Await, HelloAwait, Taken
  <2>3. work' \subseteq [s : SocketIds, m : Letter, at : Await]
    BY <2>1, <2>2 DEF LinkTyped
  <2> QED BY <1>3, <2>3 DEF LinkTyped, Receive, desktopSide
<1>4. ASSUME NEW s \in SocketIds, SocketClosed(s) PROVE LinkTyped'
  BY <1>4 DEF LinkTyped, SocketClosed, desktopSide
<1>5. ASSUME NEW h \in work, Handle(h) PROVE LinkTyped'
  <2>1. h \in [s : SocketIds, m : Letter, at : Await]
    BY DEF LinkTyped
  <2>2. \A a \in Await : [h EXCEPT !.at = a] \in [s : SocketIds, m : Letter, at : Await]
    BY <2>1
  <2>3. \/ work' \subseteq work
        \/ \E a \in {"register", "presence", "touched", "effect", "row"} : work' = (work \ {h}) \cup {[h EXCEPT !.at = a]}
    BY <1>5 DEF Handle, Authenticate, Register, Touch, SetPresence, StreamState, StreamRow, FrameOrPing
  <2>4. work' \subseteq [s : SocketIds, m : Letter, at : Await]
    BY <2>2, <2>3 DEF Await, HelloAwait, LinkTyped
  <2> QED BY <1>5, <2>4 DEF LinkTyped, Handle, Authenticate, Register, Touch, SetPresence, StreamState, StreamRow, FrameOrPing, desktopSide
<1>6. CASE PresenceRestart
  BY <1>0, <1>6 DEF PresenceRestart, LinkTyped
<1> QED BY <1>1, <1>2, <1>3, <1>4, <1>5, <1>6 DEF PresenceNext

\* So do the queues of letters.
LEMMA TrafficTypes ==
  ASSUME LinkTyped, TrafficTyped, StateTyped, PresenceNext
  PROVE  TrafficTyped'
<1>0. MaxSockets \in Nat /\ made \in Nat /\ (link # 0 => link \in SocketIds /\ link <= made)
  BY PresenceBoundsAssumption DEF LinkTyped, SocketIds
<1>a. ASSUME NEW q \in Seq(Letter), link # 0, traffic' = [traffic EXCEPT ![link] = q], made' = made PROVE TrafficTyped'
  BY <1>0, <1>a DEF TrafficTyped, SocketIds
<1>b. ASSUME traffic' = traffic, made' = made PROVE TrafficTyped'
  BY <1>b DEF TrafficTyped
<1>1. CASE OpenSocket
  <2>1. <<[kind |-> "hello", n |-> 0]>> \in Seq(Letter)
    BY DEF Letter
  <2>2. made' = made + 1 /\ made' \in SocketIds /\ traffic' = [traffic EXCEPT ![made'] = <<[kind |-> "hello", n |-> 0]>>]
    BY <1>0, <1>1 DEF OpenSocket, SocketIds
  <2>3. \A s \in SocketIds : s > made' => s > made /\ s # made'
    BY <1>0, <2>2 DEF SocketIds
  <2> QED BY <2>1, <2>2, <2>3 DEF TrafficTyped
<1>2. CASE LoseSocket
  <2>1. PICK k \in 0 .. Len(traffic[link]) : traffic' = [traffic EXCEPT ![link] = SubSeq(@, 1, k)]
    BY <1>2 DEF LoseSocket
  <2>2. link # 0 /\ made' = made
    BY <1>2 DEF LoseSocket
  <2>3. SubSeq(traffic[link], 1, k) \in Seq(Letter)
    BY <1>0, <2>2, LettersCut DEF TrafficTyped
  <2> QED BY <1>a, <2>1, <2>2, <2>3
<1>3. CASE SwitchStream
  <2> DEFINE m == [kind |-> IF streaming THEN "off" ELSE "on", n |-> toggles + 1]
  <2>1. m \in Letter
    BY DEF Letter, StateTyped
  <2>2. link # 0 => Append(traffic[link], m) \in Seq(Letter)
    BY <1>0, <2>1, LettersAppend DEF TrafficTyped
  <2>3. made' = made /\ IF link # 0 THEN traffic' = [traffic EXCEPT ![link] = Append(@, m)] ELSE traffic' = traffic
    BY <1>3 DEF SwitchStream
  <2> QED BY <1>a, <1>b, <2>2, <2>3
<1>4. CASE SendFrame
  <2> DEFINE m == [kind |-> "frame", n |-> captures.made]
  <2>1. m \in Letter
    BY DEF Letter, LinkTyped
  <2>2. link # 0 => Append(traffic[link], m) \in Seq(Letter)
    BY <1>0, <2>1, LettersAppend DEF TrafficTyped
  <2>3. made' = made /\ IF link # 0 THEN traffic' = [traffic EXCEPT ![link] = Append(@, m)] ELSE traffic' = traffic
    BY <1>4 DEF SendFrame
  <2> QED BY <1>a, <1>b, <2>2, <2>3
<1>5. CASE Ping
  <2>1. <<[kind |-> "ping", n |-> 0]>> \in Seq(Letter)
    BY DEF Letter
  <2>2. made' = made /\ traffic' = [traffic EXCEPT ![link] = <<[kind |-> "ping", n |-> 0]>>]
    BY <1>5 DEF Ping, desktopSide
  <2>3. CASE link = 0
    <3>1. traffic' = traffic
      BY <2>2, <2>3 DEF TrafficTyped, SocketIds
    <3> QED BY <1>b, <2>2, <3>1
  <2> QED BY <1>a, <2>1, <2>2, <2>3
<1>6. CASE QuitDesktop \/ Capture \/ Silence
  BY <1>b, <1>6 DEF QuitDesktop, Capture, Silence, desktopSide
<1>7. ASSUME NEW s \in SocketIds, Receive(s) PROVE TrafficTyped'
  <2>1. PICK q \in Seq(Letter) : traffic' = [traffic EXCEPT ![s] = q] /\ traffic[s] # <<>>
    BY <1>7, ReceiveParts
  <2>2. made' = made
    BY <1>7 DEF Receive, desktopSide
  <2> QED BY <2>1, <2>2 DEF TrafficTyped
<1>8. ASSUME NEW s \in SocketIds, SocketClosed(s) PROVE TrafficTyped'
  BY <1>b, <1>8 DEF SocketClosed, desktopSide
<1>9. ASSUME NEW h \in work, Handle(h) PROVE TrafficTyped'
  BY <1>b, <1>9 DEF Handle, Authenticate, Register, Touch, SetPresence, StreamState, StreamRow, FrameOrPing, desktopSide
<1>10. CASE PresenceRestart
  <2>1. <<>> \in Seq(Letter)
    BY EmptySeq
  <2> QED BY <1>10, <2>1 DEF PresenceRestart, TrafficTyped
<1> QED BY <1>1, <1>2, <1>3, <1>4, <1>5, <1>6, <1>7, <1>8, <1>9, <1>10 DEF PresenceNext

\* So do the stream states.
LEMMA StateTypes ==
  ASSUME LinkTyped, StateTyped, PresenceNext
  PROVE  StateTyped'
<1>1. CASE OpenSocket \/ LoseSocket \/ QuitDesktop \/ SwitchStream \/ Capture \/ SendFrame \/ Ping \/ Silence
  <2>1. UNCHANGED <<newest, memoryOn, rowOn>>
    BY <1>1 DEF OpenSocket, LoseSocket, QuitDesktop, SwitchStream, Capture, SendFrame, Ping, Silence, desktopSide, screenSide
  <2>2. toggles' \in {toggles, toggles + 1}
    BY <1>1 DEF OpenSocket, LoseSocket, QuitDesktop, SwitchStream, Capture, SendFrame, Ping, Silence, desktopSide, screenSide
  <2>3. streaming' \in BOOLEAN
    BY <1>1 DEF OpenSocket, LoseSocket, QuitDesktop, SwitchStream, Capture, SendFrame, Ping, Silence, desktopSide, screenSide, StateTyped
  <2>5. connected' \in BOOLEAN
    BY <1>1 DEF OpenSocket, LoseSocket, QuitDesktop, SwitchStream, Capture, SendFrame, Ping, Silence, desktopSide, screenSide, StateTyped
  <2>4. slipped' \in BOOLEAN
    BY <1>1 DEF OpenSocket, LoseSocket, QuitDesktop, SwitchStream, Capture, SendFrame, Ping, Silence, desktopSide, screenSide, StateTyped
  <2> QED BY <2>1, <2>2, <2>3, <2>4, <2>5 DEF StateTyped
<1>2. ASSUME NEW s \in SocketIds, Receive(s) \/ SocketClosed(s) PROVE StateTyped'
  BY <1>2 DEF Receive, SocketClosed, desktopSide, screenSide, StateTyped
<1>3. ASSUME NEW h \in work, Handle(h) PROVE StateTyped'
  <2>1. h.m.n \in Nat
    BY DEF LinkTyped, Letter
  <2>2. toggles' = toggles /\ streaming' = streaming /\ connected' \in BOOLEAN /\ memoryOn' \in BOOLEAN /\ rowOn' \in BOOLEAN /\ slipped' \in BOOLEAN
    BY <1>3 DEF Handle, Authenticate, Register, Touch, SetPresence, StreamState, StreamRow, FrameOrPing, desktopSide, screenSide, StateTyped
  <2>3. \/ newest' = newest
        \/ newest' = [newest EXCEPT !.memory = h.m.n] \/ newest' = [newest EXCEPT !.row = h.m.n]
    BY <1>3 DEF Handle, Authenticate, Register, Touch, SetPresence, StreamState, StreamRow, FrameOrPing, desktopSide, screenSide
  <2> QED BY <2>1, <2>2, <2>3 DEF StateTyped
<1>4. CASE PresenceRestart
  <2>1. newest' = [newest EXCEPT !.memory = newest.row] /\ UNCHANGED <<toggles, streaming, rowOn>> /\ memoryOn' = rowOn
    BY <1>4 DEF PresenceRestart
  <2>2. slipped' \in BOOLEAN /\ connected' \in BOOLEAN
    BY <1>4 DEF PresenceRestart, StateTyped
  <2> QED BY <2>1, <2>2 DEF StateTyped
<1> QED BY <1>1, <1>2, <1>3, <1>4 DEF PresenceNext

\* No frame is kept while the preview is off.
LEMMA FrameKeeps ==
  ASSUME StateTyped, FrameOnlyWhileOn, PresenceNext
  PROVE  FrameOnlyWhileOn'
BY DEF FrameOnlyWhileOn, StateTyped, PresenceNext, OpenSocket, LoseSocket, QuitDesktop, SwitchStream, Capture, SendFrame, Ping, Silence,
   Receive, SocketClosed, Handle, Authenticate, Register, Touch, SetPresence, StreamState, StreamRow, FrameOrPing, PresenceRestart, screenSide

\* A connected device stays heard of.
LEMMA GreetingKeeps ==
  ASSUME LinkTyped, Greeting, PresenceNext
  PROVE  Greeting'
<1>1. CASE OpenSocket \/ LoseSocket \/ QuitDesktop \/ SwitchStream \/ Capture \/ SendFrame \/ Ping
  BY <1>1 DEF OpenSocket, LoseSocket, QuitDesktop, SwitchStream, Capture, SendFrame, Ping, Greeting, desktopSide
<1>2. ASSUME NEW s \in SocketIds, Receive(s) PROVE Greeting'
  <2>1. PICK m : work' \in {work, work \cup {Taken(s, m)}}
    BY <1>2 DEF Receive, Taken
  <2>2. Taken(s, m).at # "presence"
    BY DEF Taken
  <2> HIDE DEF Taken
  <2> QED BY <1>2, <2>1, <2>2 DEF Receive, Greeting, desktopSide
<1>3. ASSUME NEW s \in SocketIds, SocketClosed(s) PROVE Greeting'
  BY <1>3 DEF SocketClosed, Greeting, desktopSide
<1>4. ASSUME NEW h \in work, Handle(h) PROVE Greeting'
  <2>0. h \in [s : SocketIds, m : Letter, at : Await] /\ 0 \notin SocketIds
    BY DEF LinkTyped, SocketIds
  <2>1. CASE SetPresence(h)
    BY <1>4, <2>0, <2>1 DEF SetPresence, Greeting
  <2>2. CASE Register(h)
    BY <2>0, <2>2 DEF Register, Greeting, desktopSide
  <2>3. CASE Authenticate(h) \/ Touch(h) \/ StreamState(h) \/ StreamRow(h) \/ FrameOrPing(h)
    <3>1. UNCHANGED <<connected, link>> /\ (fresh => fresh')
      <4>1. CASE FrameOrPing(h)
        <5>1. fresh' = fresh \/ fresh' = (fresh \/ h.m.kind = "ping")
          BY <4>1 DEF FrameOrPing
        <5>2. fresh => fresh'
          BY <5>1, Zenon
        <5> QED BY <4>1, <5>2 DEF FrameOrPing, desktopSide
      <4>2. CASE Authenticate(h) \/ Touch(h) \/ StreamState(h) \/ StreamRow(h)
        BY <4>2 DEF Authenticate, Touch, StreamState, StreamRow, desktopSide
      <4> QED BY <2>3, <4>1, <4>2
    <3>2. work' \subseteq work \/ \E a \in {"register", "touched", "effect", "row"} : work' = (work \ {h}) \cup {[h EXCEPT !.at = a]}
      BY <2>3 DEF Authenticate, Touch, StreamState, StreamRow, FrameOrPing
    <3>3. \A a \in {"register", "touched", "effect", "row"} : [h EXCEPT !.at = a].at # "presence"
      BY <2>0
    <3>4. \A g \in work' : g.at = "presence" => g \in work
      BY <3>2, <3>3
    <3> QED BY <3>1, <3>4 DEF Greeting
  <2> QED BY <1>4, <2>1, <2>2, <2>3 DEF Handle
<1>5. CASE Silence
  <2>1. link = 0 /\ work = {} /\ UNCHANGED <<connected, link, work>>
    BY <1>5 DEF Silence, desktopSide
  <2>2. ~connected
    BY <2>1 DEF Greeting
  <2> QED BY <2>1, <2>2 DEF Greeting
<1>6. CASE PresenceRestart
  BY <1>6 DEF PresenceRestart, Greeting
<1> QED BY <1>1, <1>2, <1>3, <1>4, <1>5, <1>6 DEF PresenceNext

-----------------------------------------------------------------------------
\* The connection opens, breaks or is used for something else.
LEMMA LinkFollows ==
  ASSUME LinkTyped, TrafficTyped, StateTyped, Numbered, Follows,
         OpenSocket \/ LoseSocket \/ QuitDesktop \/ Capture \/ SendFrame \/ Ping \/ Silence
  PROVE  Numbered' /\ Follows'
<1>0. MaxSockets \in Nat /\ made \in Nat /\ (link # 0 => link \in SocketIds /\ traffic[link] \in Seq(Letter))
  BY PresenceBoundsAssumption DEF LinkTyped, SocketIds, TrafficTyped
<1>h. \A h \in work : (IsState(h.m) => h.at \notin HelloAwait) /\ (h.at = "row" => IsState(h.m))
  BY DEF Numbered
<1>a. ASSUME UNCHANGED <<toggles, streaming, newest, memoryOn, rowOn, work>>, slipped => slipped',
             \A m \in InTransit' : IsState(m) => m \in InTransit,
             slipped' \/ \A m \in InTransit : IsState(m) => m \in InTransit'
      PROVE  Numbered' /\ Follows'
  BY <1>a, <1>h, Carries
<1>b. ASSUME UNCHANGED traffic PROVE InTransit' = InTransit
  BY <1>b DEF InTransit, Letters
<1>1. CASE OpenSocket
  <2> DEFINE q == <<[kind |-> "hello", n |-> 0]>>
  <2>1. made + 1 \in SocketIds /\ traffic' = [traffic EXCEPT ![made + 1] = q] /\ traffic[made + 1] = <<>>
    BY <1>0, <1>1 DEF OpenSocket, SocketIds, TrafficTyped
  <2>2. \A m \in Letters(q) : ~IsState(m)
    BY DEF Letters, IsState
  <2>3. Letters(<<>>) = {}
    BY DEF Letters
  <2> HIDE DEF q
  <2>4. /\ \A m \in InTransit' : IsState(m) => m \in InTransit
        /\ \A m \in InTransit : IsState(m) => m \in InTransit'
    BY <2>1, <2>2, <2>3, TransitOne
  <2>5. UNCHANGED <<toggles, streaming, newest, memoryOn, rowOn, work, slipped>>
    BY <1>1 DEF OpenSocket, screenSide
  <2> QED BY <1>a, <2>4, <2>5
<1>2. CASE LoseSocket
  <2>1. PICK k \in 0 .. Len(traffic[link]) :
          /\ traffic' = [traffic EXCEPT ![link] = SubSeq(@, 1, k)]
          /\ slipped' = (slipped \/ \E i \in k + 1 .. Len(traffic[link]) : IsState(traffic[link][i]))
    BY <1>2 DEF LoseSocket
  <2>2. link \in SocketIds /\ traffic[link] \in Seq(Letter) /\ UNCHANGED <<toggles, streaming, newest, memoryOn, rowOn, work>>
    BY <1>0, <1>2 DEF LoseSocket
  <2> DEFINE q == SubSeq(traffic[link], 1, k)
  <2>3. /\ Letters(q) \subseteq Letters(traffic[link])
        /\ \A m \in Letters(traffic[link]) : m \in Letters(q) \/ \E i \in k + 1 .. Len(traffic[link]) : traffic[link][i] = m
    BY <2>2, LettersCut
  <2>4. traffic' = [traffic EXCEPT ![link] = q]
    BY <2>1
  <2> HIDE DEF q
  <2>5. InTransit' \subseteq InTransit
    BY <2>2, <2>3, <2>4, TransitOne, TransitTyped
  <2>6. \A m \in InTransit : m \in InTransit' \/ \E i \in k + 1 .. Len(traffic[link]) : traffic[link][i] = m
    BY <2>2, <2>3, <2>4, TransitOne
  <2>7. slipped' \/ \A m \in InTransit : IsState(m) => m \in InTransit'
    BY <2>1, <2>6
  <2>8. slipped => slipped'
    BY <2>1
  <2> QED BY <1>a, <2>2, <2>5, <2>7, <2>8
<1>3. CASE QuitDesktop
  <2>1. slipped' /\ UNCHANGED <<toggles, newest, work, traffic>>
    BY <1>3 DEF QuitDesktop
  <2>2. InTransit' = InTransit
    BY <1>b, <2>1
  <2> QED BY <2>1, <2>2 DEF Follows, Numbered, IsState
<1>4. CASE Capture \/ Silence
  <2>1. UNCHANGED <<toggles, streaming, newest, memoryOn, rowOn, work, slipped, traffic>>
    BY <1>4 DEF Capture, Silence, desktopSide, screenSide
  <2>2. InTransit' = InTransit
    BY <1>b, <2>1
  <2> QED BY <1>a, <2>1, <2>2
<1>5. CASE SendFrame
  <2>1. UNCHANGED <<toggles, streaming, newest, memoryOn, rowOn, work, slipped>>
    BY <1>5 DEF SendFrame, screenSide
  <2>2. CASE link = 0
    <3>1. InTransit' = InTransit
      BY <1>5, <1>b, <2>2 DEF SendFrame
    <3> QED BY <1>a, <2>1, <3>1
  <2>3. CASE link # 0
    <3> DEFINE m == [kind |-> "frame", n |-> captures.made]
    <3>1. m \in Letter /\ ~IsState(m)
      BY DEF Letter, LinkTyped, IsState
    <3>2. traffic' = [traffic EXCEPT ![link] = Append(traffic[link], m)]
      BY <1>5, <2>3 DEF SendFrame
    <3> HIDE DEF m
    <3>3. Letters(Append(traffic[link], m)) = Letters(traffic[link]) \cup {m}
      BY <1>0, <2>3, <3>1, LettersAppend
    <3>4. /\ \A l \in InTransit' : IsState(l) => l \in InTransit
          /\ \A l \in InTransit : IsState(l) => l \in InTransit'
      BY <1>0, <2>3, <3>1, <3>2, <3>3, TransitOne, TransitTyped
    <3> QED BY <1>a, <2>1, <3>4
  <2> QED BY <2>2, <2>3
<1>6. CASE Ping
  <2> DEFINE q == <<[kind |-> "ping", n |-> 0]>>
  <2>1. UNCHANGED <<toggles, streaming, newest, memoryOn, rowOn, work, slipped>> /\ traffic' = [traffic EXCEPT ![link] = q]
    BY <1>6 DEF Ping, desktopSide, screenSide
  <2>2. InTransit = {}
    BY <1>6, TransitEmpty DEF Ping
  <2>3. \A m \in Letters(q) : ~IsState(m)
    BY DEF Letters, IsState
  <2> HIDE DEF q
  <2>4. CASE link \in SocketIds
    <3>1. \A m \in InTransit' : ~IsState(m)
      BY <2>1, <2>2, <2>3, <2>4, TransitOne
    <3> QED BY <1>a, <2>1, <2>2, <3>1
  <2>5. CASE link \notin SocketIds
    <3>1. traffic' = traffic
      BY <2>1, <2>5 DEF TrafficTyped
    <3> QED BY <1>a, <1>b, <2>1, <3>1
  <2> QED BY <2>4, <2>5
<1> QED BY <1>1, <1>2, <1>3, <1>4, <1>5, <1>6

\* The streamer is switched: its new state is the last, and on its way unless
\* it has slipped.
LEMMA SwitchFollows ==
  ASSUME LinkTyped, TrafficTyped, StateTyped, Numbered, Follows, SwitchStream
  PROVE  Numbered' /\ Follows'
<1> DEFINE m == [kind |-> IF streaming THEN "off" ELSE "on", n |-> toggles + 1]
<1>0. /\ toggles \in Nat /\ toggles' = toggles + 1 /\ streaming' = ~streaming /\ streaming \in BOOLEAN
      /\ UNCHANGED <<newest, memoryOn, rowOn, work>>
  BY DEF SwitchStream, StateTyped
<1>1. m \in Letter /\ IsState(m) /\ m.n = toggles' /\ (m.kind = "on" <=> streaming')
  <2>1. m.kind = "on" <=> ~streaming
    OBVIOUS
  <2>2. m \in Letter /\ IsState(m) /\ m.n = toggles'
    BY <1>0 DEF Letter, IsState
  <2> QED BY <1>0, <2>1, <2>2
<1>2. InTransit \subseteq Letter /\ \A h \in work : h.m \in Letter
  BY TransitTyped DEF LinkTyped
<1>3. newest.memory \in Nat /\ newest.row \in Nat /\ newest.memory # toggles' /\ newest.row # toggles'
  BY <1>0 DEF Numbered, StateTyped
<1>4. \A h \in work : IsState(h.m) => h.m.n <= toggles' /\ h.m.n # toggles'
  BY <1>0, <1>2 DEF Numbered, Letter
<1>5. \A l \in InTransit : IsState(l) => l.n <= toggles' /\ l.n # toggles'
  BY <1>0, <1>2 DEF Numbered, Letter
<1>6. newest'.memory <= toggles' /\ newest'.row <= toggles'
  BY <1>0, <1>3 DEF Numbered
<1>7. CASE link = 0
  <2>1. slipped' /\ traffic' = traffic
    BY <1>7 DEF SwitchStream
  <2>2. InTransit' = InTransit
    BY <2>1 DEF InTransit, Letters
  <2>3. Numbered'
    BY <1>0, <1>4, <1>5, <1>6, <2>2 DEF Numbered, IsState
  <2> QED BY <2>1, <2>3 DEF Follows
<1>8. CASE link # 0
  <2>0. link \in SocketIds /\ traffic[link] \in Seq(Letter)
    BY <1>8, PresenceBoundsAssumption DEF LinkTyped, SocketIds, TrafficTyped
  <2>1. traffic' = [traffic EXCEPT ![link] = Append(traffic[link], m)]
    BY <1>8 DEF SwitchStream
  <2> HIDE DEF m
  <2>2. Letters(Append(traffic[link], m)) = Letters(traffic[link]) \cup {m}
    BY <1>1, <2>0, LettersAppend
  <2>3. InTransit' \subseteq InTransit \cup {m} /\ m \in InTransit'
    BY <2>0, <2>1, <2>2, TransitOne, TransitTyped
  <2>4. Numbered'
    <3>1. \A l \in InTransit' : IsState(l) => l.n <= toggles'
      BY <1>0, <1>1, <1>5, <2>3
    <3> QED BY <1>0, <1>2, <1>4, <1>6, <3>1 DEF Numbered, IsState
  <2>5. Speaks'
    <3>1. \A l \in InTransit' : IsState(l) /\ l.n = toggles' => (l.kind = "on" <=> streaming')
      BY <1>1, <1>5, <2>3
    <3>2. \A h \in work' : ~(IsState(h.m) /\ h.m.n = toggles')
      BY <1>0, <1>4
    <3>3. newest'.memory # toggles' /\ newest'.row # toggles'
      BY <1>0, <1>3
    <3> QED BY <3>1, <3>2, <3>3 DEF Speaks, IsLast, IsState
  <2>6. Awaited'
    BY <1>1, <2>3 DEF Awaited, IsLast, IsState
  <2> QED BY <2>4, <2>5, <2>6 DEF Follows
<1> QED BY <1>7, <1>8

\* A message reaches its handler, or a socket is closed.
LEMMA SocketFollows ==
  ASSUME LinkTyped, TrafficTyped, StateTyped, Numbered, Follows, NEW s \in SocketIds, Receive(s) \/ SocketClosed(s)
  PROVE  Numbered' /\ Follows'
<1>h. \A h \in work : (IsState(h.m) => h.at \notin HelloAwait) /\ (h.at = "row" => IsState(h.m))
  BY DEF Numbered
<1>0. UNCHANGED <<toggles, streaming, newest, memoryOn, rowOn>>
  BY DEF Receive, SocketClosed, desktopSide, screenSide
<1>1. CASE SocketClosed(s)
  <2>1. work' = work /\ traffic' = traffic /\ slipped' = slipped
    BY <1>1 DEF SocketClosed, screenSide
  <2>2. InTransit' = InTransit
    BY <2>1 DEF InTransit, Letters
  <2> QED BY <1>0, <1>h, <2>1, <2>2, Carries
<1>2. CASE Receive(s)
  <2>1. PICK m \in Letter, q \in Seq(Letter) :
          /\ Letters(traffic[s]) = Letters(q) \cup {m}
          /\ traffic' = [traffic EXCEPT ![s] = q]
          /\ \/ work' = work \cup {Taken(s, m)} /\ slipped' = slipped
             \/ work' = work /\ slipped' = (slipped \/ IsState(m))
    BY <1>2, ReceiveParts
  <2>2. InTransit' \subseteq InTransit /\ m \in InTransit
    BY <2>1, TransitOne, TransitTyped
  <2>3. InTransit \subseteq InTransit' \cup {m}
    BY <2>1, TransitOne
  <2>4. CASE work' = work \cup {Taken(s, m)} /\ slipped' = slipped
    <3>4. PICK g : g = Taken(s, m)
      OBVIOUS
    <3>5. g.m = m /\ g.at # "row" /\ (IsState(m) => g.at \notin HelloAwait)
      BY <3>4 DEF IsState, HelloAwait, Taken
    <3>6. work' = work \cup {g}
      BY <2>4, <3>4
    <3>7. \A h \in work' : IsState(h.m) => h.at \notin HelloAwait /\ (h.m \in InTransit \/ \E w \in work : w.m = h.m)
      BY <1>h, <2>2, <3>5, <3>6
    <3>10. \A h \in work' : h.at = "row" => IsState(h.m)
      BY <1>h, <3>5, <3>6
    <3>8. \A l \in InTransit : IsState(l) => l \in InTransit' \/ \E h \in work' : h.m = l /\ h.at # "row"
      BY <2>3, <3>5, <3>6
    <3>9. \A w \in work : IsState(w.m) => \E h \in work' : h.m = w.m /\ (h.at = "row" => w.at = "row")
      BY <3>6
    <3> QED BY <1>0, <2>2, <2>4, <3>7, <3>8, <3>9, <3>10, Carries
  <2>5. CASE work' = work /\ slipped' = (slipped \/ IsState(m))
    <3>1. slipped' \/ \A l \in InTransit : IsState(l) => l \in InTransit'
      BY <2>3, <2>5
    <3> QED BY <1>0, <1>h, <2>2, <2>5, <3>1, Carries
  <2> QED BY <2>1, <2>4, <2>5
<1> QED BY <1>1, <1>2

\* A handler makes a step.
LEMMA HandleFollows ==
  ASSUME LinkTyped, TrafficTyped, StateTyped, Numbered, Follows, NEW h \in work, Handle(h)
  PROVE  Numbered' /\ Follows'
<1>0. UNCHANGED <<toggles, streaming, traffic>>
  BY DEF Handle, Authenticate, Register, Touch, SetPresence, StreamState, StreamRow, FrameOrPing, desktopSide
<1>t. InTransit' = InTransit
  BY <1>0 DEF InTransit, Letters
<1>h. \A g \in work : IsState(g.m) => g.at \notin HelloAwait /\ g.m.n <= toggles
  BY DEF Numbered
<1>w. \A g \in work : g.at = "row" => IsState(g.m)
  BY DEF Numbered
<1>r. h \in [s : SocketIds, m : Letter, at : Await]
  BY DEF LinkTyped
<1>1. CASE Authenticate(h) \/ Register(h) \/ Touch(h) \/ SetPresence(h) \/ FrameOrPing(h)
  <2>0. UNCHANGED <<newest, memoryOn, rowOn, slipped>>
    BY <1>1 DEF Authenticate, Register, Touch, SetPresence, FrameOrPing, screenSide
  <2>1. ASSUME NEW a \in {"touched", "effect"} \cup HelloAwait, work' = (work \ {h}) \cup {[h EXCEPT !.at = a]},
               ~IsState(h.m) \/ a \notin HelloAwait
        PROVE  Numbered' /\ Follows'
    <3>0. a # "row"
      BY DEF HelloAwait
    <3>1. PICK g : g = [h EXCEPT !.at = a]
      OBVIOUS
    <3>2. g.m = h.m /\ g.at = a
      BY <1>r, <3>1
    <3>3. work' = (work \ {h}) \cup {g}
      BY <2>1, <3>1
    <3>4. \A w \in work' : IsState(w.m) => w.at \notin HelloAwait /\ (w.m \in InTransit \/ \E v \in work : v.m = w.m)
      BY <1>h, <2>1, <3>2, <3>3
    <3>5. \A w \in work : \E v \in work' : v.m = w.m /\ (v.at = "row" => w.at = "row")
      BY <3>0, <3>2, <3>3
    <3>6. \A w \in work' : w.at = "row" => IsState(w.m)
      BY <1>w, <3>0, <3>2, <3>3
    <3> QED BY <1>0, <1>t, <2>0, <3>4, <3>5, <3>6, Carries
  <2>2. ASSUME work' = work \ {h}, ~IsState(h.m) PROVE Numbered' /\ Follows'
    BY <1>0, <1>t, <1>h, <1>w, <2>0, <2>2, Carries
  <2>3. CASE Touch(h)
    BY <2>1, <2>3 DEF Touch, HelloAwait
  <2>6. CASE Authenticate(h)
    <3>1. ~IsState(h.m)
      BY <1>h, <2>6 DEF Authenticate, HelloAwait
    <3> QED BY <2>1, <2>2, <2>6, <3>1 DEF Authenticate, HelloAwait
  <2>7. CASE Register(h)
    <3>1. ~IsState(h.m)
      BY <1>h, <2>7 DEF Register, HelloAwait
    <3> QED BY <2>1, <2>2, <2>7, <3>1 DEF Register, HelloAwait
  <2>4. CASE SetPresence(h)
    <3>1. CASE h.at = "touched"
      BY <2>1, <2>4, <3>1 DEF SetPresence, HelloAwait
    <3>2. CASE h.at = "presence"
      BY <1>h, <2>2, <2>4, <3>2 DEF SetPresence, HelloAwait
    <3> QED BY <2>4, <3>1, <3>2 DEF SetPresence
  <2>5. CASE FrameOrPing(h)
    BY <2>2, <2>5 DEF FrameOrPing
  <2> QED BY <1>1, <2>3, <2>4, <2>5, <2>6, <2>7
<1>2. CASE StreamState(h)
  <2>1. PICK g : g = [h EXCEPT !.at = "row"]
    OBVIOUS
  <2>2. g.m = h.m /\ g.at = "row" /\ work' = (work \ {h}) \cup {g}
    BY <1>2, <1>r, <2>1 DEF StreamState
  <2>3. /\ IsState(h.m) /\ h.at = "effect" /\ h.m.n \in Nat /\ h.m.n <= toggles /\ toggles \in Nat
        /\ newest' = [newest EXCEPT !.memory = h.m.n] /\ slipped' = (slipped \/ newest.memory > h.m.n)
        /\ rowOn' = rowOn /\ newest \in [memory : Nat, row : Nat]
    BY <1>2, <1>h, <1>r DEF StreamState, StateTyped, Letter
  <2>4. newest'.memory = h.m.n /\ newest'.row = newest.row
    BY <2>3
  <2>5. memoryOn' <=> h.m.kind = "on"
    BY <1>2 DEF StreamState
  <2>6. Numbered'
    <3>1. \A w \in work' : (IsState(w.m) => w.m.n <= toggles /\ w.at \notin HelloAwait) /\ (w.at = "row" => IsState(w.m))
      BY <1>h, <1>w, <2>2, <2>3 DEF HelloAwait
    <3>2. newest'.memory <= toggles /\ newest'.row <= toggles
      BY <2>3, <2>4 DEF Numbered
    <3> QED BY <1>0, <1>t, <3>1, <3>2 DEF Numbered, IsState
  <2>7. CASE slipped'
    BY <2>6, <2>7 DEF Follows
  <2>8. CASE ~slipped'
    <3>0. ~slipped /\ ~(newest.memory > h.m.n)
      BY <2>3, <2>8
    <3>a. newest.memory <= h.m.n
      <4>1. newest.memory \in Nat /\ h.m.n \in Nat
        BY <2>3
      <4> QED BY <3>0, <4>1
    <3>1. Speaks /\ Awaited /\ newest.memory <= h.m.n
      BY <3>0, <3>a DEF Follows
    <3>2. IsLast(h.m) => (h.m.kind = "on" <=> streaming)
      BY <3>1 DEF Speaks
    <3>3. Speaks'
      <4>1. newest'.memory = toggles => (memoryOn' <=> streaming)
        BY <2>3, <2>4, <2>5, <3>2 DEF IsLast
      <4>2. newest'.row = toggles => (rowOn' <=> streaming)
        BY <2>3, <2>4, <3>1 DEF Speaks
      <4>3. \A w \in work' : IsLast(w.m) => (w.m.kind = "on" <=> streaming)
        BY <2>2, <3>1, <3>2 DEF Speaks
      <4> QED BY <1>0, <1>t, <3>1, <4>1, <4>2, <4>3 DEF Speaks, IsLast, IsState
    <3>4. Awaited'
      <4>1. CASE \E m \in InTransit : IsLast(m)
        BY <1>0, <1>t, <4>1 DEF Awaited, IsLast, IsState
      <4>2. CASE ~ \E m \in InTransit : IsLast(m)
        <5>1. newest.memory = toggles => newest'.memory = toggles
          BY <2>3, <2>4, <3>1
        <5>2. IsLast(h.m) => newest'.memory = toggles
          BY <2>4 DEF IsLast
        <5>3. newest'.memory = toggles \/ \E w \in work' : IsLast(w.m) /\ w.at # "row"
          <6>1. CASE newest.memory = toggles
            BY <5>1, <6>1
          <6>2. CASE \E w \in work : IsLast(w.m) /\ w.at # "row"
            BY <2>2, <5>2, <6>2
          <6> QED BY <3>1, <4>2, <6>1, <6>2 DEF Awaited
        <5>4. newest'.row = toggles \/ \E w \in work' : IsLast(w.m)
          <6>1. CASE newest.row = toggles
            BY <2>4, <6>1
          <6>2. CASE \E w \in work : IsLast(w.m)
            BY <2>2, <6>2
          <6> QED BY <3>1, <4>2, <6>1, <6>2 DEF Awaited
        <5> QED BY <1>0, <5>3, <5>4 DEF Awaited, IsLast, IsState
      <4> QED BY <4>1, <4>2
    <3> QED BY <2>6, <3>3, <3>4 DEF Follows
  <2> QED BY <2>7, <2>8
<1>3. CASE StreamRow(h) /\ newest' = [newest EXCEPT !.row = h.m.n] /\ rowOn' = (h.m.kind = "on")
              /\ slipped' = (slipped \/ newest.row > h.m.n)
  <2>1. /\ h.at = "row" /\ work' = work \ {h} /\ h.m.n \in Nat /\ toggles \in Nat
        /\ newest' = [newest EXCEPT !.row = h.m.n] /\ slipped' = (slipped \/ newest.row > h.m.n)
        /\ memoryOn' = memoryOn /\ newest \in [memory : Nat, row : Nat]
    BY <1>3, <1>r DEF StreamRow, StateTyped, Letter
  <2>2. newest'.row = h.m.n /\ newest'.memory = newest.memory
    BY <2>1
  <2>3. rowOn' <=> h.m.kind = "on"
    BY <1>3 DEF StreamRow
  <2>4. IsState(h.m) /\ h.m.n <= toggles
    BY <1>h, <1>w, <2>1
  <2>5. Numbered'
    <3>1. \A w \in work' : (IsState(w.m) => w.m.n <= toggles /\ w.at \notin HelloAwait) /\ (w.at = "row" => IsState(w.m))
      BY <1>h, <1>w, <2>1
    <3>2. newest'.memory <= toggles /\ newest'.row <= toggles
      BY <2>1, <2>2, <2>4 DEF Numbered
    <3> QED BY <1>0, <1>t, <3>1, <3>2 DEF Numbered, IsState
  <2>6. CASE slipped'
    BY <2>5, <2>6 DEF Follows
  <2>7. CASE ~slipped'
    <3>0. ~slipped /\ ~(newest.row > h.m.n)
      BY <2>1, <2>7
    <3>a. newest.row <= h.m.n
      <4>1. newest.row \in Nat /\ h.m.n \in Nat
        BY <2>1
      <4> QED BY <3>0, <4>1
    <3>1. Speaks /\ Awaited /\ newest.row <= h.m.n
      BY <3>0, <3>a DEF Follows
    <3>2. IsLast(h.m) => (h.m.kind = "on" <=> streaming)
      BY <3>1 DEF Speaks
    <3>3. Speaks'
      <4>1. newest'.row = toggles => (rowOn' <=> streaming)
        BY <2>2, <2>3, <2>4, <3>2 DEF IsLast
      <4>2. newest'.memory = toggles => (memoryOn' <=> streaming)
        BY <2>1, <2>2, <3>1 DEF Speaks
      <4>3. \A w \in work' : IsLast(w.m) => (w.m.kind = "on" <=> streaming)
        BY <2>1, <3>1 DEF Speaks
      <4> QED BY <1>0, <1>t, <3>1, <4>1, <4>2, <4>3 DEF Speaks, IsLast, IsState
    <3>4. Awaited'
      <4>1. CASE \E m \in InTransit : IsLast(m)
        BY <1>0, <1>t, <4>1 DEF Awaited, IsLast, IsState
      <4>2. CASE ~ \E m \in InTransit : IsLast(m)
        <5>1. newest.row = toggles => newest'.row = toggles
          BY <2>1, <2>2, <2>4, <3>1
        <5>2. IsLast(h.m) => newest'.row = toggles
          BY <2>2 DEF IsLast
        <5>3. newest'.memory = toggles \/ \E w \in work' : IsLast(w.m) /\ w.at # "row"
          BY <2>1, <2>2, <3>1, <4>2 DEF Awaited
        <5>4. newest'.row = toggles \/ \E w \in work' : IsLast(w.m)
          <6>1. CASE newest.row = toggles
            BY <5>1, <6>1
          <6>2. CASE \E w \in work : IsLast(w.m)
            BY <2>1, <5>2, <6>2
          <6> QED BY <3>1, <4>2, <6>1, <6>2 DEF Awaited
        <5> QED BY <1>0, <5>3, <5>4 DEF Awaited, IsLast, IsState
      <4> QED BY <4>1, <4>2
    <3> QED BY <2>5, <3>3, <3>4 DEF Follows
  <2> QED BY <2>6, <2>7
<1>4. CASE StreamRow(h) /\ slipped' /\ UNCHANGED <<rowOn, newest>>
  <2>1. work' = work \ {h}
    BY <1>4 DEF StreamRow
  <2> QED BY <1>0, <1>t, <1>4, <2>1 DEF Numbered, Follows, IsState
<1> QED BY <1>1, <1>2, <1>3, <1>4 DEF Handle, StreamRow

\* The API restarts: what was at work and on its way has slipped.
LEMMA RestartFollows ==
  ASSUME LinkTyped, TrafficTyped, StateTyped, Numbered, Follows, PresenceRestart
  PROVE  Numbered' /\ Follows'
<1>0. /\ UNCHANGED <<streaming, toggles, rowOn>> /\ memoryOn' = rowOn /\ work' = {}
      /\ newest' = [newest EXCEPT !.memory = newest.row] /\ newest \in [memory : Nat, row : Nat]
      /\ traffic' = [s \in SocketIds |-> <<>>]
  BY DEF PresenceRestart, StateTyped
<1>1. newest'.memory = newest.row /\ newest'.row = newest.row
  BY <1>0
<1>2. InTransit' = {}
  BY <1>0 DEF InTransit, Letters
<1>3. Numbered'
  BY <1>0, <1>1, <1>2 DEF Numbered
<1>4. CASE slipped'
  BY <1>3, <1>4 DEF Follows
<1>5. CASE ~slipped'
  <2>1. /\ ~slipped /\ \A h \in work : ~IsState(h.m)
        /\ \A s \in SocketIds : \A i \in DOMAIN traffic[s] : ~IsState(traffic[s][i])
    BY <1>5 DEF PresenceRestart
  <2>2. \A m \in InTransit : ~IsState(m)
    BY <2>1 DEF InTransit, Letters
  <2>3. Speaks /\ Awaited
    BY <2>1 DEF Follows
  <2>4. newest.row = toggles
    BY <2>1, <2>2, <2>3 DEF Awaited, IsLast
  <2>5. rowOn <=> streaming
    BY <2>3, <2>4 DEF Speaks
  <2>6. Speaks'
    BY <1>0, <1>1, <1>2, <2>5 DEF Speaks
  <2>7. Awaited'
    BY <1>0, <1>1, <2>4 DEF Awaited
  <2> QED BY <1>3, <2>6, <2>7 DEF Follows
<1> QED BY <1>4, <1>5

-----------------------------------------------------------------------------
\* The invariant holds while nothing is connected.
LEMMA InitPresence == PresenceInit => PresenceInv
<1> SUFFICES ASSUME PresenceInit PROVE PresenceInv
  OBVIOUS
<1>1. <<>> \in Seq(Letter)
  BY EmptySeq
<1>2. LinkTyped
  BY PresenceBoundsAssumption DEF PresenceInit, LinkTyped
<1>3. TrafficTyped
  BY <1>1 DEF PresenceInit, TrafficTyped
<1>4. StateTyped /\ Greeting /\ FrameOnlyWhileOn
  BY DEF PresenceInit, StateTyped, Greeting, FrameOnlyWhileOn
<1>5. InTransit = {} /\ newest.memory = 0 /\ newest.row = 0 /\ toggles = 0 /\ work = {}
  BY TransitEmpty, <1>3 DEF PresenceInit
<1>6. Numbered
  BY <1>5 DEF Numbered
<1>7. Speaks
  BY <1>5 DEF Speaks, PresenceInit
<1>8. Awaited
  BY <1>5 DEF Awaited
<1> QED BY <1>2, <1>3, <1>4, <1>6, <1>7, <1>8 DEF PresenceInv, Follows

\* Every step keeps it.
LEMMA NextPresence == PresenceInv /\ [PresenceNext]_presenceVars => PresenceInv'
<1> SUFFICES ASSUME PresenceInv, [PresenceNext]_presenceVars PROVE PresenceInv'
  OBVIOUS
<1> USE DEF PresenceInv
<1>1. CASE PresenceNext
  <2>1. LinkTyped' /\ TrafficTyped' /\ StateTyped' /\ Greeting' /\ FrameOnlyWhileOn'
    BY <1>1, LinkTypes, TrafficTypes, StateTypes, GreetingKeeps, FrameKeeps
  <2>2. Numbered' /\ Follows'
    BY <1>1, LinkFollows, SwitchFollows, SocketFollows, HandleFollows, RestartFollows DEF PresenceNext
  <2> QED BY <2>1, <2>2
<1>2. CASE UNCHANGED presenceVars
  <2>1. LinkTyped' /\ TrafficTyped' /\ StateTyped' /\ Greeting' /\ FrameOnlyWhileOn'
    BY <1>2 DEF presenceVars, LinkTyped, TrafficTyped, StateTyped, Greeting, FrameOnlyWhileOn
  <2>2. InTransit' = InTransit /\ UNCHANGED <<toggles, work, newest, memoryOn, rowOn, streaming, slipped>>
    BY <1>2 DEF presenceVars, InTransit, Letters
  <2>3. Numbered' /\ Follows'
    BY <2>2 DEF Numbered, Follows, Speaks, Awaited, IsLast, IsState
  <2> QED BY <2>1, <2>3
<1> QED BY <1>1, <1>2

\* What the API's socket handlers and the desktop's streamer share stays as
\* PresenceInv says, for any number of sockets, switches, frames and restarts.
THEOREM PresenceInvariance == PresenceSpec => []PresenceInv
BY InitPresence, NextPresence, PTL DEF PresenceSpec

\* A screen frame is held only while the preview is on, whatever order the
\* handlers finish in (device.screen.stream_state, device.screen.frame).
THEOREM FramesWhileOn == PresenceSpec => []FrameOnlyWhileOn
<1>1. PresenceInv => FrameOnlyWhileOn
  BY DEF PresenceInv
<1> QED BY <1>1, PresenceInvariance, PTL

\* A device whose hello was acknowledged is shown as connected, although an
\* older socket's close removed its presence record (withPresenceState).
THEOREM ConnectedIsShown == PresenceSpec => []OnlineIsShown
<1>1. PresenceInv => OnlineIsShown
  BY DEF PresenceInv, Greeting, OnlineIsShown, Shown
<1> QED BY <1>1, PresenceInvariance, PTL

\* When everything is handled, the memory and the row have the streamer's own
\* state, unless one was not sent, lost, refused before the hello was through,
\* overtaken, or not written to the row.
THEOREM StreamStateArrives == PresenceSpec => []ServerFollowsDesktop
<1>1. PresenceInv => ServerFollowsDesktop
  <2> SUFFICES ASSUME PresenceInv, Quiet, ~slipped PROVE memoryOn = streaming /\ rowOn = streaming
    BY DEF ServerFollowsDesktop
  <2>1. InTransit = {} /\ work = {}
    BY TransitEmpty DEF Quiet, PresenceInv
  <2>2. Speaks /\ Awaited
    BY DEF PresenceInv, Follows
  <2>3. newest.memory = toggles /\ newest.row = toggles
    BY <2>1, <2>2 DEF Awaited
  <2>4. (memoryOn <=> streaming) /\ (rowOn <=> streaming)
    BY <2>2, <2>3 DEF Speaks
  <2>5. memoryOn \in BOOLEAN /\ rowOn \in BOOLEAN /\ streaming \in BOOLEAN
    BY DEF PresenceInv, StateTyped
  <2> QED BY <2>4, <2>5
<1> QED BY <1>1, PresenceInvariance, PTL

-----------------------------------------------------------------------------
(* The dashboard's page: Dashboard.                                        *)

\* The lists the page holds until it has them all were answered, in their order.
Held ==
  /\ ask["runs"] # "idle" => Answered("devices")
  /\ ask["rest"] # "idle" => Answered("runs")
  /\ page # "ready" => \A k \in Initial : ask[k] = "idle"
DashInv == DashTypeOK /\ Held

Answers == NoAnswer \cup Refusals \cup Devices \cup Runs \cup Tools \cup {"ok"}
Typed(k, a) == a \in NoAnswer \cup Refusals \cup Pictures(k)
AskTyped == ask \in [Asks -> Answers] /\ \A k \in Asks : Typed(k, ask[k])

\* What a request may be answered with.
LEMMA AnswersAre ==
  /\ \A k \in Asks : {"idle", "sent"} \cup Refusals \cup Pictures(k) \subseteq Answers
  /\ \A k \in Asks : \A a \in {"idle", "sent"} \cup Refusals : Typed(k, a)
  /\ \A k \in DeviceLists : k \in Asks /\ Pictures(k) = Devices
  /\ \A k \in RunLists : k \in Asks /\ Pictures(k) = Runs
  /\ "tools" \in Asks /\ Pictures("tools") = Tools
  /\ {"me", "rest", "pair", "create", "cancel"} \subseteq Asks
BY DEF Answers, Typed, Pictures, NoAnswer, Refusals, Asks, DeviceLists, RunLists, Polls, Devices, Runs, Tools

\* The first of what a page has to ask for are requests for different things.
LEMMA InitialAre ==
  /\ Initial \subseteq Asks /\ "devices" \in DeviceLists /\ "runs" \in RunLists
  /\ Polls \cup {"paired"} \subseteq DeviceLists \ Initial /\ "list" \in RunLists \ Initial
BY DEF Initial, Asks, DeviceLists, RunLists, Polls

\* A request that changes to a state of its own.
LEMMA AskChanges ==
  ASSUME AskTyped, NEW k \in Asks, NEW a, Typed(k, a), ask' = [ask EXCEPT ![k] = a]
  PROVE  AskTyped'
<1>1. a \in Answers BY AnswersAre DEF Typed, NoAnswer
<1> QED BY <1>1 DEF AskTyped

\* The answers of the initial requests change only in their order.
HeldKept ==
  /\ ask'["devices"] = ask["devices"] /\ ask'["runs"] = ask["runs"] /\ ask'["rest"] = ask["rest"]
  /\ page' = page

LEMMA HeldStays == ASSUME Held, HeldKept PROVE Held'
BY DEF Held, HeldKept, Answered, Initial

\* The API's own steps: desktops, runs and tools move, and what is broadcast is typed.
LEMMA BroadcastTyped ==
  ASSUME stream \in [Sources -> Seq(Events)], NEW e \in Events, Broadcast(e)
  PROVE  stream' \in [Sources -> Seq(Events)]
<1>1. ASSUME NEW s \in Sources PROVE (IF source[s] = "open" THEN Append(stream[s], e) ELSE stream[s]) \in Seq(Events)
  <2>1. stream[s] \in Seq(Events) OBVIOUS
  <2> QED BY <2>1, AppendProperties
<1> QED BY <1>1 DEF Broadcast

LEMMA ServerKeepsDash ==
  ASSUME DashInv,
         \/ \E to \in {"none", "offline", "online"} : DeviceMoves(to)
         \/ \E to \in {"running", "ended"} : RunTold(to)
         \/ \E to \in {"requested", "executed"} : ToolMoves(to)
         \/ RunToldAgain \/ RunUntold
  PROVE  DashInv'
<1>1. UNCHANGED <<mode, page, ask, shown, subscribed, bearer, source, timers, loginAgain, breaks>>
  BY DEF DeviceMoves, RunTold, ToolMoves, RunToldAgain, RunUntold, streamVars
<1>2. Held' BY <1>1 DEF DashInv, Held, Answered, Initial
<1>3. dev' \in Devices /\ run' \in Runs /\ tool' \in Tools
  BY DEF DeviceMoves, RunTold, ToolMoves, RunToldAgain, RunUntold, DashInv, DashTypeOK, Devices, Runs, Tools
<1>4. moves' \in 0..MaxMoves
  BY DashBoundsAssumption DEF DeviceMoves, RunTold, ToolMoves, RunToldAgain, RunUntold, DashInv, DashTypeOK
<1>5. stream' \in [Sources -> Seq(Events)]
  <2>1. stream \in [Sources -> Seq(Events)] /\ run \in Runs BY DEF DashInv, DashTypeOK
  <2>2. ASSUME NEW to \in {"running", "ended"}, RunTold(to) PROVE stream' \in [Sources -> Seq(Events)]
    <3>1. [of |-> "run", to |-> to] \in Events BY DEF Events, Runs
    <3> QED BY <2>1, <2>2, <3>1, BroadcastTyped DEF RunTold
  <2>3. ASSUME NEW to \in {"requested", "executed"}, ToolMoves(to) PROVE stream' \in [Sources -> Seq(Events)]
    <3>1. [of |-> "tool", to |-> to] \in Events BY DEF Events, Tools
    <3> QED BY <2>1, <2>3, <3>1, BroadcastTyped DEF ToolMoves
  <2>4. CASE RunToldAgain
    <3>1. [of |-> "run", to |-> run] \in Events BY <2>1 DEF Events
    <3> QED BY <2>1, <2>4, <3>1, BroadcastTyped DEF RunToldAgain
  <2>5. CASE UNCHANGED stream BY <2>1, <2>5
  <2> QED BY <2>2, <2>3, <2>4, <2>5 DEF DeviceMoves, RunUntold, streamVars
<1> QED BY <1>1, <1>2, <1>3, <1>4, <1>5 DEF DashInv, DashTypeOK

\* A request is served, or refused.
LEMMA ServedKeepsDash ==
  ASSUME DashInv, NEW k \in Asks, Serve(k) \/ Refuse(k) \/ DeniedAgain(k)
  PROVE  DashInv'
<1>1. AskTyped BY DEF DashInv, DashTypeOK, AskTyped, Answers, Typed
<1>2. UNCHANGED <<tool, mode, page, shown, subscribed, bearer, streamVars, moves>>
  BY DEF Serve, Refuse, DeniedAgain, serverVars
<1>3. dev' \in Devices /\ run' \in Runs /\ breaks' \in 0..MaxBreaks /\ breaks' >= breaks
  BY DashBoundsAssumption DEF Serve, Refuse, DeniedAgain, serverVars, DashInv, DashTypeOK, Devices, Runs
<1>4. PICK a : ask' = [ask EXCEPT ![k] = a] /\ Typed(k, a)
               /\ ask[k] # "idle" /\ (ask[k] = "sent" \/ (k = "devices" => ask["runs"] = "idle"))
               /\ (ask[k] = "sent" \/ (k = "runs" => ask["rest"] = "idle"))
               /\ (k = "devices" => ask["runs"] = "idle" \/ ask[k] = "sent")
  <2>1. CASE Serve(k)
    <3>1. Typed(k, Picture(k))
      BY DEF Typed, Picture, Pictures, DashInv, DashTypeOK, Refusals, NoAnswer, DeviceLists, RunLists, Polls, Asks
    <3> QED BY <2>1, <3>1 DEF Serve
  <2>2. CASE Refuse(k)
    BY <2>2 DEF Refuse, Typed, Refusals
  <2>3. CASE DeniedAgain(k)
    BY <2>3 DEF DeniedAgain, Typed, Refusals
  <2> QED BY <2>1, <2>2, <2>3
<1>5. AskTyped' BY <1>1, <1>4, AskChanges
<1>6. Held'
  <2>1. ask \in [Asks -> Answers] /\ {"devices", "runs", "rest"} = Initial /\ Initial \subseteq Asks
    BY <1>1, InitialAre DEF AskTyped, Initial
  <2>2. Held /\ page' = page BY <1>2 DEF DashInv
  <2>3. k = "devices" => ask["runs"] = "idle"
    BY <1>4, <2>2 DEF Held, Answered, NoAnswer
  <2>4. k = "runs" => ask["rest"] = "idle"
    BY <1>4, <2>2 DEF Held, Answered, NoAnswer
  <2>5. \A i \in Initial : i # k => ask'[i] = ask[i] BY <1>4, <2>1
  <2>6. \A i \in Initial : ask[i] = "idle" => ask'[i] = "idle" BY <1>4, <2>1
  <2> QED BY <2>1, <2>2, <2>3, <2>4, <2>5, <2>6 DEF Held, Answered
<1>7. timers' \in [Sources -> 0..breaks']
  BY <1>2, <1>3, DashBoundsAssumption DEF DashInv, DashTypeOK, streamVars
<1> QED BY <1>2, <1>3, <1>5, <1>6, <1>7 DEF DashInv, DashTypeOK, AskTyped, Answers, Typed, streamVars

\* The page opens, and is signed in or not.
LEMMA OpeningKeepsDash == ASSUME DashInv, OpenPage \/ SignedIn PROVE DashInv'
<1>1. AskTyped /\ Held /\ source \in [Sources -> {"none", "new", "open", "retry", "closed"}]
  BY DEF DashInv, DashTypeOK, AskTyped, Answers, Typed
<1>2. page # "ready" /\ \A k \in Initial : ask[k] = "idle" BY <1>1 DEF OpenPage, SignedIn, Held
<1>3. ask["devices"] = "idle" /\ ask["runs"] = "idle" /\ ask["rest"] = "idle" BY <1>2 DEF Initial
<1>4. /\ UNCHANGED <<serverVars, shown, subscribed, bearer, timers, stream, loginAgain, moves, breaks>>
      /\ source' \in [Sources -> {"none", "new", "open", "retry", "closed"}]
      /\ page' \in {"me", "ready", "login", "useless"}
  BY <1>1 DEF OpenPage, SignedIn, streamVars
<1>5. CASE OpenPage \/ (SignedIn /\ page' # "ready")
  <2>1. PICK a \in {"sent", "idle"} : ask' = [ask EXCEPT !["me"] = a]
    BY <1>5 DEF OpenPage, SignedIn, Request, Done
  <2>2. AskTyped' BY <1>1, <2>1, AnswersAre, AskChanges
  <2>3. \A k \in Initial : ask'[k] = "idle"
    BY <1>1, <1>2, <2>1, InitialAre DEF AskTyped, Initial
  <2>4. Held' BY <2>3 DEF Held, Initial
  <2> QED BY <1>4, <2>2, <2>4 DEF DashInv, DashTypeOK, AskTyped, Answers, Typed, serverVars
<1>6. CASE SignedIn /\ page' = "ready"
  <2>1. ask' = [ask EXCEPT !["me"] = "idle", !["devices"] = "sent"] BY <1>6 DEF SignedIn
  <2>2. AskTyped'
    <3>1. \A k \in Asks : ask'[k] \in {ask[k], "idle", "sent"} BY <1>1, <2>1 DEF AskTyped
    <3>2. DOMAIN ask' = Asks /\ ask' = [k \in Asks |-> ask'[k]] BY <1>1, <2>1 DEF AskTyped
    <3> QED BY <1>1, <3>1, <3>2, AnswersAre DEF AskTyped
  <2>3. ask'["runs"] = "idle" /\ ask'["rest"] = "idle" BY <1>1, <1>3, <2>1, AnswersAre, InitialAre DEF AskTyped
  <2>4. Held' BY <1>6, <2>3 DEF Held
  <2> QED BY <1>4, <2>2, <2>4 DEF DashInv, DashTypeOK, AskTyped, Answers, Typed, serverVars
<1> QED BY <1>5, <1>6

\* All requests are forgotten, or the initial ones.
LEMMA ForgettingKeeps ==
  ASSUME AskTyped, NEW S \in SUBSET Asks, Initial \subseteq S,
         ask' = [k \in Asks |-> IF k \in S THEN "idle" ELSE ask[k]]
  PROVE  AskTyped' /\ Held'
<1>1. AskTyped' BY AnswersAre DEF AskTyped
<1>2. \A k \in Initial : ask'[k] = "idle" BY InitialAre
<1> QED BY <1>1, <1>2 DEF Held, Initial

\* The page goes.
LEMMA LeavingKeepsDash ==
  ASSUME DashInv, NEW to \in {"login", "left"}, Leave(to), UNCHANGED <<serverVars, shown, subscribed, bearer, moves, breaks>>
  PROVE  DashInv'
<1>1. AskTyped BY DEF DashInv, DashTypeOK, AskTyped, Answers, Typed
<1>2. AskTyped' /\ Held' BY <1>1, InitialAre, ForgettingKeeps DEF Leave
<1>3. stream' \in [Sources -> Seq(Events)] /\ source' \in [Sources -> {"none", "new", "open", "retry", "closed"}]
  BY EmptySeq DEF Leave, DashInv, DashTypeOK
<1> QED BY <1>2, <1>3 DEF Leave, DashInv, DashTypeOK, AskTyped, Answers, Typed, serverVars

\* The session is over.
LEMMA SessionOverKeepsDash == ASSUME DashInv, NEW k \in Asks, SessionOver(k) PROVE DashInv'
<1>1. AskTyped /\ Held BY DEF DashInv, DashTypeOK, AskTyped, Answers, Typed
<1>2. UNCHANGED <<serverVars, shown, subscribed, bearer, moves, breaks, loginAgain>>
  BY DEF SessionOver, streamVars
<1>3. CASE k = "me"
  <2>1. ask' = [ask EXCEPT !["me"] = "unauthorized"] /\ UNCHANGED <<page, streamVars>>
    BY <1>3 DEF SessionOver
  <2>2. Typed("me", "unauthorized") BY DEF Typed, Refusals
  <2>3. AskTyped' BY <1>1, <1>3, <2>1, <2>2, AskChanges
  <2>4. \A i \in Initial : ask'[i] = ask[i] BY <1>1, <2>1, InitialAre DEF AskTyped, Initial
  <2>5. Held' BY <1>1, <2>1, <2>4, HeldStays DEF HeldKept, Initial
  <2> QED BY <1>2, <2>1, <2>3, <2>5 DEF DashInv, DashTypeOK, AskTyped, Answers, Typed, serverVars, streamVars
<1>4. CASE k # "me"
  <2>1. /\ page' = "login" /\ ask' = [i \in Asks |-> "idle"]
        /\ source' = [s \in Sources |-> IF source[s] = "none" THEN "none" ELSE "closed"]
        /\ timers' = [s \in Sources |-> 0] /\ stream' = [s \in Sources |-> <<>>]
    BY <1>4 DEF SessionOver
  <2>2. AskTyped' /\ Held' BY <1>1, <2>1, InitialAre, ForgettingKeeps
  <2>3. timers' \in [Sources -> 0..breaks'] BY <1>2, <2>1, DashBoundsAssumption DEF DashInv, DashTypeOK
  <2>4. stream' \in [Sources -> Seq(Events)] BY <2>1, EmptySeq
  <2> QED BY <1>2, <2>1, <2>2, <2>3, <2>4 DEF DashInv, DashTypeOK, AskTyped, Answers, Typed, serverVars
<1> QED BY <1>3, <1>4

\* What the page asks for first is asked in turn, and shown with the last answer.
LEMMA InitialKeepsDash ==
  ASSUME DashInv, InitialGoesOn \/ InitialFails \/ LeavePage \/ \E active \in BOOLEAN : InitialShown(active)
  PROVE  DashInv'
<1>1. AskTyped /\ Held BY DEF DashInv, DashTypeOK, AskTyped, Answers, Typed
<1>2. CASE InitialGoesOn
  <2>1. UNCHANGED <<serverVars, page, shown, subscribed, bearer, streamVars, moves, breaks>> /\ page = "ready"
    BY <1>2 DEF InitialGoesOn
  <2>2. PICK k \in {"runs", "rest"} : /\ ask' = [ask EXCEPT ![k] = "sent"] /\ ask[k] = "idle"
                                      /\ k = "runs" => Answered("devices")
                                      /\ k = "rest" => Answered("runs")
    BY <1>2 DEF InitialGoesOn, Request
  <2>3. AskTyped' BY <1>1, <2>2, AnswersAre, InitialAre, AskChanges
  <2>4. Held'
    <3>1. ask'["devices"] = ask["devices"] /\ (k = "rest" => ask'["runs"] = ask["runs"])
          /\ (k = "runs" => ask'["rest"] = ask["rest"])
      BY <1>1, <2>2, AnswersAre, InitialAre DEF AskTyped
    <3>2. k = "runs" => ask["rest"] = "idle" BY <1>1, <2>2 DEF Held, Answered, NoAnswer
    <3> QED BY <1>1, <2>1, <2>2, <3>1, <3>2 DEF Held, Answered
  <2> QED BY <2>1, <2>3, <2>4 DEF DashInv, DashTypeOK, AskTyped, Answers, Typed, serverVars, streamVars
<1>3. ASSUME ask' = [k \in Asks |-> IF k \in Initial THEN "idle" ELSE ask[k]],
             UNCHANGED <<serverVars, page, bearer, streamVars, moves, breaks>>,
             shown' \in [dev : Devices, run : Runs, tool : Tools], subscribed' \in BOOLEAN
      PROVE  DashInv'
  <2>1. AskTyped' /\ Held' BY <1>1, <1>3, InitialAre, ForgettingKeeps
  <2> QED BY <1>3, <2>1 DEF DashInv, DashTypeOK, AskTyped, Answers, Typed, serverVars, streamVars
<1>4. ASSUME NEW active \in BOOLEAN, InitialShown(active) PROVE DashInv'
  <2>1. Answered("rest") /\ ask["rest"] # "idle" BY <1>4 DEF InitialShown, Answered, NoAnswer
  <2>2. Answered("runs") /\ Answered("devices") BY <1>1, <2>1 DEF Held, Answered, NoAnswer
  <2>3. ask["devices"] \in Devices /\ ask["runs"] \in Runs
    BY <1>1, <2>2, AnswersAre, InitialAre DEF AskTyped, Typed, Answered
  <2>4. shown' \in [dev : Devices, run : Runs, tool : Tools] /\ subscribed' \in BOOLEAN
    BY <1>4, <2>3 DEF InitialShown, DashInv, DashTypeOK
  <2> QED BY <1>3, <1>4, <2>4 DEF InitialShown
<1>5. CASE InitialFails
  <2>1. UNCHANGED <<serverVars, shown, subscribed, bearer, moves, breaks>> BY <1>5 DEF InitialFails
  <2>2. CASE Leave("login") BY <2>1, <2>2, LeavingKeepsDash
  <2>3. CASE ask' = [k \in Asks |-> IF k \in Initial THEN "idle" ELSE ask[k]] /\ UNCHANGED <<page, streamVars>>
    <3>1. shown' \in [dev : Devices, run : Runs, tool : Tools] /\ subscribed' \in BOOLEAN
      BY <2>1 DEF DashInv, DashTypeOK
    <3> QED BY <1>3, <2>1, <2>3, <3>1
  <2> QED BY <1>5, <2>2, <2>3 DEF InitialFails
<1>6. CASE LeavePage BY <1>6, LeavingKeepsDash DEF LeavePage
<1> QED BY <1>2, <1>4, <1>5, <1>6

\* The other requests of the page: polls, lists and what the user asks for.
LEMMA AskingKeepsDash ==
  ASSUME DashInv,
         \/ \E p \in Polls : Poll(p)
         \/ \E k \in Polls \cup {"paired"} : DevicesListed(k)
         \/ \E k \in {"pair", "create", "cancel", "tools"} : Ask(k)
         \/ \E k \in {"pair", "create", "cancel"} : AskAnswered(k)
         \/ RunsListed \/ ToolsListed
  PROVE  DashInv'
<1>1. AskTyped /\ Held BY DEF DashInv, DashTypeOK, AskTyped, Answers, Typed
<1>2. UNCHANGED <<serverVars, page, subscribed, bearer, streamVars, moves, breaks>>
  BY DEF Poll, DevicesListed, Ask, AskAnswered, RunsListed, ToolsListed
<1>3. shown' \in [dev : Devices, run : Runs, tool : Tools]
  <2>1. shown \in [dev : Devices, run : Runs, tool : Tools] BY DEF DashInv, DashTypeOK
  <2>2. ASSUME NEW k \in Polls \cup {"paired"}, DevicesListed(k) PROVE shown' \in [dev : Devices, run : Runs, tool : Tools]
    <3>1. Answered(k) => ask[k] \in Devices BY <1>1, AnswersAre, InitialAre DEF AskTyped, Typed, Answered
    <3> QED BY <2>1, <2>2, <3>1 DEF DevicesListed, ShowDevices
  <2>3. CASE RunsListed
    <3>1. Answered("list") => ask["list"] \in Runs BY <1>1, AnswersAre, InitialAre DEF AskTyped, Typed, Answered
    <3> QED BY <2>1, <2>3, <3>1 DEF RunsListed
  <2>4. CASE ToolsListed
    <3>1. Answered("tools") => ask["tools"] \in Tools BY <1>1, AnswersAre DEF AskTyped, Typed, Answered
    <3> QED BY <2>1, <2>4, <3>1 DEF ToolsListed
  <2>5. CASE UNCHANGED shown BY <2>1, <2>5
  <2> QED BY <2>2, <2>3, <2>4, <2>5 DEF Poll, Ask, AskAnswered
<1>4. /\ ask' = [k \in Asks |-> ask'[k]]
      /\ \A k \in Asks : ask'[k] \in {ask[k], "idle", "sent"}
      /\ \A k \in Initial : ask'[k] = ask[k]
  <2>1. ask \in [Asks -> Answers] BY <1>1 DEF AskTyped
  <2>2. ASSUME NEW j \in Asks \ Initial, NEW a \in {"idle", "sent"}, ask' = [ask EXCEPT ![j] = a]
        PROVE  /\ ask' = [k \in Asks |-> ask'[k]]
               /\ \A k \in Asks : ask'[k] \in {ask[k], "idle", "sent"}
               /\ \A k \in Initial : ask'[k] = ask[k]
    BY <2>1, <2>2, InitialAre
  <2>3. {"poll1", "poll2", "paired", "pair", "create", "cancel", "tools", "list"} \subseteq Asks \ Initial
    BY DEF Asks, Initial, DeviceLists, RunLists, Polls
  <2>4. ASSUME NEW k \in {"pair", "create", "cancel"}, AskAnswered(k)
        PROVE  /\ ask' = [i \in Asks |-> ask'[i]]
               /\ \A i \in Asks : ask'[i] \in {ask[i], "idle", "sent"}
               /\ \A i \in Initial : ask'[i] = ask[i]
    <3>1. PICK next \in {"paired", "list", "none"} :
            ask' = [i \in Asks |-> IF i = k THEN "idle" ELSE IF i = next /\ Answered(k) THEN "sent" ELSE ask[i]]
      BY <2>4 DEF AskAnswered
    <3>2. \A i \in Initial : i # k /\ i # next /\ i \in Asks BY InitialAre DEF Initial
    <3> QED BY <3>1, <3>2
  <2> QED BY <2>2, <2>3, <2>4 DEF Poll, DevicesListed, Ask, RunsListed, ToolsListed, Request, Done, Polls
<1>5. AskTyped' BY <1>1, <1>4, AnswersAre DEF AskTyped
<1>6. Held' BY <1>1, <1>2, <1>4, HeldStays DEF HeldKept, Initial
<1> QED BY <1>2, <1>3, <1>5, <1>6 DEF DashInv, DashTypeOK, AskTyped, Answers, Typed, serverVars, streamVars

\* A stream opens, brings an event, breaks or is replaced.
LEMMA StreamKeepsDash ==
  ASSUME DashInv, NEW s \in Sources, Opens(s) \/ Hear(s) \/ CheckStream(s) \/ StreamFails(s)
  PROVE  DashInv'
<1>1. UNCHANGED <<serverVars, page, ask, subscribed, bearer, moves>>
  BY DEF Opens, Hear, CheckStream, StreamFails
<1>2. Held' BY <1>1 DEF DashInv, Held, Answered, Initial
<1>3. /\ source \in [Sources -> {"none", "new", "open", "retry", "closed"}] /\ timers \in [Sources -> 0..breaks]
      /\ stream \in [Sources -> Seq(Events)] /\ breaks \in 0..MaxBreaks /\ loginAgain \in BOOLEAN
      /\ shown \in [dev : Devices, run : Runs, tool : Tools]
  BY DEF DashInv, DashTypeOK
<1>4. source' \in [Sources -> {"none", "new", "open", "retry", "closed"}] /\ loginAgain' \in BOOLEAN
  BY <1>3 DEF Opens, Hear, CheckStream, StreamFails
<1>5. breaks' \in 0..MaxBreaks /\ timers' \in [Sources -> 0..breaks']
  <2>1. MaxBreaks \in Nat BY DashBoundsAssumption
  <2>2. CASE StreamFails(s)
    <3>1. breaks' = breaks + 1 /\ breaks < MaxBreaks /\ (timers' = timers \/ timers' = [timers EXCEPT ![s] = @ + 1])
      BY <2>2 DEF StreamFails
    <3>2. breaks \in Nat /\ breaks' \in 0..MaxBreaks /\ 0..breaks \subseteq 0..breaks' BY <1>3, <2>1, <3>1
    <3>3. timers[s] + 1 \in 0..breaks' BY <1>3, <3>1, <3>2
    <3>4. \A q \in Sources : timers[q] \in 0..breaks' BY <1>3, <3>2
    <3> QED BY <1>3, <3>1, <3>2, <3>3, <3>4
  <2>3. CASE CheckStream(s)
    <3>1. breaks' = breaks /\ timers' = [timers EXCEPT ![s] = @ - 1] /\ timers[s] > 0
      BY <2>3 DEF CheckStream
    <3>2. timers[s] \in 0..breaks /\ breaks \in Nat BY <1>3, <2>1
    <3>3. timers[s] - 1 \in 0..breaks BY <3>1, <3>2
    <3> QED BY <1>3, <3>1, <3>3
  <2>4. CASE UNCHANGED <<breaks, timers>> BY <1>3, <2>4
  <2> QED BY <2>2, <2>3, <2>4 DEF Opens, Hear
<1>6. stream' \in [Sources -> Seq(Events)] /\ shown' \in [dev : Devices, run : Runs, tool : Tools]
  <2>1. CASE Hear(s)
    <3>1. stream[s] \in Seq(Events) /\ stream[s] # <<>> BY <1>3, <2>1 DEF Hear
    <3>2. Head(stream[s]) \in Events /\ Tail(stream[s]) \in Seq(Events) BY <3>1, HeadTailProperties
    <3>3. stream' \in [Sources -> Seq(Events)] BY <1>3, <2>1, <3>2 DEF Hear
    <3>4. \A e \in Events : (e.of = "run" => e.to \in Runs) /\ (e.of # "run" => e.to \in Tools) BY DEF Events
    <3>5. PICK e \in Events : shown' = IF page # "ready" THEN shown
                                       ELSE IF e.of = "run" THEN [shown EXCEPT !.run = e.to]
                                       ELSE [shown EXCEPT !.tool = e.to]
      BY <2>1, <3>2 DEF Hear
    <3>6. shown' \in [dev : Devices, run : Runs, tool : Tools] BY <1>3, <3>4, <3>5
    <3> QED BY <3>3, <3>6
  <2>2. CASE StreamFails(s) BY <1>3, <2>2, EmptySeq DEF StreamFails
  <2>3. CASE UNCHANGED <<stream, shown>> BY <1>3, <2>3
  <2> QED BY <2>1, <2>2, <2>3 DEF Opens, CheckStream
<1> QED BY <1>1, <1>2, <1>4, <1>5, <1>6 DEF DashInv, DashTypeOK, serverVars

\* The types of the page, for any bounds: an answer is one to its request, and what the
\* page shows is what the API has said, although the lists of fetchInitialData come one
\* after the other and any of them may fail.
THEOREM DashTypes == DashInit /\ [][DashNext]_dashVars => []DashTypeOK
<1>1. DashInit => DashInv
  <2> SUFFICES ASSUME DashInit PROVE DashInv OBVIOUS
  <2>1. AskTyped BY AnswersAre DEF DashInit, AskTyped, Answers, NoAnswer
  <2>2. \A k \in Asks : ask[k] = "idle" BY DEF DashInit
  <2>3. Held BY <2>2, InitialAre, AnswersAre DEF Held
  <2>4. /\ source \in [Sources -> {"none", "new", "open", "retry", "closed"}]
        /\ timers \in [Sources -> 0..breaks] /\ stream \in [Sources -> Seq(Events)]
    BY EmptySeq DEF DashInit
  <2>5. moves \in 0..MaxMoves /\ breaks \in 0..MaxBreaks BY DashBoundsAssumption DEF DashInit
  <2>6. shown \in [dev : Devices, run : Runs, tool : Tools] BY DEF DashInit, Devices, Runs, Tools
  <2>7. dev \in Devices /\ run \in Runs /\ tool \in Tools BY DEF DashInit, Devices, Runs, Tools
  <2>8. DashTypeOK BY <2>1, <2>4, <2>5, <2>6, <2>7 DEF DashInit, DashTypeOK, AskTyped, Answers, Typed
  <2> QED BY <2>3, <2>8 DEF DashInv
<1>2. DashInv /\ [DashNext]_dashVars => DashInv'
  <2> SUFFICES ASSUME DashInv, [DashNext]_dashVars PROVE DashInv' OBVIOUS
  <2>1. CASE UNCHANGED dashVars
    BY <2>1 DEF dashVars, serverVars, streamVars, DashInv, DashTypeOK, Held, Answered, Initial
  <2>2. CASE OnceAsked
    BY <2>2, OpeningKeepsDash, InitialKeepsDash, AskingKeepsDash, ServedKeepsDash, SessionOverKeepsDash
       DEF OnceAsked, PageHears, Answer
  <2>3. CASE Streams BY <2>3, StreamKeepsDash DEF Streams
  <2>4. ASSUME NEW p \in Polls, Poll(p) \/ Answer(p) \/ DevicesListed(p) PROVE DashInv'
    <3>1. p \in Asks BY InitialAre, AnswersAre
    <3> QED BY <2>4, <3>1, AskingKeepsDash, ServedKeepsDash, SessionOverKeepsDash DEF Answer
  <2>5. ASSUME NEW s \in Sources, StreamFails(s) PROVE DashInv' BY <2>5, StreamKeepsDash
  <2>6. ASSUME NEW k \in Asks, Refuse(k) PROVE DashInv' BY <2>6, ServedKeepsDash
  <2>10. CASE TokenExpires
    BY <2>10 DEF TokenExpires, serverVars, streamVars, DashInv, DashTypeOK, Held, Answered, Initial
  <2>7. CASE \/ \E to \in {"none", "offline", "online"} : DeviceMoves(to)
             \/ \E to \in {"running", "ended"} : RunTold(to)
             \/ \E to \in {"requested", "executed"} : ToolMoves(to)
             \/ RunToldAgain \/ RunUntold
    BY <2>7, ServerKeepsDash
  <2>8. CASE OpenPage \/ LeavePage BY <2>8, OpeningKeepsDash, InitialKeepsDash
  <2>9. ASSUME NEW k \in {"pair", "create", "cancel", "tools"}, Ask(k) PROVE DashInv' BY <2>9, AskingKeepsDash
  <2> QED BY <2>1, <2>2, <2>3, <2>4, <2>5, <2>6, <2>7, <2>8, <2>9, <2>10 DEF DashNext
<1>3. DashInv => DashTypeOK BY DEF DashInv
<1> QED BY <1>1, <1>2, <1>3, PTL

-----------------------------------------------------------------------------
\* What a browser is shown of presence and screen, and what the page does, are
\* behaviours of ScreenPresence and, but for its fairness, of Dashboard, so that
\* the theorems above hold of both.
THEOREM WatchShowsBoth == WatchSpec => PresenceSpec /\ DashInit /\ [][DashNext]_dashVars
<1>1. WatchInit => PresenceInit /\ DashInit
  BY DEF WatchInit
<1>2. [WatchNext]_watchVars => [PresenceNext]_presenceVars /\ [DashNext]_dashVars
  <2>1. CASE WatchNext
    BY <2>1 DEF WatchNext
  <2>2. CASE UNCHANGED watchVars
    BY <2>2 DEF watchVars
  <2> QED BY <2>1, <2>2
<1> QED BY <1>1, <1>2, PTL DEF WatchSpec, PresenceSpec
=============================================================================
