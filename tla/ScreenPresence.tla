--------------------------- MODULE ScreenPresence ---------------------------
(***************************************************************************)
(* Whether a device is shown as connected, and its screen preview: the     *)
(* desktop's ScreenStreamer on a connection that comes and goes, and the   *)
(* API's socket handlers, device store, presence record and latest frame.  *)
(* Every message of a device that has said hello first waits for           *)
(* touchPresence, so the handlers of two messages can finish in any order. *)
(***************************************************************************)
EXTENDS Naturals, Sequences, FiniteSets

CONSTANTS MaxSockets, MaxToggles, MaxFrames, MaxRestarts  \* bounds

ASSUME PresenceBoundsAssumption == {MaxSockets, MaxToggles, MaxFrames, MaxRestarts} \subseteq Nat

VARIABLES link,       \* the desktop's open socket (0: none); sockets are numbered
          connected,  \* the status of WsClient is "connected": its hello was acknowledged
          made,       \* sockets opened so far
          streaming,  \* ScreenStreamer.state.isStreaming
          toggles,    \* starts and stops so far
          captures,   \* screen captures not answered yet, and made so far
          traffic,    \* messages on their way, per socket
          held,       \* sockets open at the API
          greeted,    \* sockets with helloReceived (socketToDevice)
          work,       \* handlers at work: message, socket and the await they are at
          presence,   \* the presence record: present (its "connected" is never false)
          fresh,      \* Device.lastSeenAt is less than 45 s ago
          memoryOn, rowOn,  \* screenStreamState.enabled: device store, device row
          frame,      \* screenStore holds a frame
          newest,     \* history: the newest stream state the memory and the row took
          slipped,    \* history: a stream state was not sent, lost, refused, overtaken or not saved
          restarts

presenceVars == <<link, connected, made, streaming, toggles, captures, traffic, held, greeted, work, presence, fresh,
                  memoryOn, rowOn, frame, newest, slipped, restarts>>
desktopSide == <<link, connected, made, streaming, toggles, captures>>
screenSide == <<memoryOn, rowOn, frame, newest, slipped>>

SocketIds == 1..MaxSockets
IsState(m) == m.kind \in {"on", "off"}

PresenceInit ==
  /\ link = 0 /\ connected = FALSE /\ made = 0 /\ streaming = FALSE /\ toggles = 0
  /\ captures = [open |-> 0, made |-> 0]
  /\ traffic = [s \in SocketIds |-> <<>>] /\ held = {} /\ greeted = {} /\ work = {}
  /\ presence = FALSE /\ fresh = FALSE /\ memoryOn = FALSE /\ rowOn = FALSE /\ frame = FALSE
  /\ newest = [memory |-> 0, row |-> 0] /\ slipped = FALSE /\ restarts = 0

(* wsClient.connect: the first message is the hello. *)
OpenSocket ==
  /\ link = 0 /\ made < MaxSockets
  /\ made' = made + 1 /\ link' = made' /\ held' = held \cup {made'}
  /\ traffic' = [traffic EXCEPT ![made'] = <<[kind |-> "hello", n |-> 0]>>]
  /\ UNCHANGED <<connected, streaming, toggles, captures, greeted, work, presence, fresh, screenSide, restarts>>

(* The connection breaks: the end of what was on its way is lost.           *)
LoseSocket ==
  /\ link # 0
  /\ \E kept \in 0..Len(traffic[link]) :
       /\ traffic' = [traffic EXCEPT ![link] = SubSeq(@, 1, kept)]
       /\ slipped' = (slipped \/ \E i \in kept + 1..Len(traffic[link]) : IsState(traffic[link][i]))
  /\ link' = 0 /\ connected' = FALSE
  /\ UNCHANGED <<made, streaming, toggles, captures, held, greeted, work, presence, fresh,
                 memoryOn, rowOn, frame, newest, restarts>>

(* The desktop application is quit while it streams. *)
QuitDesktop ==
  /\ streaming
  /\ streaming' = FALSE /\ link' = 0 /\ connected' = FALSE
  /\ captures' = [captures EXCEPT !.open = 0] /\ slipped' = TRUE
  /\ UNCHANGED <<made, toggles, traffic, held, greeted, work, presence, fresh, memoryOn, rowOn, frame, newest, restarts>>

(* ScreenStreamer.start (only while connected) and stop (whenever it        *)
(* streams); send() wants an open socket, and what it says is not looked at. *)
SwitchStream ==
  LET m == [kind |-> IF streaming THEN "off" ELSE "on", n |-> toggles + 1] IN
  /\ toggles < MaxToggles /\ (streaming \/ connected)
  /\ toggles' = toggles + 1 /\ streaming' = ~streaming
  /\ IF link # 0 THEN traffic' = [traffic EXCEPT ![link] = Append(@, m)] /\ UNCHANGED slipped
                 ELSE slipped' = TRUE /\ UNCHANGED traffic
  /\ UNCHANGED <<link, connected, made, captures, held, greeted, work, presence, fresh, memoryOn, rowOn, frame, newest, restarts>>

(* captureAndSend: the capture, and the frame, which is sent even if the    *)
(* streamer was stopped meanwhile.                                          *)
Capture ==
  /\ streaming /\ connected /\ captures.made < MaxFrames
  /\ captures' = [open |-> captures.open + 1, made |-> captures.made + 1]
  /\ UNCHANGED <<link, connected, made, streaming, toggles, traffic, held, greeted, work, presence, fresh, screenSide, restarts>>
SendFrame ==
  /\ captures.open > 0
  /\ captures' = [captures EXCEPT !.open = @ - 1]
  /\ traffic' = IF link = 0 THEN traffic ELSE [traffic EXCEPT ![link] = Append(@, [kind |-> "frame", n |-> captures.made])]
  /\ UNCHANGED <<link, connected, made, streaming, toggles, held, greeted, work, presence, fresh, screenSide, restarts>>

(* The ping interval of an open connection (bound: while nothing is under   *)
(* way).                                                                    *)
Ping ==
  /\ connected /\ work = {} /\ \A s \in SocketIds : traffic[s] = <<>>
  /\ traffic' = [traffic EXCEPT ![link] = <<[kind |-> "ping", n |-> 0]>>]
  /\ UNCHANGED <<desktopSide, held, greeted, work, presence, fresh, screenSide, restarts>>

(* A message reaches its handler, up to the first await: the look at the    *)
(* token of a hello, touchPresence of any other one.  Before helloReceived  *)
(* any other one is refused.                                                *)
Receive(s) ==
  LET m == Head(traffic[s]) IN
  /\ s \in held /\ traffic[s] # <<>>
  /\ traffic' = [traffic EXCEPT ![s] = Tail(@)]
  /\ IF m.kind = "hello" \/ s \in greeted
       THEN /\ work' = work \cup {[s |-> s, m |-> m, at |-> IF m.kind = "hello" THEN "authenticate" ELSE "touch"]}
            /\ UNCHANGED slipped
       ELSE UNCHANGED work /\ slipped' = (slipped \/ IsState(m))
  /\ UNCHANGED <<desktopSide, held, greeted, presence, fresh, memoryOn, rowOn, frame, newest, restarts>>

(* The token is good, and the socket is marked, even if it was closed       *)
(* meanwhile; or it is not, or the look-up fails.                           *)
Authenticate(h) ==
  /\ h.at = "authenticate"
  /\ \/ greeted' = greeted \cup {h.s} /\ work' = (work \ {h}) \cup {[h EXCEPT !.at = "register"]}
     \/ UNCHANGED greeted /\ work' = work \ {h}
  /\ UNCHANGED <<desktopSide, traffic, held, presence, fresh, screenSide, restarts>>

(* devicesRepo.upsertHello, which may fail: no hello_ack then. *)
Register(h) ==
  /\ h.at = "register"
  /\ \/ fresh' = TRUE /\ work' = (work \ {h}) \cup {[h EXCEPT !.at = "presence"]}
     \/ UNCHANGED fresh /\ work' = work \ {h}
  /\ UNCHANGED <<desktopSide, traffic, held, greeted, presence, screenSide, restarts>>

(* touchPresence: a record that is there is read, to be set again.          *)
Touch(h) ==
  /\ h.at = "touch"
  /\ work' = (work \ {h}) \cup {[h EXCEPT !.at = IF presence THEN "touched" ELSE "effect"]}
  /\ UNCHANGED <<desktopSide, traffic, held, greeted, presence, fresh, screenSide, restarts>>

(* setPresence, by touchPresence or by the hello, which is acknowledged. *)
SetPresence(h) ==
  /\ h.at \in {"touched", "presence"}
  /\ presence' = TRUE
  /\ connected' = (connected \/ (h.at = "presence" /\ h.s = link))
  /\ work' = (work \ {h}) \cup (IF h.at = "touched" THEN {[h EXCEPT !.at = "effect"]} ELSE {})
  /\ UNCHANGED <<link, made, streaming, toggles, captures, traffic, held, greeted, fresh, screenSide, restarts>>

(* Mutant: switching off leaves the last frame. *)
StreamStateKeepsFrame(h) ==
  /\ h.at = "effect" /\ IsState(h.m)
  /\ memoryOn' = (h.m.kind = "on") /\ UNCHANGED frame
  /\ newest' = [newest EXCEPT !.memory = h.m.n]
  /\ slipped' = (slipped \/ newest.memory > h.m.n)
  /\ work' = (work \ {h}) \cup {[h EXCEPT !.at = "row"]}
  /\ UNCHANGED <<desktopSide, traffic, held, greeted, presence, fresh, rowOn, restarts>>

(* device.screen.stream_state: the device store, the frame, then the row.   *)
StreamState(h) ==
  /\ h.at = "effect" /\ IsState(h.m)
  /\ memoryOn' = (h.m.kind = "on") /\ frame' = (frame /\ memoryOn')
  /\ newest' = [newest EXCEPT !.memory = h.m.n]
  /\ slipped' = (slipped \/ newest.memory > h.m.n)
  /\ work' = (work \ {h}) \cup {[h EXCEPT !.at = "row"]}
  /\ UNCHANGED <<desktopSide, traffic, held, greeted, presence, fresh, rowOn, restarts>>

(* devicesRepo.updateScreenStreamState, which may fail. *)
StreamRow(h) ==
  /\ h.at = "row" /\ work' = work \ {h}
  /\ \/ /\ rowOn' = (h.m.kind = "on") /\ fresh' = TRUE
        /\ newest' = [newest EXCEPT !.row = h.m.n]
        /\ slipped' = (slipped \/ newest.row > h.m.n)
     \/ slipped' = TRUE /\ UNCHANGED <<rowOn, fresh, newest>>
  /\ UNCHANGED <<desktopSide, traffic, held, greeted, presence, memoryOn, frame, restarts>>

(* device.screen.frame: stored while the preview is on, unless it comes too *)
(* soon or is too large; device.ping.                                       *)
FrameOrPing(h) ==
  /\ h.at = "effect" /\ ~IsState(h.m)
  /\ frame' \in IF h.m.kind = "frame" /\ memoryOn /\ h.s \in greeted THEN {frame, TRUE} ELSE {frame}
  /\ fresh' \in {fresh, fresh \/ h.m.kind = "ping"}
  /\ work' = work \ {h}
  /\ UNCHANGED <<desktopSide, traffic, held, greeted, presence, memoryOn, rowOn, newest, slipped, restarts>>

(* The close event of a socket, whichever socket the device uses now.       *)
SocketClosed(s) ==
  /\ s \in held /\ s # link /\ traffic[s] = <<>>
  /\ held' = held \ {s} /\ greeted' = greeted \ {s}
  /\ presence' = (presence /\ s \notin greeted)
  /\ UNCHANGED <<desktopSide, traffic, work, fresh, screenSide, restarts>>

(* Mutant: the presence record has no TTL. *)
SilenceKeepsPresence ==
  /\ link = 0 /\ held = {} /\ work = {} /\ (fresh \/ frame)
  /\ fresh' = FALSE /\ frame' = FALSE
  /\ UNCHANGED <<desktopSide, traffic, held, greeted, work, presence, memoryOn, rowOn, newest, slipped, restarts>>

(* 45 s without a message: presence's TTL and withPresenceState's threshold; *)
(* 60 s without a frame.                                                     *)
Silence ==
  /\ link = 0 /\ held = {} /\ work = {} /\ (presence \/ fresh \/ frame)
  /\ presence' = FALSE /\ fresh' = FALSE /\ frame' = FALSE
  /\ UNCHANGED <<desktopSide, traffic, held, greeted, work, memoryOn, rowOn, newest, slipped, restarts>>

(* Mutant: the stream state is not read back. *)
PresenceRestartOff ==
  /\ restarts < MaxRestarts /\ restarts' = restarts + 1
  /\ link' = 0 /\ connected' = FALSE /\ held' = {} /\ greeted' = {} /\ work' = {} /\ traffic' = [s \in SocketIds |-> <<>>]
  /\ memoryOn' = FALSE /\ frame' = FALSE
  /\ presence' \in {presence, FALSE}
  /\ newest' = [newest EXCEPT !.memory = newest.row]
  /\ slipped' = (slipped \/ (\E h \in work : IsState(h.m)) \/ (\E s \in SocketIds : \E i \in DOMAIN traffic[s] : IsState(traffic[s][i])))
  /\ UNCHANGED <<made, streaming, toggles, captures, fresh, rowOn>>

(* The API restarts: the device store is loaded from the rows; the presence *)
(* record survives in Redis, not in memory.                                 *)
PresenceRestart ==
  /\ restarts < MaxRestarts /\ restarts' = restarts + 1
  /\ link' = 0 /\ connected' = FALSE /\ held' = {} /\ greeted' = {} /\ work' = {} /\ traffic' = [s \in SocketIds |-> <<>>]
  /\ memoryOn' = rowOn /\ frame' = FALSE
  /\ presence' \in {presence, FALSE}
  /\ newest' = [newest EXCEPT !.memory = newest.row]
  /\ slipped' = (slipped \/ (\E h \in work : IsState(h.m)) \/ (\E s \in SocketIds : \E i \in DOMAIN traffic[s] : IsState(traffic[s][i])))
  /\ UNCHANGED <<made, streaming, toggles, captures, fresh, rowOn>>

Handle(h) == Authenticate(h) \/ Register(h) \/ Touch(h) \/ SetPresence(h) \/ StreamState(h) \/ StreamRow(h) \/ FrameOrPing(h)

(* Mutant: only the presence record counts. *)
ShownByRecord == presence

(* withPresenceState: what GET /devices says of "connected".                *)
Shown == presence \/ fresh

PresenceNext ==
  \/ OpenSocket \/ LoseSocket \/ QuitDesktop \/ SwitchStream \/ Capture \/ SendFrame \/ Ping
  \/ \E s \in SocketIds : Receive(s) \/ SocketClosed(s)
  \/ \E h \in work : Handle(h)
  \/ Silence \/ PresenceRestart

(* The API handles what arrives and hears of closed sockets; time passes.   *)
PresenceFairness ==
  /\ WF_presenceVars(\E s \in SocketIds : Receive(s))
  /\ WF_presenceVars(\E h \in work : Handle(h))
  /\ WF_presenceVars(\E s \in SocketIds : SocketClosed(s))
  /\ WF_presenceVars(Silence)

PresenceSpec == PresenceInit /\ [][PresenceNext]_presenceVars

----------------------------------------------------------------------------

Quiet == work = {} /\ \A s \in SocketIds : traffic[s] = <<>>

(* A screen frame can be fetched only while the preview is on, whatever     *)
(* order the handlers of "off" and of a late frame finish in.               *)
FrameOnlyWhileOn == frame => memoryOn

(* Once everything is handled the API believes of the preview what the      *)
(* desktop does, across reconnects and restarts, unless a stream state was  *)
(* not sent, was lost, was refused before the hello was through, was        *)
(* handled after a later one, or could not be written to the row.           *)
ServerFollowsDesktop == Quiet /\ ~slipped => memoryOn = streaming /\ rowOn = streaming

(* A device whose hello was acknowledged is shown as connected, although    *)
(* the close of an older socket has removed its presence record.            *)
OnlineIsShown == Quiet /\ connected => Shown

(* A device that stays away is shown as disconnected in the end, although a *)
(* handler that was still at work has set its presence again.               *)
GoneIsShownGone == <>[](link = 0) => <>[]~Shown
=============================================================================
