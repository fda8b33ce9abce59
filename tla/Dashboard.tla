----------------------------- MODULE Dashboard ------------------------------
(***************************************************************************)
(* The browser page with the runs and the desktops of a user               *)
(* (web/app/dashboard/legacy/page.tsx) and what it hears from the API: the *)
(* answers of its requests, each a picture of the moment in which it was   *)
(* served, and the events of /events, which come on a connection of their  *)
(* own.  The user has one desktop, one run and one tool call.              *)
(***************************************************************************)
EXTENDS Naturals, Sequences

CONSTANTS MaxMoves,     \* bound: changes of the desktop, repeated events of the run
          MaxBreaks,    \* bound: requests that fail, streams that break
          MaxSources    \* bound: EventSource objects

ASSUME DashBoundsAssumption == {MaxMoves, MaxBreaks, MaxSources} \subseteq Nat

VARIABLES dev, run, tool, \* the API: the desktop, the run and the tool call
          mode,         \* of the run
          page,         \* the page: closed, signing in, ready, at /login, useless, left
          ask,          \* per request: idle, sent, or its answer
          shown,        \* what the page shows of the three
          subscribed,   \* billing of the page: it may create runs
          bearer,       \* the access token that the browser has stored
          source,       \* per EventSource: its connection
          timers,       \* per EventSource: reconnection checks that wait
          stream,       \* per EventSource: events on the way
          loginAgain,   \* "Please log in again": a stream never opened
          moves, breaks

serverVars == <<dev, run, tool, mode>>
streamVars == <<source, timers, stream, loginAgain>>
dashVars == <<serverVars, page, ask, shown, subscribed, bearer, streamVars, moves, breaks>>

Sources == 1..MaxSources
Polls == {"poll1", "poll2"}
DeviceLists == {"devices", "paired"} \cup Polls
RunLists == {"runs", "list"}
Asks == DeviceLists \cup RunLists \cup {"me", "rest", "pair", "create", "cancel", "tools"}
NoAnswer == {"idle", "sent"}
Refusals == {"failed", "unauthorized"}
Answered(k) == ask[k] \notin NoAnswer \cup Refusals

DashInit ==
  /\ dev \in {"none", "online"} /\ run = "none" /\ tool = "none" /\ mode \in {"manual", "ai_assist"}
  /\ page = "closed" /\ ask = [k \in Asks |-> "idle"]
  /\ shown = [dev |-> "none", run |-> "none", tool |-> "none"]
  /\ subscribed = FALSE /\ bearer = "valid"
  /\ source = [s \in Sources |-> "none"] /\ timers = [s \in Sources |-> 0]
  /\ stream = [s \in Sources |-> <<>>] /\ loginAgain = FALSE
  /\ moves = 0 /\ breaks = 0

----------------------------------------------------------------------------
(* The API.  sseBroadcast: an event for each stream that is open.           *)
Broadcast(event) ==
  stream' = [s \in Sources |-> IF source[s] = "open" THEN Append(stream[s], event) ELSE stream[s]]

(* A desktop is paired, goes offline, comes back or is removed; device      *)
(* updates of the stream name no deviceId, so that the page only polls.     *)
DeviceMoves(to) ==
  /\ moves < MaxMoves /\ to # dev
  /\ moves' = moves + 1 /\ dev' = to
  /\ UNCHANGED <<run, tool, mode, page, ask, shown, subscribed, bearer, streamVars, breaks>>

(* A run is accepted, ended by its engine, or fails as the desktop refuses  *)
(* to start it: run_update.                                                 *)
RunTold(to) ==
  /\ \/ <<run, to>> \in {<<"queued", "running">>, <<"queued", "ended">>}
     \/ mode = "manual" /\ <<run, to>> = <<"running", "ended">>
  /\ run' = to
  /\ Broadcast([of |-> "run", to |-> to])
  /\ UNCHANGED <<dev, tool, mode, page, ask, shown, subscribed, bearer, source, timers, loginAgain, moves, breaks>>

(* The desktop cancels the run or reports its end: nothing is broadcast.    *)
RunUntold ==
  /\ run \in {"queued", "running"}
  /\ run' = "ended"
  /\ UNCHANGED <<dev, tool, mode, page, ask, shown, subscribed, bearer, streamVars, moves, breaks>>

(* A step, a proposal or an action of an assisted run: run_update with the  *)
(* run as it is.                                                            *)
RunToldAgain ==
  /\ mode = "ai_assist" /\ run \in {"running", "ended"} /\ moves < MaxMoves
  /\ moves' = moves + 1
  /\ Broadcast([of |-> "run", to |-> run])
  /\ UNCHANGED <<dev, run, tool, mode, page, ask, shown, subscribed, bearer, source, timers, loginAgain, breaks>>

(* The desktop calls a tool, for the run: tool_update.                      *)
ToolMoves(to) ==
  /\ run = "running" /\ <<tool, to>> \in {<<"none", "requested">>, <<"requested", "executed">>}
  /\ tool' = to
  /\ Broadcast([of |-> "tool", to |-> to])
  /\ UNCHANGED <<dev, run, mode, page, ask, shown, subscribed, bearer, source, timers, loginAgain, moves, breaks>>

(* What a request is answered with when it is served. *)
Picture(k) ==
  CASE k \in DeviceLists -> dev
    [] k \in RunLists -> run
    [] k = "tools" -> tool
    [] k = "create" /\ dev = "none" -> "failed"
    [] k = "cancel" /\ run \notin {"queued", "running"} -> "failed"
    [] OTHER -> "ok"

(* POST /runs and POST /runs/:runId/cancel change the run and broadcast     *)
(* nothing, POST /devices/:deviceId/pair gives the desktop an owner.        *)
Serve(k) ==
  /\ ask[k] = "sent" /\ bearer = "valid"
  /\ ask' = [ask EXCEPT ![k] = Picture(k)]
  /\ run' = CASE k = "create" /\ dev # "none" /\ run = "none" -> "queued"
              [] k = "cancel" /\ run \in {"queued", "running"} -> "ended"
              [] OTHER -> run
  /\ dev' = IF k = "pair" /\ dev = "none" THEN "online" ELSE dev
  /\ UNCHANGED <<tool, mode, page, shown, subscribed, bearer, streamVars, moves, breaks>>

(* A request or its answer is lost, or the API fails.  The lists that the   *)
(* page holds until the last of them comes are not lost any more.           *)
Refuse(k) ==
  /\ ask[k] \notin Refusals \cup {"idle"} /\ breaks < MaxBreaks
  /\ k = "devices" => ask["runs"] = "idle"
  /\ k = "runs" => ask["rest"] = "idle"
  /\ breaks' = breaks + 1
  /\ ask' = [ask EXCEPT ![k] = "failed"]
  /\ UNCHANGED <<serverVars, page, shown, subscribed, bearer, streamVars, moves>>

(* The stored token runs out.  Nothing but a new login stores another.      *)
TokenExpires ==
  /\ bearer = "valid" /\ bearer' = "expired"
  /\ UNCHANGED <<serverVars, page, ask, shown, subscribed, streamVars, moves, breaks>>

(* apiFetch and a 401.  The session is refreshed, but the second try has    *)
(* the stored token again, which the API looks at before the cookie; only   *)
(* /auth/me and the first two lists look at the status.                     *)
DeniedAgain(k) ==
  /\ ask[k] = "sent" /\ bearer = "expired"
  /\ ask' = [ask EXCEPT ![k] = IF k \in {"me", "devices", "runs"} THEN "unauthorized" ELSE "failed"]
  /\ UNCHANGED <<serverVars, page, shown, subscribed, bearer, streamVars, moves, breaks>>

(* Or the refresh is refused: the browser goes to /login, except from       *)
(* /auth/me, and with it everything of the page.                            *)
SessionOver(k) ==
  /\ ask[k] = "sent"
  /\ IF k = "me"
       THEN ask' = [ask EXCEPT !["me"] = "unauthorized"] /\ UNCHANGED <<page, streamVars>>
       ELSE /\ page' = "login" /\ ask' = [i \in Asks |-> "idle"]
            /\ source' = [s \in Sources |-> IF source[s] = "none" THEN "none" ELSE "closed"]
            /\ timers' = [s \in Sources |-> 0] /\ stream' = [s \in Sources |-> <<>>]
            /\ UNCHANGED loginAgain
  /\ UNCHANGED <<serverVars, shown, subscribed, bearer, moves, breaks>>

Answer(k) == Serve(k) \/ DeniedAgain(k) \/ SessionOver(k)

----------------------------------------------------------------------------
(* The page. *)
Request(k) == ask' = [ask EXCEPT ![k] = "sent"]
Done(k) == ask' = [ask EXCEPT ![k] = "idle"]

ShowDevices(list) == shown' = [shown EXCEPT !.dev = list]

(* The page goes: its interval is cleared and the stream it opened first is *)
(* closed; a stream that replaced it is not. Nobody hears the answers of    *)
(* its requests any more.                                                   *)
Leave(to) ==
  /\ page' = to /\ ask' = [k \in Asks |-> "idle"]
  /\ source' = [source EXCEPT ![1] = "closed"]
  /\ stream' = [stream EXCEPT ![1] = <<>>]
  /\ UNCHANGED <<timers, loginAgain>>

OpenPage ==
  /\ page = "closed" /\ page' = "me" /\ Request("me")
  /\ UNCHANGED <<serverVars, shown, subscribed, bearer, streamVars, moves, breaks>>

(* getMe has answered: the first requests, the stream and the interval.     *)
SignedIn ==
  /\ page = "me" /\ ask["me"] # "sent"
  /\ IF Answered("me")
       THEN /\ page' = "ready" /\ ask' = [ask EXCEPT !["me"] = "idle", !["devices"] = "sent"]
            /\ source' = [source EXCEPT ![1] = "new"]
       ELSE /\ page' = (IF ask["me"] = "unauthorized" THEN "login" ELSE "useless") /\ Done("me")
            /\ UNCHANGED source
  /\ UNCHANGED <<serverVars, shown, subscribed, bearer, timers, stream, loginAgain, moves, breaks>>

(* fetchInitialData: the desktops, then the runs, then sessions and         *)
(* billing; what came first is shown only with what came last.              *)
Initial == {"devices", "runs", "rest"}
InitialGoesOn ==
  /\ page = "ready"
  /\ \/ Answered("devices") /\ ask["runs"] = "idle" /\ Request("runs")
     \/ Answered("runs") /\ ask["rest"] = "idle" /\ Request("rest")
  /\ UNCHANGED <<serverVars, page, shown, subscribed, bearer, streamVars, moves, breaks>>

InitialShown(active) ==
  /\ page = "ready" /\ Answered("rest")
  /\ subscribed' = active
  /\ shown' = [shown EXCEPT !.dev = ask["devices"], !.run = ask["runs"]]
  /\ ask' = [k \in Asks |-> IF k \in Initial THEN "idle" ELSE ask[k]]
  /\ UNCHANGED <<serverVars, page, bearer, streamVars, moves, breaks>>

InitialFails ==
  /\ page = "ready" /\ \E k \in Initial : ask[k] \in Refusals
  /\ IF \E k \in Initial : ask[k] = "unauthorized" THEN Leave("login")
     ELSE ask' = [k \in Asks |-> IF k \in Initial THEN "idle" ELSE ask[k]] /\ UNCHANGED <<page, streamVars>>
  /\ UNCHANGED <<serverVars, shown, subscribed, bearer, moves, breaks>>

(* The interval, whether the request before was answered or not; two polls  *)
(* may overlap (a bound).                                                   *)
Poll(p) ==
  /\ page = "ready" /\ ask[p] = "idle" /\ (p = "poll2" => ask["poll1"] # "idle")
  /\ Request(p)
  /\ UNCHANGED <<serverVars, page, shown, subscribed, bearer, streamVars, moves, breaks>>

(* Mutant: a poll that fails ends the interval. *)
DevicesListedOnce(k) ==
  /\ page = "ready" /\ k \in {"paired"} \cup Polls /\ ask[k] \notin NoAnswer
  /\ ask' = IF Answered(k) THEN [ask EXCEPT ![k] = "idle"] ELSE [i \in Asks |-> IF i \in Polls THEN "failed" ELSE ask[i]]
  /\ IF Answered(k) THEN ShowDevices(ask[k]) ELSE UNCHANGED shown
  /\ UNCHANGED <<serverVars, page, subscribed, bearer, streamVars, moves, breaks>>

(* An answer with the desktops, after a poll or a pairing. *)
DevicesListed(k) ==
  /\ page = "ready" /\ k \in {"paired"} \cup Polls /\ ask[k] \notin NoAnswer
  /\ Done(k)
  /\ IF Answered(k) THEN ShowDevices(ask[k]) ELSE UNCHANGED shown
  /\ UNCHANGED <<serverVars, page, subscribed, bearer, streamVars, moves, breaks>>

(* submitPairing, handleCreateRun, handleCancelRun, handleSelectRunTools:   *)
(* the request. One at a time, and one run: bounds.                         *)
Ask(k) ==
  /\ page = "ready" /\ \A i \in {"pair", "paired", "create", "list", "cancel", "tools"} : ask[i] = "idle"
  /\ \/ k = "pair" /\ shown.dev = "none"
     \/ k = "create" /\ subscribed /\ shown.dev # "none" /\ run = "none"
     \/ k = "cancel" /\ shown.run \in {"queued", "running"}
     \/ k = "tools" /\ shown.run # "none"
  /\ Request(k)
  /\ UNCHANGED <<serverVars, page, shown, subscribed, bearer, streamVars, moves, breaks>>

(* The answer: after a pairing and a new run the list is asked for again,   *)
(* after a cancel it is not.                                                *)
AskAnswered(k) ==
  LET next == CASE k = "pair" -> "paired" [] k = "create" -> "list" [] OTHER -> "none" IN
  /\ page = "ready" /\ k \in {"pair", "create", "cancel"} /\ ask[k] \notin NoAnswer
  /\ ask' = [i \in Asks |-> IF i = k THEN "idle" ELSE IF i = next /\ Answered(k) THEN "sent" ELSE ask[i]]
  /\ UNCHANGED <<serverVars, page, shown, subscribed, bearer, streamVars, moves, breaks>>

RunsListed ==
  /\ page = "ready" /\ ask["list"] \notin NoAnswer
  /\ Done("list")
  /\ shown' = [shown EXCEPT !.run = IF Answered("list") THEN ask["list"] ELSE @]
  /\ UNCHANGED <<serverVars, page, subscribed, bearer, streamVars, moves, breaks>>

ToolsListed ==
  /\ page = "ready" /\ ask["tools"] \notin NoAnswer
  /\ Done("tools")
  /\ shown' = [shown EXCEPT !.tool = IF Answered("tools") THEN ask["tools"] ELSE @]
  /\ UNCHANGED <<serverVars, page, subscribed, bearer, streamVars, moves, breaks>>

(* handleLogoutAll, or another page.                                        *)
LeavePage ==
  /\ page = "ready"
  /\ Leave("left")
  /\ UNCHANGED <<serverVars, shown, subscribed, bearer, moves, breaks>>

----------------------------------------------------------------------------
(* The streams.  /events registers the client, and onopen is called.        *)
Opens(s) ==
  /\ source[s] \in {"new", "retry"}
  /\ source' = [source EXCEPT ![s] = "open"]
  /\ UNCHANGED <<serverVars, page, ask, shown, subscribed, bearer, timers, stream, loginAgain, moves, breaks>>

(* onmessage: an event of a run or a tool replaces the one listed, or adds  *)
(* it.                                                                      *)
Hear(s) ==
  /\ stream[s] # <<>>
  /\ LET event == Head(stream[s]) IN
       shown' = IF page # "ready" THEN shown
                ELSE IF event.of = "run" THEN [shown EXCEPT !.run = event.to]
                ELSE [shown EXCEPT !.tool = event.to]
  /\ stream' = [stream EXCEPT ![s] = Tail(@)]
  /\ UNCHANGED <<serverVars, page, ask, subscribed, bearer, source, timers, loginAgain, moves, breaks>>

(* Mutant: no reconnection check for a connection that the API refuses. *)
StreamFailsUnchecked(s) ==
  /\ breaks < MaxBreaks /\ breaks' = breaks + 1
  /\ \/ source[s] = "new" /\ source' = [source EXCEPT ![s] = "closed"]
                          /\ loginAgain' = TRUE /\ UNCHANGED timers
     \/ source[s] \in {"open", "retry"} /\ source' = [source EXCEPT ![s] = "retry"]
                          /\ timers' = [timers EXCEPT ![s] = @ + 1] /\ UNCHANGED loginAgain
     \/ source[s] = "retry" /\ source' = [source EXCEPT ![s] = "closed"]
                          /\ UNCHANGED <<loginAgain, timers>>
  /\ stream' = [stream EXCEPT ![s] = <<>>]
  /\ UNCHANGED <<serverVars, page, ask, shown, subscribed, bearer, moves>>

(* onerror.  A stream that never opened is given up; the browser reconnects *)
(* one that has, unless the API refuses it; either way a check is planned.  *)
StreamFails(s) ==
  /\ breaks < MaxBreaks /\ breaks' = breaks + 1
  /\ \/ source[s] = "new" /\ source' = [source EXCEPT ![s] = "closed"]
                          /\ loginAgain' = TRUE /\ UNCHANGED timers
     \/ source[s] \in {"open", "retry"} /\ source' = [source EXCEPT ![s] = "retry"]
                          /\ timers' = [timers EXCEPT ![s] = @ + 1] /\ UNCHANGED loginAgain
     \/ source[s] = "retry" /\ source' = [source EXCEPT ![s] = "closed"]
                          /\ timers' = [timers EXCEPT ![s] = @ + 1] /\ UNCHANGED loginAgain
  /\ stream' = [stream EXCEPT ![s] = <<>>]
  /\ UNCHANGED <<serverVars, page, ask, shown, subscribed, bearer, moves>>

(* The check, three seconds later: a closed stream is replaced, by as many  *)
(* streams as checks were planned.                                          *)
CheckStream(s) ==
  /\ timers[s] > 0
  /\ timers' = [timers EXCEPT ![s] = @ - 1]
  /\ IF source[s] = "closed"
       THEN \E new \in Sources : /\ source[new] = "none" /\ \A r \in 1..(new - 1) : source[r] # "none"
                                 /\ source' = [source EXCEPT ![new] = "new"]
       ELSE UNCHANGED source
  /\ UNCHANGED <<serverVars, page, ask, shown, subscribed, bearer, stream, loginAgain, moves, breaks>>

PageHears ==
  \/ SignedIn \/ InitialGoesOn \/ InitialFails \/ RunsListed \/ ToolsListed
  \/ \E active \in BOOLEAN : InitialShown(active)
  \/ \E k \in {"pair", "create", "cancel"} : AskAnswered(k)

OnceAsked == PageHears \/ DevicesListed("paired") \/ \E k \in Asks \ Polls : Answer(k)
Streams == \E s \in Sources : Opens(s) \/ Hear(s) \/ CheckStream(s)

DashNext ==
  \/ \E to \in {"none", "offline", "online"} : DeviceMoves(to)
  \/ \E to \in {"running", "ended"} : RunTold(to)
  \/ \E to \in {"requested", "executed"} : ToolMoves(to)
  \/ RunToldAgain \/ RunUntold \/ OpenPage \/ LeavePage \/ OnceAsked \/ Streams
  \/ TokenExpires \/ \E k \in Asks : Refuse(k)
  \/ \E k \in {"pair", "create", "cancel", "tools"} : Ask(k)
  \/ \E p \in Polls : Poll(p) \/ Answer(p) \/ DevicesListed(p)
  \/ \E s \in Sources : StreamFails(s)

(* The API answers what it is asked, its answers and events arrive, the      *)
(* checks and the interval are timers of the page.                          *)
DashFairness ==
  /\ WF_dashVars(OnceAsked) /\ WF_dashVars(Streams)
  /\ \A p \in Polls : WF_dashVars(Answer(p)) /\ WF_dashVars(DevicesListed(p))
PollFairness == \A p \in Polls : WF_dashVars(Poll(p))

DashSpec == DashInit /\ [][DashNext]_dashVars /\ DashFairness /\ PollFairness

----------------------------------------------------------------------------

Devices == {"none", "offline", "online"}
Runs == {"none", "queued", "running", "ended"}
Tools == {"none", "requested", "executed"}
Pictures(k) ==
  CASE k \in DeviceLists -> Devices
    [] k \in RunLists -> Runs
    [] k = "tools" -> Tools
    [] OTHER -> {"ok"}
Events == [of : {"run"}, to : Runs] \cup [of : {"tool"}, to : Tools]

(* Types: an answer is one to its request, and the page shows what the API  *)
(* has said, never the failure of a request; the checks that wait are no    *)
(* more than the streams that broke.                                        *)
DashTypeOK ==
  /\ dev \in Devices /\ run \in Runs /\ tool \in Tools /\ mode \in {"manual", "ai_assist"}
  /\ page \in {"closed", "me", "ready", "login", "useless", "left"}
  /\ ask \in [Asks -> NoAnswer \cup Refusals \cup Devices \cup Runs \cup Tools \cup {"ok"}]
  /\ \A k \in Asks : ask[k] \in NoAnswer \cup Refusals \cup Pictures(k)
  /\ shown \in [dev : Devices, run : Runs, tool : Tools]
  /\ {subscribed, loginAgain} \subseteq BOOLEAN /\ bearer \in {"valid", "expired"}
  /\ source \in [Sources -> {"none", "new", "open", "retry", "closed"}]
  /\ timers \in [Sources -> 0..breaks]
  /\ stream \in [Sources -> Seq(Events)]
  /\ moves \in 0..MaxMoves /\ breaks \in 0..MaxBreaks

(* The page never shows a stale list of desktops for good, whichever polls  *)
(* were overtaken by later ones, lost or failed: page.tsx:546.  The         *)
(* exception: once the stored token has run out every poll is refused.      *)
DevicesCatchUp == []<>(shown.dev = dev \/ page # "ready" \/ bearer = "expired")

(* A page that has lost its stream gets one again, unless one of its        *)
(* streams never opened, or the user has left: page.tsx:534.                *)
LiveAgain == []<>(loginAgain \/ page # "ready" \/ \E s \in Sources : source[s] = "open")
=============================================================================
