----------------------------- MODULE MCPresence -----------------------------
(* What a browser sees of a desktop: its presence and its screen, and the   *)
(* page with desktops and runs.  The two share no state, so that they are   *)
(* checked side by side: a behaviour belongs to what "focus" names, the     *)
(* other does not move.  The page is followed twice: its list of desktops,  *)
(* while there is no run and the stream does not break, and its runs, while *)
(* it polls no desktops.                                                    *)
EXTENDS ScreenPresence, Dashboard

VARIABLE focus

watchVars == <<focus, presenceVars, dashVars>>

WatchInit ==
  /\ focus \in {"presence", "desktops", "runs"}
  /\ PresenceInit /\ DashInit
  /\ dev = (IF focus = "desktops" THEN "none" ELSE "online")
  /\ focus # "runs" => mode = "manual"

DesktopsFollowed ==
  /\ focus = "desktops" /\ run' = run /\ timers' = timers /\ loginAgain' = loginAgain
  /\ ~subscribed' /\ breaks' < 2

RunsFollowed ==
  /\ focus = "runs" /\ dev' = dev /\ bearer' = bearer
  /\ \A p \in Polls : ask'[p] = "idle"
  /\ \A k \in Initial : ask'[k] \notin Refusals

(* Bound: messages of a desktop that are handled at once. *)
MaxHandlers == 2

WatchNext ==
  /\ UNCHANGED focus
  /\ \/ focus = "presence" /\ PresenceNext /\ Cardinality(work') <= MaxHandlers /\ UNCHANGED dashVars
     \/ DashNext /\ (DesktopsFollowed \/ RunsFollowed) /\ UNCHANGED presenceVars

(* PresenceFairness, DashFairness and PollFairness, each asked for only     *)
(* where its component moves, and the polls only where they are made.       *)
WatchFairness ==
  /\ WF_presenceVars(focus = "presence" /\ \E s \in SocketIds : Receive(s))
  /\ WF_presenceVars(focus = "presence" /\ \E h \in work : Handle(h))
  /\ WF_presenceVars(focus = "presence" /\ \E s \in SocketIds : SocketClosed(s))
  /\ WF_presenceVars(focus = "presence" /\ Silence)
  /\ WF_dashVars(focus # "presence" /\ OnceAsked)
  /\ WF_dashVars(focus # "presence" /\ Streams)
  /\ \A p \in Polls : /\ WF_dashVars(focus = "desktops" /\ Answer(p))
                      /\ WF_dashVars(focus = "desktops" /\ DevicesListed(p))
                      /\ WF_dashVars(focus = "desktops" /\ Poll(p))

WatchSpec == WatchInit /\ [][WatchNext]_watchVars /\ WatchFairness
=============================================================================
