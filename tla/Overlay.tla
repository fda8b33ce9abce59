-------------------------------- MODULE Overlay --------------------------------
(***************************************************************************)
(* Overlay mode: while the assistant runs, the desktop's window is a       *)
(* frameless full-screen overlay.  An effect of App.tsx and the two stop   *)
(* buttons call the native commands, which the main thread runs one after  *)
(* the other in the order of the calls; every call goes on by asking for   *)
(* the overlay's status.  The window itself is the operating system's:     *)
(* "framed" stands for its decorations and its being resizable.  Modelled  *)
(* for the systems that support overlay mode; on the others the effect     *)
(* ends with the first status.                                             *)
(***************************************************************************)
EXTENDS Naturals, Sequences

CONSTANTS MaxCalls,     \* bound: calls under way when a new one may be made
          MaxFails      \* bound: window calls that fail

VARIABLES win,          \* the main window: fullscreen, framed, on top of the others
          kept,         \* OverlayModeState.previous: the snapshot, if there is one
          overlayOn,    \* OverlayModeState.active
          winCalls,     \* native calls under way: what is asked, and whether its answer counts
          aiRunning,    \* aiState.isRunning
          overlayShown, \* overlayModeStatus: "unknown" before the first answer
          exitFailed,   \* history: an exit failed
          entered,      \* history: the window that overlay mode was entered from,
                        \* unless the user has changed it since
          winFails      \* history: window calls that failed

nativeVars == <<win, kept, overlayOn>>
overlayVars == <<nativeVars, winCalls, aiRunning, overlayShown, exitFailed, entered, winFails>>

Plain == [fullscreen |-> FALSE, framed |-> TRUE, onTop |-> FALSE]
Screened == [fullscreen |-> TRUE, framed |-> FALSE, onTop |-> TRUE]
Call(ask) == [ask |-> ask, by |-> "user"]

(* The effect that follows the assistant: it enters or leaves overlay mode, *)
(* and the calls of its last run are canceled, so that their answers do not *)
(* count.                                                                   *)
Sync(wanted) == <<[ask |-> IF wanted THEN "enter" ELSE "exit", by |-> "effect"]>>
Canceled(cs) == [i \in DOMAIN cs |-> IF cs[i].by = "effect" THEN [cs[i] EXCEPT !.by = "nobody"] ELSE cs[i]]

(* The window has been opened: the first effects ask for the status and,    *)
(* as no assistant runs, leave overlay mode.                                *)
OverlayInit ==
  /\ win = Plain /\ kept = <<>> /\ overlayOn = FALSE
  /\ aiRunning = FALSE /\ overlayShown = "unknown"
  /\ winCalls = <<Call("status")>> \o Sync(FALSE)
  /\ exitFailed = FALSE /\ entered = <<>> /\ winFails = 0

----------------------------------------------------------------------------
(* The window: App.tsx.                                                     *)

(* aiState changes: the effect runs again.                                  *)
Follows(run, more) ==
  /\ aiRunning' = run
  /\ winCalls' = Canceled(winCalls) \o more \o Sync(run)

(* The assistant starts, long after the first status came.                  *)
AssistantStarts ==
  /\ ~aiRunning /\ overlayShown # "unknown" /\ Len(winCalls) < MaxCalls
  /\ Follows(TRUE, <<>>)
  /\ UNCHANGED <<nativeVars, overlayShown, exitFailed, entered, winFails>>

(* It ends by itself: only the effect leaves overlay mode.                  *)
AssistantEnds ==
  /\ aiRunning /\ Len(winCalls) < MaxCalls
  /\ Follows(FALSE, <<>>)
  /\ UNCHANGED <<nativeVars, overlayShown, exitFailed, entered, winFails>>

(* handleStopAi: it leaves overlay mode itself, and the effect does too.    *)
StopPressed ==
  /\ aiRunning /\ Len(winCalls) < MaxCalls
  /\ Follows(FALSE, <<Call("exit")>>)
  /\ UNCHANGED <<nativeVars, overlayShown, exitFailed, entered, winFails>>

(* handleStopAll pauses the assistant, which goes on being running.         *)
StopAllPressed ==
  /\ Len(winCalls) < MaxCalls
  /\ winCalls' = Append(winCalls, Call("exit"))
  /\ UNCHANGED <<nativeVars, aiRunning, overlayShown, exitFailed, entered, winFails>>

----------------------------------------------------------------------------
(* The native side: lib.rs.                                                 *)

(* capture_overlay_window_snapshot, which does not ask whether the window   *)
(* is on top, and restore_overlay_window_snapshot.                          *)
Snapshot == [fullscreen |-> win.fullscreen, framed |-> win.framed]
Restored(s) == [fullscreen |-> s.fullscreen, framed |-> s.framed, onTop |-> FALSE]

(* invokeKeyResult comes back: the caller asks for the status.              *)
AsksStatus(ok) ==
  LET c == Head(winCalls) IN
  winCalls' = IF ok THEN Append(Tail(winCalls), [c EXCEPT !.ask = "status"]) ELSE Tail(winCalls)

MayFail == winFails < MaxFails

(* main_window_enter_overlay_mode: a failure before the last step leaves    *)
(* the window as it is by then, a failure of the last is undone.            *)
Enter ==
  /\ winCalls # <<>> /\ Head(winCalls).ask = "enter"
  /\ \/ /\ win' = Screened /\ kept' = <<Snapshot>> /\ overlayOn' = TRUE
        /\ entered' = <<win>> /\ AsksStatus(TRUE) /\ UNCHANGED winFails
     \/ /\ MayFail /\ winFails' = winFails + 1 /\ AsksStatus(FALSE) /\ UNCHANGED entered
        /\ \/ win' \in {win, [win EXCEPT !.framed = FALSE], [win EXCEPT !.framed = FALSE, !.onTop = TRUE]}
              /\ UNCHANGED <<kept, overlayOn>>
           \/ win' = Restored(Snapshot) /\ kept' = <<>> /\ overlayOn' = FALSE
  /\ UNCHANGED <<aiRunning, overlayShown, exitFailed>>

(* main_window_exit_overlay_mode_impl: the snapshot is restored; without    *)
(* one, the window becomes a framed one that is not in full screen.  A      *)
(* failure ends it on the way.                                              *)
Before == IF kept = <<>> THEN Plain ELSE Restored(Head(kept))
Leave == win' = Before /\ kept' = <<>> /\ overlayOn' = FALSE
LeaveFails ==
  /\ MayFail /\ winFails' = winFails + 1 /\ exitFailed' = TRUE
  /\ LET full == [win EXCEPT !.fullscreen = Before.fullscreen]
     IN win' \in {win, full, [full EXCEPT !.onTop = FALSE], Before}
  /\ UNCHANGED <<kept, overlayOn>>

(* Mutant: leaving does nothing unless overlay mode is active.              *)
ExitIfActive ==
  /\ winCalls # <<>> /\ Head(winCalls).ask = "exit"
  /\ \/ (IF overlayOn THEN Leave ELSE UNCHANGED nativeVars) /\ AsksStatus(TRUE) /\ UNCHANGED <<exitFailed, winFails>>
     \/ LeaveFails /\ AsksStatus(FALSE)
  /\ UNCHANGED <<aiRunning, overlayShown, entered>>

(* main_window_exit_overlay_mode                                            *)
Exit ==
  /\ winCalls # <<>> /\ Head(winCalls).ask = "exit"
  /\ \/ Leave /\ AsksStatus(TRUE) /\ UNCHANGED <<exitFailed, winFails>>
     \/ LeaveFails /\ AsksStatus(FALSE)
  /\ UNCHANGED <<aiRunning, overlayShown, entered>>

(* main_window_overlay_status: a canceled run of the effect shows nothing.  *)
(* The first answer makes the effect run again, as "supported" is known.    *)
StatusAnswered ==
  LET counts == Head(winCalls).by # "nobody" IN
  /\ winCalls # <<>> /\ Head(winCalls).ask = "status"
  /\ overlayShown' = IF counts THEN (IF overlayOn THEN "on" ELSE "off") ELSE overlayShown
  /\ winCalls' = IF overlayShown = "unknown" /\ counts THEN Canceled(Tail(winCalls)) \o Sync(aiRunning)
                                           ELSE Tail(winCalls)
  /\ UNCHANGED <<nativeVars, aiRunning, exitFailed, entered, winFails>>

(* The user closes the window, which leaves overlay mode and is only hidden *)
(* without it.                                                              *)
CloseRequested ==
  /\ overlayOn
  /\ \/ Leave /\ UNCHANGED <<exitFailed, winFails>>
     \/ LeaveFails
  /\ entered' = <<>>
  /\ UNCHANGED <<winCalls, aiRunning, overlayShown>>

(* The user switches full screen on or off while nothing else happens.      *)
UserSwitches ==
  /\ ~aiRunning /\ winCalls = <<>> /\ win.framed
  /\ win' = [win EXCEPT !.fullscreen = ~@] /\ entered' = <<>>
  /\ UNCHANGED <<kept, overlayOn, winCalls, aiRunning, overlayShown, exitFailed, winFails>>

OverlayNext ==
  \/ AssistantStarts \/ AssistantEnds \/ StopPressed \/ StopAllPressed
  \/ Enter \/ Exit \/ StatusAnswered \/ CloseRequested \/ UserSwitches

OverlaySpec == OverlayInit /\ [][OverlayNext]_overlayVars

----------------------------------------------------------------------------

(* Nothing is left of overlay mode once the assistant has stopped and the   *)
(* calls are over: not after a stop that came before the entry was made,    *)
(* nor after an entry that failed half-way.  Only an exit that failed may   *)
(* leave it, and the next entry then takes the overlay for what to restore. *)
NoOverlayLeft ==
  ~aiRunning /\ winCalls = <<>> /\ ~exitFailed => win.framed /\ ~win.onTop /\ ~overlayOn /\ kept = <<>>

(* docs/plans/gorkh-overlay-mode.md:103-110: overlay mode must restore the  *)
(* prior window state, also when the user presses Stop.                     *)
PriorStateRestored ==
  ~aiRunning /\ winCalls = <<>> /\ winFails = 0 /\ entered # <<>> => win = Head(entered)
=============================================================================
