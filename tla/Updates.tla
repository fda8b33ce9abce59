-------------------------------- MODULE Updates --------------------------------
(***************************************************************************)
(* Desktop updates: the release the server reads from GitHub and caches    *)
(* (lib/releases, the update feed of index.ts), and the desktop's updater  *)
(* (lib/desktopUpdater.ts and its callbacks and effect in App.tsx).        *)
(* Releases are numbered; a release is published first and its installers  *)
(* and signatures are uploaded later.  GitHub and the updater plugin are   *)
(* external.                                                               *)
(***************************************************************************)
EXTENDS Naturals

CONSTANT MaxReleases     \* bound: releases published

ASSUME ReleasesAssumption == MaxReleases \in Nat \ {0}

VARIABLES release, whole,   \* the latest release on GitHub, and whether it has its assets
          relCache,         \* releaseCache: the release kept, or NoRelease
          request,          \* per client of the feed: its request
          upd,              \* the updater's status, shown by the window
          restartReady, handle,   \* restartReady and desktopUpdateRef
          checkBusy,        \* desktopUpdaterActionBusyRef
          timer,            \* the timer of the background check
          version           \* the version that runs

serverVars == <<release, whole, relCache>>
windowVars == <<upd, restartReady, handle, checkBusy, version>>
updatesVars == <<serverVars, request, windowVars, timer>>

NoRelease == [n |-> 0, whole |-> FALSE]
NoHandle == [n |-> 0, at |-> "none"]
Clients == {"desktop", "other"}
Latest == [n |-> release, whole |-> whole]

UpdatesInit ==
  /\ release = 1 /\ whole = TRUE /\ relCache = NoRelease
  /\ request = [c \in Clients |-> [at |-> "none", read |-> NoRelease]]
  /\ upd = "idle" /\ restartReady = FALSE /\ handle = NoHandle /\ checkBusy = FALSE
  /\ timer = "set" /\ version = 1

(* A release is published, and then its assets are uploaded.                *)
PublishRelease ==
  /\ release < MaxReleases /\ whole
  /\ release' = release + 1 /\ whole' = FALSE
  /\ UNCHANGED <<relCache, request, windowVars, timer>>
UploadAssets ==
  /\ ~whole /\ whole' = TRUE
  /\ UNCHANGED <<release, relCache, request, windowVars, timer>>

----------------------------------------------------------------------------
(* GET /updates/desktop: getOrFetchRelease answers from the cache, or asks  *)
(* GitHub, whose answer is cached when it comes.                            *)
AskFeed(c) ==
  request' = [request EXCEPT ![c] = IF relCache # NoRelease THEN [at |-> "answer", read |-> relCache]
                                                            ELSE [at |-> "github", read |-> NoRelease]]
OtherAsks ==
  /\ request["other"].at \in {"none", "answer"} /\ AskFeed("other")
  /\ UNCHANGED <<serverVars, windowVars, timer>>

FetchRelease(c) ==
  /\ request[c].at = "github"
  /\ request' = [request EXCEPT ![c] = [at |-> "arriving", read |-> Latest]]
  /\ UNCHANGED <<serverVars, windowVars, timer>>

CacheRelease(c, ok) ==
  /\ request[c].at = "arriving"
  /\ relCache' = IF ok THEN request[c].read ELSE relCache
  /\ request' = [request EXCEPT ![c] = [at |-> "answer", read |-> IF ok THEN @.read ELSE NoRelease]]
  /\ UNCHANGED <<release, whole, windowVars, timer>>

CacheExpires ==
  /\ relCache # NoRelease /\ relCache' = NoRelease
  /\ UNCHANGED <<release, whole, request, windowVars, timer>>

(* resolveDesktopAssets: a manifest needs the installers and signatures,    *)
(* by names that hold the version.                                          *)
Manifest(read) == IF read.whole THEN read.n ELSE 0

(* getDesktopUpdateManifest: the feed answers with the manifest of the      *)
(* release that was read, or with an error (0).                             *)
FeedAnswer(read) == IF read = NoRelease THEN 0 ELSE Manifest(read)

----------------------------------------------------------------------------
(* replaceDesktopUpdateHandle *)
Replace(n, at) == handle' = [n |-> n, at |-> at]

(* runDesktopUpdateCheck, up to the answer of the feed.                     *)
RunCheck ==
  /\ checkBusy' = TRUE /\ upd' = "checking" /\ restartReady' = FALSE
  /\ AskFeed("desktop")
  /\ UNCHANGED <<serverVars, handle, version>>

(* The first effect sets the timer and the state that the effect depends    *)
(* on: the render this causes clears the timer and sets no other.           *)
RenderAgain ==
  /\ timer = "set" /\ timer' = "cleared"
  /\ UNCHANGED <<serverVars, request, windowVars>>
(* The timer fires, if 2.5 s pass before that render.                       *)
BackgroundCheck ==
  /\ timer = "set" /\ upd = "idle" /\ ~checkBusy
  /\ timer' = "fired"
  /\ RunCheck

(* Settings: the button checks, or restarts when an update is ready.        *)
ManualCheck ==
  /\ timer # "set" /\ ~checkBusy /\ ~restartReady /\ upd \notin {"checking", "downloading", "installing"}
  /\ RunCheck /\ UNCHANGED timer

(* The plugin offers a newer version only; then the download starts.        *)
CheckAnswered ==
  /\ upd = "checking" /\ request["desktop"].at = "answer"
  /\ request' = [request EXCEPT !["desktop"] = [at |-> "none", read |-> NoRelease]]
  /\ LET n == FeedAnswer(request["desktop"].read) IN
     \/ /\ n > version /\ Replace(n, "open")
        /\ upd' = "downloading" /\ UNCHANGED checkBusy
     \/ /\ n <= version /\ handle' = NoHandle
        /\ upd' = (IF n = 0 THEN "error" ELSE "upToDate") /\ checkBusy' = FALSE
  /\ UNCHANGED <<serverVars, restartReady, version, timer>>

(* Mutant: a download that failed leaves the updater busy. *)
DownloadEndedBusy(ok) ==
  /\ upd = "downloading"
  /\ IF ok THEN /\ Replace(handle.n, "downloaded") /\ upd' = "downloaded" /\ restartReady' = TRUE
                /\ checkBusy' = FALSE
           ELSE /\ handle' = NoHandle /\ upd' = "error" /\ UNCHANGED <<restartReady, checkBusy>>
  /\ UNCHANGED <<serverVars, request, version, timer>>

(* downloadDesktopUpdate *)
DownloadEnded(ok) ==
  /\ upd = "downloading"
  /\ IF ok THEN Replace(handle.n, "downloaded") /\ upd' = "downloaded" /\ restartReady' = TRUE
           ELSE handle' = NoHandle /\ upd' = "error" /\ UNCHANGED restartReady
  /\ checkBusy' = FALSE
  /\ UNCHANGED <<serverVars, request, version, timer>>

(* handleRestartToUpdate *)
RestartToUpdate ==
  /\ handle # NoHandle /\ restartReady /\ upd \in {"downloaded", "error"}
  /\ upd' = "installing"
  /\ UNCHANGED <<serverVars, request, restartReady, handle, checkBusy, version, timer>>

(* The application starts with nothing of the updater's state.              *)
Launch(n) ==
  /\ version' = n
  /\ upd' = "idle" /\ restartReady' = FALSE /\ handle' = NoHandle /\ checkBusy' = FALSE
  /\ timer' = "set" /\ request' = [request EXCEPT !["desktop"] = [at |-> "none", read |-> NoRelease]]
  /\ UNCHANGED <<serverVars>>
Installed ==
  /\ upd = "installing" /\ Launch(handle.n)
InstallFailed ==
  /\ upd = "installing" /\ upd' = "error"
  /\ UNCHANGED <<serverVars, request, restartReady, handle, checkBusy, version, timer>>
Reopen == upd # "installing" /\ timer # "set" /\ Launch(version)

UpdatesNext ==
  \/ PublishRelease \/ UploadAssets \/ OtherAsks \/ CacheExpires
  \/ \E c \in Clients : FetchRelease(c) \/ \E ok \in BOOLEAN : CacheRelease(c, ok)
  \/ RenderAgain \/ BackgroundCheck \/ ManualCheck \/ CheckAnswered
  \/ \E ok \in BOOLEAN : DownloadEnded(ok)
  \/ RestartToUpdate \/ Installed \/ InstallFailed \/ Reopen

(* Renders happen, requests are answered, downloads end or fail.            *)
UpdatesFairness ==
  /\ WF_updatesVars(RenderAgain) /\ WF_updatesVars(BackgroundCheck)
  /\ WF_updatesVars(FetchRelease("desktop")) /\ WF_updatesVars(CheckAnswered)
  /\ WF_updatesVars(\E ok \in BOOLEAN : CacheRelease("desktop", ok))
  /\ WF_updatesVars(\E ok \in BOOLEAN : DownloadEnded(ok))

UpdatesSpec == UpdatesInit /\ [][UpdatesNext]_updatesVars /\ UpdatesFairness

----------------------------------------------------------------------------

(* Types; the updater is busy exactly while it checks or downloads.         *)
UpdatesTypeOK ==
  /\ release \in 1..MaxReleases /\ version \in 1..MaxReleases /\ relCache.n <= release
  /\ handle \in [n : 0..MaxReleases, at : {"none", "open", "downloaded"}]
  /\ timer \in {"set", "cleared", "fired"}
  /\ upd \in {"idle", "checking", "downloading", "downloaded", "upToDate", "error", "installing"}
  /\ checkBusy = (upd \in {"checking", "downloading"})

(* Every check ends and another one can be started.                         *)
EveryCheckEnds == checkBusy ~> ~checkBusy

=============================================================================
