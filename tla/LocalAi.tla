------------------------------- MODULE LocalAi -------------------------------
(***************************************************************************)
(* The desktop's managed local model runtime (src-tauri/src/local_ai.rs):  *)
(* install and Vision Boost workers, the restart in compatibility mode     *)
(* that a failing model call makes, the child process they start, the      *)
(* metadata file they read and write, and the progress the window polls.   *)
(* A call is a process; its steps are where another thread can come        *)
(* between.  Child processes are numbered; the port is served by one of    *)
(* them, by a service GORKH did not start, or by nobody.                   *)
(***************************************************************************)
EXTENDS Naturals, FiniteSets

CONSTANTS Jobs,        \* bound: calls under way at a time
          MaxJobs      \* bound: calls made, so also children spawned

ASSUME LocalBoundsAssumption == IsFiniteSet(Jobs) /\ MaxJobs \in Nat

VARIABLES job,         \* per job: kind, tier, where it is, the metadata it read
          jobs,        \* calls made
          metadata,    \* the metadata file, or NoMetadata
          binary,      \* the runtime binary on disk: "none", "partial" or "whole"
          archive,     \* the downloaded archive, at its one path: "none", "wrong" or "whole"
          pulled,      \* models on disk
          alive,       \* children that run
          slot,        \* managed_child (0: None)
          port,        \* who serves the port (0: nobody)
          workerActive, stage,   \* install_worker_active, install_progress.stage
          twoAtOnce,   \* history: two calls were starting the service, or two workers ran
          startFailed, \* history: a restart failed or found the port open
          appRestarts

localVars == <<job, jobs, metadata, binary, archive, pulled, alive, slot, port, workerActive, stage,
               twoAtOnce, startFailed, appRestarts>>
serviceVars == <<alive, slot, port>>
diskVars == <<metadata, binary, archive, pulled>>

External == MaxJobs + 1
NoMetadata == [tier |-> "none", models |-> {}, compat |-> FALSE, source |-> "none"]
NoJob == [kind |-> "none", tier |-> "none", at |-> "free", snap |-> NoMetadata, started |-> FALSE]
Tiers == {"light", "standard"}
Busy == {"planned", "installing", "starting"}
IsWorker(c) == job[c].kind \in {"install", "vision"} /\ job[c].at \notin {"free", "plan"}
Starting(c) == job[c].at \in {"spawn", "wait"}
To(c, at) == job' = [job EXCEPT ![c].at = at]

LocalInit ==
  /\ job = [c \in Jobs |-> NoJob] /\ jobs = 0
  /\ metadata = NoMetadata /\ binary = "none" /\ archive = "none" /\ pulled = {}
  /\ alive = {} /\ slot = 0 /\ port \in {0, External}
  /\ workerActive = FALSE /\ stage = "not_started"
  /\ twoAtOnce = FALSE /\ startFailed = FALSE /\ appRestarts = 0

(* Nothing to do while a worker is active or when the model is there;       *)
(* otherwise a worker is planned.                                           *)
Begin(c, kind, tier) ==
  LET model == IF kind = "vision" THEN "vision" ELSE tier
      there == metadata.tier = tier /\ model \in metadata.models /\ (kind = "vision" \/ binary # "none" \/ port # 0) IN
  /\ job[c] = NoJob /\ jobs < MaxJobs /\ ~workerActive
  /\ jobs' = jobs + 1
  /\ IF there THEN stage' = (IF port # 0 THEN "ready" ELSE "installed") /\ UNCHANGED job
              ELSE job' = [job EXCEPT ![c] = [NoJob EXCEPT !.kind = kind, !.tier = tier, !.at = "plan"]] /\ UNCHANGED stage
  /\ UNCHANGED <<diskVars, serviceVars, workerActive, twoAtOnce, startFailed, appRestarts>>

InstallStart(c, tier) == Begin(c, "install", tier)
EnableVisionBoost(c) == metadata # NoMetadata /\ Begin(c, "vision", metadata.tier)

(* The worker thread starts; the Vision Boost worker reads the metadata now *)
(* and writes it back, with its model, at the end.                          *)
Plan(c) ==
  /\ job[c].at = "plan"
  /\ job' = [job EXCEPT ![c].at = "resolve", ![c].snap = metadata]
  /\ workerActive' = TRUE /\ stage' = "planned"
  /\ twoAtOnce' = (twoAtOnce \/ \E d \in Jobs \ {c} : IsWorker(d))
  /\ UNCHANGED <<jobs, diskVars, serviceVars, startFailed, appRestarts>>

(* The service that answers is GORKH's: its child runs, or the metadata     *)
(* says that it was started from GORKH's binary.                            *)
Owned == slot \in alive \/ metadata.source = "ours"

(* The runtime may be restarted in compatibility mode: it is not there      *)
(* already, and no service of somebody else answers.                        *)
MayRetry == (port # 0 => Owned) /\ metadata # NoMetadata /\ ~metadata.compat

(* A model job failed in the graphics path: the metadata is rewritten and  *)
(* the runtime will be restarted.                                           *)
Compat(c) ==
  /\ job[c] = NoJob /\ jobs < MaxJobs /\ MayRetry
  /\ jobs' = jobs + 1
  /\ metadata' = [metadata EXCEPT !.compat = TRUE]
  /\ job' = [job EXCEPT ![c] = [NoJob EXCEPT !.kind = "compat", !.tier = metadata.tier, !.at = "stop"]]
  /\ UNCHANGED <<binary, archive, pulled, serviceVars, workerActive, stage, twoAtOnce, startFailed, appRestarts>>

(* stop_runtime: the child is killed and waited for.                        *)
Killed(child) ==
  /\ alive' = alive \ {child} /\ slot' = 0
  /\ port' = IF port = child THEN 0 ELSE port

(* start_runtime returns at once if somebody serves the port.               *)
StartRuntime(c) ==
  IF port' # 0 THEN job' = [job EXCEPT ![c] = NoJob] /\ startFailed' = TRUE
               ELSE To(c, "resolve") /\ UNCHANGED startFailed

(* stop_runtime of the managed child, then start_runtime.                   *)
CompatStop(c) ==
  /\ job[c].at = "stop"
  /\ IF slot \in alive THEN Killed(slot) ELSE UNCHANGED serviceVars
  /\ stage' = "starting"
  /\ StartRuntime(c)
  /\ UNCHANGED <<jobs, diskVars, workerActive, twoAtOnce, appRestarts>>

(* The end of a job: a worker that failed leaves "error", a restart that   *)
(* failed leaves the stage it had reached.                                  *)
Fail(c) ==
  /\ job' = [job EXCEPT ![c] = NoJob]
  /\ IF job[c].kind = "compat" THEN startFailed' = TRUE /\ UNCHANGED <<stage, workerActive>>
                                ELSE stage' = "error" /\ workerActive' = FALSE /\ UNCHANGED startFailed

(* What the steps that fetch the binary leave alone.                        *)
elsewhere == <<jobs, metadata, pulled, serviceVars, twoAtOnce, appRestarts>>
Goes(c, at) == To(c, at) /\ UNCHANGED <<stage, startFailed, workerActive>>

(* The binary is there: the service is started next.                        *)
HasBinary(c) ==
  /\ To(c, "ensure")
  /\ stage' = IF job[c].kind = "vision" THEN "installing" ELSE "starting"
  /\ UNCHANGED <<startFailed, workerActive>>

(* ensure_runtime_binary: whatever file is at the path is the binary.       *)
Resolve(c) ==
  /\ job[c].at = "resolve"
  /\ IF binary # "none" THEN HasBinary(c) /\ UNCHANGED archive
     ELSE /\ To(c, "download") /\ stage' = "installing"
          /\ archive' = "wrong" /\ UNCHANGED <<startFailed, workerActive>>
  /\ UNCHANGED <<binary, elsewhere>>

(* The archive is written chunk by chunk to the one path there is; another  *)
(* worker that truncates it meanwhile leaves a hole. A download that fails  *)
(* leaves what it wrote.                                                    *)
Download(c) ==
  /\ job[c].at = "download"
  /\ \/ archive' \in {"wrong", "whole"} /\ Goes(c, "verify")
     \/ archive' = "wrong" /\ Goes(c, "adopt")
  /\ UNCHANGED <<binary, elsewhere>>

(* The checksum is of the archive as it is now.                             *)
Verify(c) ==
  /\ job[c].at = "verify"
  /\ IF archive = "whole" THEN Goes(c, "extract") ELSE Goes(c, "adopt")
  /\ UNCHANGED <<binary, archive, elsewhere>>

(* The entry is found and the file at the path created, to be filled next;  *)
(* or the archive is gone or cannot be read.                                *)
Extract(c) ==
  /\ job[c].at = "extract"
  /\ \/ archive # "none" /\ binary' = "partial" /\ Goes(c, "unpack")
     \/ UNCHANGED binary /\ Goes(c, "adopt")
  /\ UNCHANGED <<archive, elsewhere>>

(* The file is filled and made executable, the archive removed; or the copy *)
(* fails, and the file stays as it is.                                      *)
Unpack(c) ==
  /\ job[c].at = "unpack"
  /\ \/ archive = "whole" /\ binary' = "whole" /\ archive' = "none" /\ HasBinary(c)
     \/ UNCHANGED <<binary, archive>> /\ Goes(c, "adopt")
  /\ UNCHANGED elsewhere

(* No managed runtime: an engine that the machine has is copied to the      *)
(* path, if there is one and the copy succeeds.                             *)
Adopt(c) ==
  /\ job[c].at = "adopt"
  /\ \/ binary' = "partial" /\ Goes(c, "copy")
     \/ UNCHANGED binary /\ Fail(c)
  /\ UNCHANGED <<archive, elsewhere>>
Copy(c) ==
  /\ job[c].at = "copy"
  /\ \/ binary' = "whole" /\ HasBinary(c)
     \/ UNCHANGED binary /\ Fail(c)
  /\ UNCHANGED <<archive, elsewhere>>

Started(c, here) ==
  IF job[c].kind = "compat"
    THEN job' = [job EXCEPT ![c] = NoJob] /\ stage' = "ready"
    ELSE job' = [job EXCEPT ![c].at = "pull", ![c].started = here] /\ stage' = "installing"

(* ensure_service_running: nothing to start if a child runs or the port is  *)
(* open.                                                                    *)
Ensure(c) ==
  /\ job[c].at = "ensure"
  /\ slot' = IF slot \in alive THEN slot ELSE 0
  /\ IF slot \in alive \/ port # 0 THEN Started(c, FALSE)
                                   ELSE To(c, "spawn") /\ UNCHANGED stage
  /\ UNCHANGED <<jobs, diskVars, alive, port, workerActive, twoAtOnce, startFailed, appRestarts>>

(* A binary that the system cannot execute.                                 *)
SpawnFails(c) ==
  /\ job[c].at = "spawn" /\ binary = "partial"
  /\ Fail(c)
  /\ UNCHANGED <<jobs, diskVars, serviceVars, twoAtOnce, appRestarts>>

(* The child is spawned and takes the slot, whatever was in it.             *)
Spawn(c) ==
  /\ job[c].at = "spawn"
  /\ LET child == CHOOSE n \in 1..MaxJobs : n \notin alive IN
       alive' = alive \cup {child} /\ slot' = child
  /\ To(c, "wait")
  /\ twoAtOnce' = (twoAtOnce \/ \E d \in Jobs \ {c} : Starting(d))
  /\ UNCHANGED <<jobs, diskVars, port, workerActive, stage, startFailed, appRestarts>>

(* Mutant: a child that was too slow is left running. *)
WaitLeaves(c) ==
  /\ job[c].at = "wait"
  /\ \/ port # 0 /\ Started(c, TRUE) /\ UNCHANGED <<serviceVars, startFailed, workerActive>>
     \/ port = 0 /\ slot' = 0 /\ UNCHANGED <<alive, port>> /\ Fail(c)
  /\ UNCHANGED <<jobs, diskVars, twoAtOnce, appRestarts>>

(* wait_for_service_port: the port opens; or the child is gone or too slow, *)
(* and whatever is in the slot is killed.                                   *)
Wait(c) ==
  /\ job[c].at = "wait"
  /\ \/ port # 0 /\ Started(c, TRUE) /\ UNCHANGED <<serviceVars, startFailed, workerActive>>
     \/ port = 0 /\ Killed(slot) /\ Fail(c)
  /\ UNCHANGED <<jobs, diskVars, twoAtOnce, appRestarts>>

(* pull_model, unless the metadata lists the model.                         *)
Pull(c, ok) ==
  LET kind == job[c].kind
      model == IF kind = "vision" THEN "vision" ELSE job[c].tier
      listed == model \in (IF kind = "vision" THEN job[c].snap ELSE metadata).models IN
  /\ job[c].at = "pull" /\ (ok => (port # 0 /\ binary = "whole") \/ listed) /\ (listed => ok)
  /\ pulled' = IF ok /\ ~listed THEN pulled \cup {model} ELSE pulled
  /\ IF ok THEN To(c, "write") /\ UNCHANGED <<startFailed, stage, workerActive>> ELSE Fail(c)
  /\ UNCHANGED <<jobs, metadata, binary, archive, serviceVars, twoAtOnce, appRestarts>>

(* write_metadata: an install lists its model only and ends compatibility   *)
(* mode; Vision Boost adds to what it read when it started.                 *)
Write(c) ==
  /\ job[c].at = "write"
  /\ metadata' = IF job[c].kind = "vision"
                   THEN [job[c].snap EXCEPT !.models = @ \cup {"vision"}, !.tier = job[c].tier]
                   ELSE [tier |-> job[c].tier, models |-> {job[c].tier}, compat |-> FALSE,
                         source |-> IF job[c].started THEN "ours" ELSE "existing"]
  /\ job' = [job EXCEPT ![c] = NoJob]
  /\ stage' = "ready" /\ workerActive' = FALSE
  /\ UNCHANGED <<jobs, binary, archive, pulled, serviceVars, twoAtOnce, startFailed, appRestarts>>

(* The child listens, if the port is free and its binary is whole, or       *)
(* exits.                                                                   *)
ChildServes(child) ==
  /\ child \in alive /\ port = 0 /\ binary = "whole"
  /\ port' = child
  /\ UNCHANGED <<job, jobs, diskVars, alive, slot, workerActive, stage, twoAtOnce, startFailed, appRestarts>>
ChildExits(child) ==
  /\ child \in alive
  /\ alive' = alive \ {child} /\ port' = IF port = child THEN 0 ELSE port
  /\ UNCHANGED <<job, jobs, diskVars, slot, workerActive, stage, twoAtOnce, startFailed, appRestarts>>

(* The window asks for the status: a child that has exited leaves the slot. *)
RuntimeStatus ==
  /\ slot \notin alive \cup {0}
  /\ slot' = 0
  /\ UNCHANGED <<job, jobs, diskVars, alive, port, workerActive, stage, twoAtOnce, startFailed, appRestarts>>

(* stop_runtime, on its own. *)
StopRuntime ==
  /\ slot \in alive
  /\ Killed(slot)
  /\ stage' = IF metadata = NoMetadata THEN "not_started" ELSE "installed"
  /\ UNCHANGED <<job, jobs, diskVars, workerActive, twoAtOnce, startFailed, appRestarts>>

(* The application is closed and opened: its threads are gone, its child    *)
(* runs on.                                                                 *)
AppRestart ==
  /\ appRestarts = 0 /\ appRestarts' = 1
  /\ job' = [c \in Jobs |-> NoJob]
  /\ slot' = 0 /\ workerActive' = FALSE /\ stage' = "not_started"
  /\ UNCHANGED <<jobs, diskVars, alive, port, twoAtOnce, startFailed>>

Work(c) ==
  \/ Plan(c) \/ CompatStop(c)
  \/ Resolve(c) \/ Download(c) \/ Verify(c) \/ Extract(c) \/ Unpack(c) \/ Adopt(c) \/ Copy(c)
  \/ Ensure(c) \/ SpawnFails(c) \/ Spawn(c) \/ Wait(c) \/ Write(c)
  \/ \E ok \in BOOLEAN : Pull(c, ok)

LocalNext ==
  \/ \E c \in Jobs : \/ \E tier \in Tiers : InstallStart(c, tier)
                      \/ EnableVisionBoost(c) \/ Compat(c) \/ Work(c)
  \/ \E child \in 1..MaxJobs : ChildServes(child) \/ ChildExits(child)
  \/ RuntimeStatus \/ StopRuntime \/ AppRestart

LocalSpec == LocalInit /\ [][LocalNext]_localVars

----------------------------------------------------------------------------

(* Types; only a child that runs, or a foreign service, serves the port;    *)
(* what the metadata records was installed with a binary that is whole,     *)
(* unless two workers wrote the same files.                                 *)
LocalTypeOK ==
  /\ \A c \in Jobs : /\ job[c].kind \in {"none", "install", "vision", "compat"}
                      /\ job[c].at \in {"free", "plan", "stop", "resolve", "download", "verify", "extract", "unpack",
                                     "adopt", "copy", "ensure", "spawn", "wait", "pull", "write"}
  /\ metadata.models \subseteq Tiers \cup {"vision"} /\ pulled \subseteq Tiers \cup {"vision"}
  /\ port \in alive \cup {0, External} /\ slot \in 0..MaxJobs /\ alive \subseteq 1..MaxJobs
  /\ binary \in {"none", "partial", "whole"} /\ archive \in {"none", "wrong", "whole"}
  /\ metadata # NoMetadata /\ ~twoAtOnce => binary = "whole"
  /\ stage \in {"not_started", "planned", "installing", "installed", "starting", "ready", "error"}

(* A start that failed leaves no process behind that stop_runtime cannot    *)
(* reach, unless two calls started the service at once or the application   *)
(* was restarted.                                                           *)
NoOrphan == ~twoAtOnce /\ appRestarts = 0 => alive \subseteq {slot}

(* The progress the window polls says "planned", "installing" or "starting" *)
(* only while somebody works, unless a restart in compatibility mode failed *)
(* or found the port open.                                                  *)
StageIsHonest == stage \in Busy /\ ~startFailed => \E c \in Jobs : job[c].at # "free"

=============================================================================
