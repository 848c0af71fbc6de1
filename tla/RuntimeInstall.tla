--------------------------- MODULE RuntimeInstall ---------------------------
(***************************************************************************)
(* The job that installs the runtime of the MCP servers (services/mcp.py,  *)
(* mcp/runtime.py): a Node archive that is fetched, checked and unpacked   *)
(* by a thread, then npm ci and npm rebuild as supervised processes in one *)
(* packages directory.  A job may run out of time, be cancelled at any     *)
(* await, or be cut off by the shutdown.                                   *)
(***************************************************************************)
EXTENDS Naturals, FiniteSets

CONSTANTS
  MaxJobs,    \* bound: jobs created
  JobCancels  \* whether cancel_job is called

InstallAssumption == MaxJobs \in Nat /\ JobCancels \in BOOLEAN
Jobs == 1..MaxJobs

VARIABLES
  jobs, active,  \* jobs created; _active_job_id, or 0
  job,           \* the state a job shows
  step,          \* the await its task is at
  why,           \* what interrupted it
  thread,        \* the thread that unpacks the archive
  npm,           \* the supervised process: its outcome when it ended
  told,          \* jobs whose process was told to end
  node,          \* the managed Node: "none" or "whole"
  named,         \* whether the settings name it
  packages       \* node_modules: "none", "partial", "whole"

files == <<node, named, packages>>
ivars == <<jobs, active, job, step, why, thread, npm, told, files>>

InstallInit ==
  /\ jobs = 0 /\ active = 0 /\ job = [j \in Jobs |-> "none"] /\ step = [j \in Jobs |-> "none"]
  /\ why = [j \in Jobs |-> "none"] /\ thread = [j \in Jobs |-> "none"]
  /\ npm = [j \in Jobs |-> "none"] /\ told = {}
  /\ node = "none" /\ named = FALSE /\ packages = "none"

Put(f, j, v) == [f EXCEPT ![j] = v]
Proceed(j, label) == step' = Put(step, j, label)
Installing == {j \in Jobs : npm[j] = "runs"}

\* install_runtime: refused while the active job runs.
Busy == active # 0 /\ job[active] = "running"
Install ==
  /\ ~Busy /\ jobs < MaxJobs /\ jobs' = jobs + 1 /\ active' = jobs'
  /\ job' = Put(job, jobs', "running") /\ Proceed(jobs', "detect")
  /\ UNCHANGED <<why, thread, npm, told, files>>
\* detect_node_runtime: a usable Node is found, or none, or a download is asked for.
Detect(j, download) ==
  /\ step[j] = "detect" /\ Proceed(j, IF download THEN "fetch" ELSE "stage")
  /\ UNCHANGED <<jobs, active, job, why, thread, npm, told, files>>
Fetched(j) ==
  /\ step[j] = "fetch" /\ Proceed(j, "unpack") /\ thread' = Put(thread, j, "verify")
  /\ UNCHANGED <<jobs, active, job, why, npm, told, files>>
\* install_node_from_tarball, which nothing interrupts: the checksum and the content are
\* checked before the installed directory is removed and the new one moved there.
ThreadFails(j) ==
  /\ thread[j] = "verify" /\ thread' = Put(thread, j, "failed")
  /\ UNCHANGED <<jobs, active, job, step, why, npm, told, files>>
ThreadRemoves(j) ==
  /\ thread[j] = "verify" /\ thread' = Put(thread, j, "removed") /\ node' = "none"
  /\ UNCHANGED <<jobs, active, job, step, why, npm, told, named, packages>>
ThreadMoves(j) ==
  /\ thread[j] = "removed" /\ thread' = Put(thread, j, "done") /\ node' = "whole"
  /\ UNCHANGED <<jobs, active, job, step, why, npm, told, named, packages>>
\* The path is saved once the unpacked Node has told its version.
Unpacked(j) == thread[j] = "done"
Record(j) ==
  /\ step[j] = "unpack" /\ Unpacked(j) /\ named' = TRUE /\ Proceed(j, "stage")
  /\ UNCHANGED <<jobs, active, job, why, thread, npm, told, node, packages>>
Staged(j) ==
  /\ step[j] = "stage" /\ Proceed(j, "ci")
  /\ UNCHANGED <<jobs, active, job, why, thread, npm, told, files>>
\* run_supervised_step: npm ci first empties node_modules.
NpmStarts(j) ==
  /\ step[j] \in {"ci", "rebuild"} /\ npm' = Put(npm, j, "runs")
  /\ packages' = IF step[j] = "ci" THEN "partial" ELSE packages
  /\ Proceed(j, IF step[j] = "ci" THEN "ci runs" ELSE "rebuild runs")
  /\ UNCHANGED <<jobs, active, job, why, thread, told, node, named>>
\* What it leaves is whole when it ends well and no other one worked on the directory.
NpmEnds(j, ok) ==
  /\ npm[j] = "runs" /\ npm' = Put(npm, j, IF ok THEN "ok" ELSE "bad") /\ told' = told \ {j}
  /\ ok => j \notin told
  /\ packages' = IF step[j] = "ci runs" /\ ok /\ Installing = {j} THEN "whole" ELSE packages
  /\ UNCHANGED <<jobs, active, job, step, why, thread, node, named>>
CiSucceeded(j) == npm[j] = "ok"
CiDone(j) ==
  /\ step[j] = "ci runs" /\ CiSucceeded(j) /\ Proceed(j, "rebuild")
  /\ UNCHANGED <<jobs, active, job, why, thread, npm, told, files>>
\* A rebuild that fails is only a warning.  The status is published, or cannot be, while
\* the time limit still runs.
Completed(j) ==
  /\ step[j] = "rebuild runs" /\ npm[j] # "runs" /\ job' = Put(job, j, "completed")
  /\ Proceed(j, "status") /\ UNCHANGED <<jobs, active, why, thread, npm, told, files>>
Published(j) ==
  /\ step[j] = "status" /\ Proceed(j, "leave")
  /\ UNCHANGED <<jobs, active, job, why, thread, npm, told, files>>
\* A step fails: no checksum, another one, no npm, a conflict of the settings, npm ci.
Fails(j) ==
  /\ \/ step[j] \in {"detect", "fetch", "stage", "ci", "rebuild"}
     \/ step[j] = "unpack" /\ thread[j] \in {"failed", "done"}
     \/ step[j] = "ci runs" /\ npm[j] = "bad"
  /\ job' = (IF job[j] = "running" THEN Put(job, j, "failed") ELSE job) /\ Proceed(j, "leave")
  /\ UNCHANGED <<jobs, active, why, thread, npm, told, files>>

\* The await of the task is interrupted: a process is told to end and waited for.
Awaits == {"detect", "fetch", "unpack", "stage", "ci", "ci runs", "rebuild", "rebuild runs", "status"}
Ending(j) ==
  IF npm[j] = "runs" THEN told' = told \cup {j} /\ Proceed(j, "closing")
                     ELSE told' = told /\ Proceed(j, "closed")
Interrupt(j, cause) ==
  /\ step[j] \in Awaits /\ why' = Put(why, j, cause) /\ Ending(j)
  /\ UNCHANGED <<jobs, active, job, thread, npm, files>>
\* cancel_job shows the end at once.  It also interrupts the wait for the process.
CancelJob(j) ==
  /\ JobCancels /\ job[j] = "running" /\ job' = Put(job, j, "cancelled")
  /\ why' = Put(why, j, "cancelled")
  /\ \/ step[j] \in Awaits /\ Ending(j)
     \/ step[j] = "closing" /\ Proceed(j, "closed") /\ UNCHANGED told
  /\ UNCHANGED <<jobs, active, thread, npm, files>>
Closed(j) ==
  /\ step[j] = "closing" /\ npm[j] # "runs" /\ Proceed(j, "closed")
  /\ UNCHANGED <<jobs, active, job, why, thread, npm, told, files>>
\* Only the handler of the time limit does not look at the state that it meets.
Outcome(j) == IF why[j] = "timeout" THEN "failed"
              ELSE IF job[j] = "running" THEN "cancelled" ELSE job[j]
Interrupted(j) ==
  /\ step[j] = "closed" /\ job' = Put(job, j, Outcome(j)) /\ Proceed(j, "leave")
  /\ UNCHANGED <<jobs, active, why, thread, npm, told, files>>
\* The status is published; then the job stops being the active one, if it still is.
StillActive(j) == IF active = j THEN 0 ELSE active
Leaves(j) ==
  /\ step[j] = "leave" /\ active' = StillActive(j) /\ Proceed(j, "over")
  /\ UNCHANGED <<jobs, job, why, thread, npm, told, files>>
InstallOver ==
  /\ jobs = MaxJobs /\ \A j \in Jobs : step[j] = "over" /\ thread[j] \notin {"verify", "removed"}
  /\ Installing = {} /\ UNCHANGED ivars

JobStep(j) ==
  \/ (\E download \in BOOLEAN : Detect(j, download)) \/ Fetched(j) \/ Record(j) \/ Staged(j)
  \/ NpmStarts(j) \/ CiDone(j) \/ Completed(j) \/ Published(j) \/ Fails(j) \/ Closed(j)
  \/ Interrupted(j) \/ Leaves(j)
NpmKilled(j) == j \in told /\ NpmEnds(j, FALSE)
InstallNext ==
  \/ Install \/ InstallOver
  \/ \E j \in Jobs :
       \/ JobStep(j) \/ CancelJob(j) \/ ThreadFails(j) \/ ThreadRemoves(j) \/ ThreadMoves(j)
       \/ \E ok \in BOOLEAN : NpmEnds(j, ok)
       \/ \E cause \in {"timeout", "shutdown"} : Interrupt(j, cause)

InstallSpec == InstallInit /\ [][InstallNext]_ivars

-----------------------------------------------------------------------------
InstallTypeOK ==
  /\ jobs \in 0..MaxJobs /\ active \in 0..jobs
  /\ job \in [Jobs -> {"none", "running", "completed", "failed", "cancelled"}]
  /\ step \in [Jobs -> Awaits \cup {"none", "closing", "closed", "leave", "over"}]
  /\ why \in [Jobs -> {"none", "timeout", "shutdown", "cancelled"}]
  /\ thread \in [Jobs -> {"none", "verify", "removed", "done", "failed"}]
  /\ npm \in [Jobs -> {"none", "runs", "ok", "bad"}] /\ told \subseteq Installing
  /\ node \in {"none", "whole"} /\ named \in BOOLEAN /\ packages \in {"none", "partial", "whole"}

(* One npm at a time works on the packages directory. *)
OneInstaller == Cardinality(Installing) <= 1
(* A job that reports completion leaves whole packages. *)
CompletedIsWhole ==
  \A j \in Jobs : job[j] # "completed" /\ job'[j] = "completed" => packages = "whole"
(* One job at a time is shown as running, and it is the active one. *)
OneRunning == \A j \in Jobs : job[j] = "running" => active = j
(* A job that ended keeps its end, whatever its task still meets, except that a completed
   one fails when its time runs out while the status is published: see the README. *)
LateTimeout(j) == job[j] = "completed" /\ step[j] = "closed" /\ why[j] = "timeout"
EndStays ==
  \A j \in Jobs : job[j] \in {"completed", "failed", "cancelled"} =>
    job'[j] = job[j] \/ (LateTimeout(j) /\ job'[j] = "failed")
(* A task that is over leaves no process that was not told to end. *)
NothingLeft == \A j \in Jobs : step[j] = "over" /\ npm[j] = "runs" => j \in told
(* The settings name a Node only when one is there, except while a thread replaces it. *)
NamedIsThere == named /\ (\A j \in Jobs : thread[j] # "removed") => node = "whole"
(* A job that runs ends, and another one can then be asked for. *)
Runs(j) == job[j] = "running"
Cleared(j) == job[j] # "running" /\ active # j

\* One job, and nothing named that is not there.  (A job that is cancelled may
\* have its process beside that of the next one: see the README.)
InstallSafe ==
  /\ InstallTypeOK /\ OneRunning /\ NothingLeft /\ NamedIsThere
  /\ ~JobCancels => OneInstaller
=============================================================================
