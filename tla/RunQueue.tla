------------------------------ MODULE RunQueue ------------------------------
(***************************************************************************)
(* Replay runs under the Kubernetes executor with a capacity (crates/      *)
(* deja-orchestrator: executor/{scheduler,reconcile,launch}.rs, api/runs.rs*)
(* and the kill and ingest handlers of main.rs).  A run is a row of the    *)
(* store and a Job of the cluster.  POST /runs inserts the row and starts a*)
(* launcher thread that creates the Job suspended; the scheduler resumes   *)
(* Jobs oldest first while fewer than Capacity of them run; the runner in  *)
(* the Job's pod pushes its verdict back; a watcher thread, the reconciler *)
(* and an operator's kill settle the runs that never report.  Every one of *)
(* them settles the row through one guarded UPDATE.                        *)
(*                                                                         *)
(* A step is one call of the store or of the API server, so passes act on  *)
(* lists that may be stale by the time they act.                           *)
(***************************************************************************)
EXTENDS Integers, Sequences, FiniteSets

CONSTANTS
    N,           \* bound: how many runs are requested
    Capacity,    \* DEJA_MAX_CONCURRENT_RUNS, at least 1: scheduling is on
    LastAge,     \* bound: 1, or 2 if a run may reach the queue deadline
    SlowLaunch,  \* may a launch take longer than the orphan grace?
    Kills,       \* bound: the runs an operator may kill
    Faults,      \* which calls may fail
    MaxFaults    \* bound: how many of them do

ASSUME QueueAssumption ==
    /\ N \in Nat \ {0} /\ Capacity \in Nat \ {0}
    /\ LastAge \in 1 .. 2 /\ MaxFaults \in Nat
    /\ SlowLaunch \in BOOLEAN /\ Kills \subseteq 1 .. N
    /\ Faults \subseteq {"launch", "api", "store", "push", "restart",
                         "client", "pod", "trouble"}

Runs == 1 .. N                 \* in the order the rows were created

VARIABLES
    row,       \* replay_runs.state: `active' stands for every open state
    age,       \* now() - created_at: 0 young, 1 past orphan grace, 2 overdue
    launcher,  \* the thread of spawn_k8s_job
    job,       \* the Job in the cluster
    trouble,   \* what the Job's pod shows and the Job does not
    verdict,   \* what the runner in the pod came to
    push,      \* TRUE while the runner's Finish is under way
    watch,     \* the thread of watch_k8s_run, or the verdict it will report
    kill,      \* the kill request
    sched,     \* the scheduler's pass
    recon,     \* the reconciler's pass
    blocked,   \* blocked_since: runs an earlier pass saw blocked
    kube,      \* the process could build its Kubernetes client
    faults     \* how many more calls may fail

cluster == <<job, trouble, verdict>>
threads == <<launcher, push, watch, kill>>
loops   == <<sched, recon, blocked>>
vars    == <<row, age, cluster, threads, loops, kube, faults>>

-----------------------------------------------------------------------------
Verdicts == {"completed", "failed"}

\* One effect of a pass on a run: resume or delete its Job, or settle its row.
Op == [do : {"resume", "delete"}] \cup [do : {"settle"}, to : Verdicts]
ResumeJob    == [do |-> "resume"]
DeleteJob    == [do |-> "delete"]
SettleRow(v) == [do |-> "settle", to |-> v]

\* A pass: the active rows it listed, those of them past the age it asks
\* about, the runs it left waiting, and the effects still to apply, which it
\* applies run by run.
Pass    == [pc : {"sleep", "listed", "acting", "pods"}, seen : SUBSET Runs,
            old : SUBSET Runs, live : SUBSET Runs, todo : [Runs -> Seq(Op)]]
Nothing == [r \in Runs |-> <<>>]
Asleep  == [pc |-> "sleep", seen |-> {}, old |-> {}, live |-> {},
            todo |-> Nothing]

TypeOK ==
    /\ row \in [Runs -> {"none", "active"} \cup Verdicts]
    /\ age \in [Runs -> 0 .. LastAge]
    /\ launcher \in [Runs -> {"off", "building", "failing"}]
    /\ job \in [Runs -> {"absent", "suspended", "running", "complete", "failed"}]
    /\ trouble \in [Runs -> {"none", "restarted", "blocked"}]
    /\ verdict \in [Runs -> {"none"} \cup Verdicts]
    /\ push \in [Runs -> BOOLEAN]
    /\ watch \in [Runs -> {"off", "watching"} \cup Verdicts]
    /\ kill \in [Runs -> {"no", "deleted", "done"}]
    /\ sched \in Pass /\ recon \in Pass
    /\ blocked \subseteq Runs
    /\ kube \in BOOLEAN
    /\ faults \in 0 .. MaxFaults

Init ==
    /\ row = [r \in Runs |-> "none"]
    /\ age = [r \in Runs |-> 0]
    /\ launcher = [r \in Runs |-> "off"]
    /\ job = [r \in Runs |-> "absent"]
    /\ trouble = [r \in Runs |-> "none"]
    /\ verdict = [r \in Runs |-> "none"]
    /\ push = [r \in Runs |-> FALSE]
    /\ watch = [r \in Runs |-> "off"]
    /\ kill = [r \in Runs |-> "no"]
    /\ sched = Asleep /\ recon = Asleep
    /\ blocked = {}
    /\ kube = TRUE
    /\ faults = MaxFaults

NoFault == UNCHANGED faults
Fault(kind) ==
    /\ kind \in Faults /\ faults > 0
    /\ faults' = faults - 1

-----------------------------------------------------------------------------
(* The two calls everybody makes.                                          *)

Terminal(r) == row[r] \in Verdicts

\* variant: the UPDATE without its terminal guard
SettledUnguarded(r, v) == [row EXCEPT ![r] = IF @ = "none" THEN @ ELSE v]

\* update_run_state: only a row that has no verdict yet takes one.
Settled(r, v) ==
    [row EXCEPT ![r] = IF @ = "none" \/ Terminal(r) THEN @ ELSE v]

Settle(r, v) ==
    \/ row' = Settled(r, v) /\ NoFault
    \/ Fault("store") /\ UNCHANGED row     \* logged, never retried

\* delete_job, and the pods with it; an error leaves the Job in place.
Delete(r) ==
    \/ job' = [job EXCEPT ![r] = "absent"] /\ NoFault
    \/ Fault("api") /\ UNCHANGED job

-----------------------------------------------------------------------------
(* A run's own threads: POST /runs, the launcher, the kill request.        *)

\* With a queue the row is inserted before anything is launched, or the
\* request is refused.
CreateRun(r) ==
    /\ row[r] = "none" /\ \A q \in 1 .. r - 1 : row[q] # "none"
    /\ row' = [row EXCEPT ![r] = "active"]
    /\ launcher' = [launcher EXCEPT ![r] = "building"]
    /\ UNCHANGED <<age, cluster, push, watch, kill, loops, kube, faults>>

\* A refused create may still have been applied by the API server.
Launch(r) ==
    /\ launcher[r] = "building"
    /\ \/ /\ kube /\ NoFault
          /\ job' = [job EXCEPT ![r] = IF @ = "absent" THEN "suspended" ELSE @]
          /\ launcher' = [launcher EXCEPT ![r] = "off"]
       \/ /\ IF kube THEN Fault("launch") ELSE NoFault
          /\ job' \in {job} \cup
               (IF kube THEN {[job EXCEPT ![r] = "suspended"]} ELSE {})
          /\ launcher' = [launcher EXCEPT ![r] = "failing"]
    /\ UNCHANGED <<row, age, trouble, verdict, push, watch, kill, loops, kube>>

LaunchFailed(r) ==
    /\ launcher[r] = "failing"
    /\ Settle(r, "failed")
    /\ launcher' = [launcher EXCEPT ![r] = "off"]
    /\ UNCHANGED <<age, cluster, push, watch, kill, loops, kube>>

\* v1_kill_run deletes first and settles after; it reports what it could not
\* delete and settles all the same.
KillDelete(r) ==
    /\ r \in Kills /\ kube /\ row[r] # "none" /\ kill[r] = "no"
    /\ Delete(r)
    /\ kill' = [kill EXCEPT ![r] = "deleted"]
    /\ UNCHANGED <<row, age, trouble, verdict, launcher, push, watch, loops, kube>>

KillSettle(r) ==
    /\ kill[r] = "deleted"
    /\ Settle(r, "failed")
    /\ kill' = [kill EXCEPT ![r] = "done"]
    /\ UNCHANGED <<age, cluster, launcher, push, watch, loops, kube>>

-----------------------------------------------------------------------------
(* The cluster: the pod of a running Job (external), and its push-back.    *)

\* The runner starts once the init containers let it, and comes to a verdict.
RunnerFinishes(r, v) ==
    /\ job[r] = "running" /\ verdict[r] = "none" /\ trouble[r] # "blocked"
    /\ verdict' = [verdict EXCEPT ![r] = v]
    /\ push' = [push EXCEPT ![r] = TRUE]
    /\ UNCHANGED <<row, age, job, trouble, launcher, watch, kill, loops, kube,
                   faults>>

\* The exit code is the Job's verdict, the one the runner pushed.
JobEnds(r) ==
    /\ job[r] = "running" /\ verdict[r] # "none"
    /\ job' = [job EXCEPT ![r] = IF verdict[r] = "completed" THEN "complete"
                                 ELSE "failed"]
    /\ UNCHANGED <<row, age, trouble, verdict, threads, loops, kube, faults>>

\* The pod dies, or activeDeadlineSeconds passes.
JobFails(r) ==
    /\ job[r] = "running"
    /\ "pod" \in Faults \/ trouble[r] = "blocked"
    /\ job' = [job EXCEPT ![r] = "failed"]
    /\ UNCHANGED <<row, age, trouble, verdict, threads, loops, kube, faults>>

\* A sidecar restarts; an init container cannot start, and later can.
PodTrouble(r) ==
    /\ job[r] = "running" /\ trouble[r] # "restarted"
    /\ \E t \in {"none", "blocked", "restarted"} \ {trouble[r]} :
         /\ IF t = "none" THEN NoFault ELSE Fault("trouble")
         /\ t = "blocked" => verdict[r] = "none"
         /\ trouble' = [trouble EXCEPT ![r] = t]
    /\ UNCHANGED <<row, age, job, verdict, threads, loops, kube>>

\* v1_ingest_run_event with the runner's Finish, or the push is given up.
PushArrives(r) ==
    /\ push[r]
    /\ \/ Settle(r, verdict[r])
       \/ Fault("push") /\ UNCHANGED row
    /\ push' = [push EXCEPT ![r] = FALSE]
    /\ UNCHANGED <<age, cluster, launcher, watch, kill, loops, kube>>

Grow(r) ==
    /\ row[r] = "active" /\ age[r] < LastAge
    /\ \A q \in 1 .. r - 1 : Terminal(q) \/ age[q] > age[r]
    /\ SlowLaunch \/ launcher[r] = "off"
    /\ age' = [age EXCEPT ![r] = @ + 1]
    /\ UNCHANGED <<row, cluster, threads, loops, kube, faults>>

-----------------------------------------------------------------------------
(* watch_job_to_finish: the thread that follows one resumed Job.           *)

JobVerdict(r) == CASE job[r] = "complete" -> {"completed"}
                   [] job[r] = "failed"   -> {"failed"}
                   [] OTHER               -> {}

\* A 404 is polled until the Job's own deadline plus a grace; a Job that is
\* still there has ended by then.
GivesUp(r) == job[r] = "absent"

Watch(r) ==
    /\ watch[r] = "watching"
    /\ \/ \E v \in JobVerdict(r) : watch' = [watch EXCEPT ![r] = v] /\ NoFault
       \/ GivesUp(r) /\ watch' = [watch EXCEPT ![r] = "failed"] /\ NoFault
       \/ Fault("api") /\ watch' = [watch EXCEPT ![r] = "failed"]
    /\ UNCHANGED <<row, age, cluster, launcher, push, kill, loops, kube>>

\* Diagnostics are collected between the verdict and its report.
WatchReports(r) ==
    /\ watch[r] \in Verdicts
    /\ Settle(r, watch[r])
    /\ watch' = [watch EXCEPT ![r] = "off"]
    /\ UNCHANGED <<age, cluster, launcher, push, kill, loops, kube>>

-----------------------------------------------------------------------------
(* What the two loops have in common.                                      *)

Active == {r \in Runs : row[r] = "active"}

\* list_active_runs, with the ages: an empty answer ends the pass.
Listed(old) ==
    [Asleep EXCEPT !.pc = "listed", !.seen = Active,
                   !.old = {r \in Active : age[r] >= old}]

Acting(todo) ==
    IF todo = Nothing THEN Asleep
    ELSE [Asleep EXCEPT !.pc = "acting", !.todo = todo]

\* The oldest run a pass has something left to do about.
NextUp(todo, r) == todo[r] # <<>> /\ \A q \in 1 .. r - 1 : todo[q] = <<>>

\* resume_job: a patch that a Job of any state takes; a resume that succeeds
\* starts the watcher, one that fails may have been applied.
Resume(r) ==
    LET resumed == [job EXCEPT ![r] = IF @ = "suspended" THEN "running" ELSE @]
    IN \/ /\ job[r] # "absent" /\ NoFault
          /\ job' = resumed
          /\ watch' = [watch EXCEPT ![r] = "watching"]
       \/ /\ job[r] = "absent" /\ NoFault
          /\ UNCHANGED <<job, watch>>
       \/ /\ Fault("api")
          /\ job' \in {job, resumed}
          /\ UNCHANGED watch

Perform(r, op) ==
    \/ op.do = "resume" /\ Resume(r) /\ UNCHANGED row
    \/ op.do = "delete" /\ Delete(r) /\ UNCHANGED <<row, watch>>
    \/ op.do = "settle" /\ Settle(r, op.to) /\ UNCHANGED <<job, watch>>

-----------------------------------------------------------------------------
(* The scheduler.                                                          *)

SchedList ==
    /\ kube /\ sched.pc = "sleep" /\ Active # {}
    /\ sched' = Listed(2)
    /\ UNCHANGED <<row, age, cluster, threads, recon, blocked, kube, faults>>

\* variant: slots held by runs
SlotHoldersByRow == {r \in Runs : job[r] = "running" /\ row[r] = "active"}

\* A slot is held by a Job that runs, whatever its row says.
SlotHolders == {r \in Runs : job[r] = "running"}

\* schedule: the queued runs are those with a suspended Job.  One past the
\* queue deadline expires; the others start while there are slots.
Schedule ==
    LET queued   == {r \in sched.seen : job[r] = "suspended"}
        inTime   == queued \ sched.old
        slots    == Capacity - Cardinality(SlotHolders)
        starts   == {r \in inTime : Cardinality({q \in inTime : q < r}) < slots}
    IN [r \in Runs |-> IF r \in starts THEN <<ResumeJob>>
                       ELSE IF r \in queued \ inTime
                         THEN <<DeleteJob, SettleRow("failed")>>
                       ELSE <<>>]

SchedPlan ==
    /\ sched.pc = "listed"
    /\ \/ sched' = Acting(Schedule) /\ NoFault
       \/ Fault("api") /\ sched' = Asleep
    /\ UNCHANGED <<row, age, cluster, threads, recon, blocked, kube>>

SchedAct ==
    /\ sched.pc = "acting"
    /\ \E r \in Runs :
         /\ NextUp(sched.todo, r)
         /\ Perform(r, Head(sched.todo[r]))
         /\ sched' = Acting([sched.todo EXCEPT ![r] = Tail(@)])
    /\ UNCHANGED <<age, trouble, verdict, launcher, push, kill, recon, blocked,
                   kube>>

-----------------------------------------------------------------------------
(* The reconciler.                                                         *)

ReconList ==
    /\ kube /\ recon.pc = "sleep" /\ Active # {}
    /\ recon' = Listed(1)
    /\ UNCHANGED <<row, age, cluster, threads, sched, blocked, kube, faults>>

\* variant: no grace
OrphanAtOnce(r) == job[r] = "absent"

\* An orphan has no Job and has had time to get one.
Orphan(r) == job[r] = "absent" /\ r \in recon.old

\* variant: any terminal Job is reported as success
DecideCompleted(r) ==
    IF r \notin recon.seen THEN {}
    ELSE (IF JobVerdict(r) # {} THEN {"completed"} ELSE {})
           \cup (IF Orphan(r) THEN {"failed"} ELSE {})

\* variant: no orphan is ever failed
DecideNoOrphans(r) == IF r \notin recon.seen THEN {} ELSE JobVerdict(r)

\* reconcile_decisions: report a terminal Job, fail an orphan, wait otherwise.
Decide(r) ==
    IF r \notin recon.seen THEN {}
    ELSE JobVerdict(r) \cup (IF Orphan(r) THEN {"failed"} ELSE {})

ReconDecide ==
    LET settles == [r \in Runs |-> IF Decide(r) = {} THEN <<>>
                     ELSE <<SettleRow(CHOOSE v \in Decide(r) : TRUE)>>]
        live    == {r \in recon.seen : Decide(r) = {}}
    IN /\ recon.pc = "listed"
       /\ \/ /\ NoFault
             /\ recon' = [Asleep EXCEPT !.pc = "pods", !.live = live,
                                        !.todo = settles]
          \/ Fault("api") /\ recon' = Asleep
       /\ UNCHANGED <<row, age, cluster, threads, sched, blocked, kube>>

ReconReport ==
    /\ recon.pc = "pods" /\ recon.todo # Nothing
    /\ \E r \in Runs :
         /\ NextUp(recon.todo, r)
         /\ Perform(r, Head(recon.todo[r]))
         /\ recon' = [recon EXCEPT !.todo[r] = Tail(@)]
    /\ UNCHANGED <<age, trouble, verdict, launcher, push, kill, sched, blocked,
                   kube>>

\* The second half reads the pods of the runs left waiting.  A restarted
\* container condemns its run; a blocked one when an earlier pass saw it.
ReconPods ==
    LET pods      == {r \in recon.live :
                        job[r] \in {"running", "complete", "failed"}}
        restarted == {r \in pods : trouble[r] = "restarted"}
        stuck     == {r \in pods : trouble[r] = "blocked"}
        healthy   == pods \ (restarted \cup stuck)
    IN /\ recon.pc = "pods" /\ recon.todo = Nothing
       /\ \/ /\ recon.live = {} /\ NoFault
             /\ recon' = Asleep /\ blocked' = {}
          \/ \E elapsed \in SUBSET (stuck \cap blocked) :
               LET condemned == restarted \cup elapsed
                   plan == [r \in Runs |-> IF r \in condemned
                              THEN <<SettleRow("failed"), DeleteJob>>
                              ELSE <<>>]
               IN /\ recon.live # {} /\ NoFault
                  /\ recon' = Acting(plan)
                  /\ blocked' = (blocked \ (healthy \cup condemned))
                                  \cup (stuck \ condemned)
          \/ recon.live # {} /\ Fault("api") /\ recon' = Asleep
             /\ UNCHANGED blocked
       /\ UNCHANGED <<row, age, cluster, threads, sched, kube>>

ReconAct ==
    /\ recon.pc = "acting"
    /\ \E r \in Runs :
         /\ NextUp(recon.todo, r)
         /\ Perform(r, Head(recon.todo[r]))
         /\ recon' = Acting([recon.todo EXCEPT ![r] = Tail(@)])
    /\ UNCHANGED <<age, trouble, verdict, launcher, push, kill, sched, blocked,
                   kube>>

-----------------------------------------------------------------------------
\* The process restarts: rows and Jobs outlive it, its threads do not, and a
\* process that cannot build its Kubernetes client runs without the loops.
Restart ==
    /\ Fault("restart")
    /\ kube' \in IF "client" \in Faults THEN BOOLEAN ELSE {TRUE}
    /\ launcher' = [r \in Runs |-> "off"]
    /\ watch' = [r \in Runs |-> "off"]
    /\ kill' = [r \in Runs |-> IF kill[r] = "deleted" THEN "no" ELSE kill[r]]
    /\ sched' = Asleep /\ recon' = Asleep /\ blocked' = {}
    /\ UNCHANGED <<row, age, cluster, push>>

\* Nothing is left to do: every thread is gone and every run is settled, or
\* nobody is there to settle it.
Quiet ==
    /\ \A r \in Runs : /\ launcher[r] = "off" /\ watch[r] = "off" /\ ~push[r]
                       /\ kill[r] # "deleted" /\ job[r] # "running"
                       /\ Terminal(r) \/ (row[r] = "active" /\ ~kube)
    /\ UNCHANGED vars

Next ==
    \/ \E r \in Runs :
         \/ CreateRun(r) \/ Launch(r) \/ LaunchFailed(r)
         \/ KillDelete(r) \/ KillSettle(r)
         \/ \E v \in Verdicts : RunnerFinishes(r, v)
         \/ JobEnds(r) \/ JobFails(r) \/ PodTrouble(r)
         \/ PushArrives(r) \/ Grow(r) \/ Watch(r) \/ WatchReports(r)
    \/ SchedList \/ SchedPlan \/ SchedAct
    \/ ReconList \/ ReconDecide \/ ReconReport \/ ReconPods \/ ReconAct
    \/ Restart \/ Quiet

Spec == Init /\ [][Next]_vars

\* The loops run forever and the threads are scheduled; a Job ends (its
\* activeDeadlineSeconds) and time passes.
Fairness ==
    /\ WF_vars(SchedList) /\ WF_vars(SchedPlan) /\ WF_vars(SchedAct)
    /\ WF_vars(ReconList) /\ WF_vars(ReconDecide) /\ WF_vars(ReconReport)
    /\ WF_vars(ReconPods) /\ WF_vars(ReconAct)
    /\ \A r \in Runs :
         /\ WF_vars(Launch(r)) /\ WF_vars(LaunchFailed(r))
         /\ WF_vars(KillSettle(r)) /\ WF_vars(PushArrives(r))
         /\ WF_vars(Watch(r)) /\ WF_vars(WatchReports(r))
         /\ WF_vars(Grow(r)) /\ WF_vars(JobFails(r)) /\ WF_vars(JobEnds(r))
         /\ WF_vars(\E v \in Verdicts : RunnerFinishes(r, v))

FairSpec == Spec /\ Fairness

-----------------------------------------------------------------------------
(* Properties                                                              *)

\* Never more Jobs run than the capacity admits, however the passes, the
\* runners' reports and the restarts interleave: the plan counts Jobs, not runs.
CapacityRespected == Cardinality({r \in Runs : job[r] = "running"}) <= Capacity

\* A run is recorded as completed only if its runner came to that verdict:
\* watcher, reconciler and push-back never invent a success.
CompletedIsEarned == \A r \in Runs : row[r] = "completed" => verdict[r] = "completed"

\* The first verdict wins: no later report, kill, pass or restart flips or
\* reopens a settled run.
FirstVerdictWins ==
    [][\A r \in Runs : Terminal(r) => row'[r] = row[r]]_row

\* As long as no call failed and no pod was in trouble, a run nobody killed is
\* failed only once its runner failed or its Job is over or gone: no pass fails
\* it out from under itself, and none settles a queued run and leaves its Job.
\* Holds of launches that end within the orphan grace.
FailedMeansOver ==
    faults = MaxFaults =>
      \A r \in Runs : row[r] = "failed" /\ kill[r] = "no" =>
        verdict[r] = "failed" \/ job[r] \in {"absent", "failed"}

\* Every accepted run comes to a verdict, through lost pushes, failed calls and
\* restarts; with the queue deadline out of reach, also since a Job that is over
\* gives its slot back to the run that waits for it.
EveryRunSettles == \A r \in Runs : row[r] = "active" ~> Terminal(r)
=============================================================================
