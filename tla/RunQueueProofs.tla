--------------------------- MODULE RunQueueProofs ---------------------------
(***************************************************************************)
(* Proofs about RunQueue: type correctness, that the first verdict of a    *)
(* run stands, that no success is invented, that the capacity holds, and   *)
(* that while no call fails a run is failed only once it is over.          *)
(***************************************************************************)
EXTENDS RunQueue, FiniteSetTheorems, TLAPS

-----------------------------------------------------------------------------
(* Types of the data.                                                      *)

LEMMA OpTypes ==
    /\ ResumeJob \in Op /\ DeleteJob \in Op
    /\ \A v \in Verdicts : SettleRow(v) \in Op
    /\ \A op \in Op : /\ op.do \in {"resume", "delete", "settle"}
                      /\ op.do = "settle" => op.to \in Verdicts
BY DEF Op, ResumeJob, DeleteJob, SettleRow

LEMMA PassTypes ==
    ASSUME NEW todo \in [Runs -> Seq(Op)]
    PROVE  /\ Nothing \in [Runs -> Seq(Op)]
           /\ Asleep \in Pass
           /\ Acting(todo) \in Pass
           /\ \A p \in Pass : [p EXCEPT !.todo = todo] \in Pass
           /\ \A old \in Int : Listed(old) \in Pass
           /\ \A live \in SUBSET Runs :
                [Asleep EXCEPT !.pc = "pods", !.live = live, !.todo = todo] \in Pass
<1>1. <<>> \in Seq(Op)
  OBVIOUS
<1>2. Nothing \in [Runs -> Seq(Op)]
  BY <1>1 DEF Nothing
<1>3. Asleep \in Pass
  BY <1>2 DEF Asleep, Pass
<1>4. Acting(todo) \in Pass
  BY <1>2, <1>3 DEF Acting, Asleep, Pass
<1>5. \A p \in Pass : [p EXCEPT !.todo = todo] \in Pass
  BY DEF Pass
<1>6. \A old \in Int : Listed(old) \in Pass
  BY <1>2 DEF Listed, Asleep, Pass, Active
<1>7. \A live \in SUBSET Runs :
        [Asleep EXCEPT !.pc = "pods", !.live = live, !.todo = todo] \in Pass
  BY <1>2 DEF Asleep, Pass
<1> QED
  BY <1>2, <1>3, <1>4, <1>5, <1>6, <1>7

\* Taking a run's next effect off the plan.
LEMMA NextUpTypes ==
    ASSUME NEW todo \in [Runs -> Seq(Op)], NEW r \in Runs, NextUp(todo, r)
    PROVE  /\ Head(todo[r]) \in Op
           /\ Tail(todo[r]) \in Seq(Op)
           /\ [todo EXCEPT ![r] = Tail(@)] \in [Runs -> Seq(Op)]
<1>1. todo[r] \in Seq(Op) /\ todo[r] # <<>>
  BY DEF NextUp
<1>2. Head(todo[r]) \in Op /\ Tail(todo[r]) \in Seq(Op)
  BY <1>1
<1> QED
  BY <1>2

-----------------------------------------------------------------------------
(* The calls everybody makes.                                              *)

RowType    == row \in [Runs -> {"none", "active"} \cup Verdicts]
JobType    == job \in [Runs -> {"absent", "suspended", "running", "complete", "failed"}]
WatchType  == watch \in [Runs -> {"off", "watching"} \cup Verdicts]
FaultsType == faults \in 0 .. MaxFaults

LEMMA FaultTypes ==
    ASSUME FaultsType, NEW kind, NoFault \/ Fault(kind)
    PROVE  FaultsType'
BY QueueAssumption DEF FaultsType, NoFault, Fault, QueueAssumption

\* A settled row takes no verdict, an open one takes the verdict it is given.
LEMMA SettleEffect ==
    ASSUME RowType, FaultsType, NEW r \in Runs, NEW v \in Verdicts, Settle(r, v)
    PROVE  /\ RowType' /\ FaultsType'
           /\ \A q \in Runs : row'[q] = row[q] \/ (~Terminal(q) /\ q = r /\ row'[q] = v)
<1>1. FaultsType'
  BY FaultTypes DEF Settle
<1>2. CASE row' = Settled(r, v)
  BY <1>1, <1>2 DEF Settled, Terminal, RowType
<1>3. CASE UNCHANGED row
  BY <1>1, <1>3 DEF RowType
<1> QED
  BY <1>2, <1>3 DEF Settle

LEMMA DeleteEffect ==
    ASSUME JobType, FaultsType, NEW r \in Runs, Delete(r)
    PROVE  /\ JobType' /\ FaultsType'
           /\ \A q \in Runs : job'[q] \in {job[q], "absent"}
<1>1. FaultsType'
  BY FaultTypes DEF Delete
<1> QED
  BY <1>1 DEF Delete, JobType

LEMMA ResumeEffect ==
    ASSUME JobType, WatchType, FaultsType, NEW r \in Runs, Resume(r)
    PROVE  /\ JobType' /\ WatchType' /\ FaultsType'
           /\ \A q \in Runs : job'[q] \in {job[q], "running"}
           /\ \A q \in Runs : watch'[q] \in {watch[q], "watching"}
<1>1. FaultsType'
  BY FaultTypes DEF Resume
<1> QED
  BY <1>1 DEF Resume, JobType, WatchType

\* What one effect of a pass may do.
LEMMA PerformEffect ==
    ASSUME RowType, JobType, WatchType, FaultsType,
           NEW r \in Runs, NEW op \in Op, Perform(r, op)
    PROVE  /\ RowType' /\ JobType' /\ WatchType' /\ FaultsType'
           /\ \A q \in Runs : \/ row'[q] = row[q]
                              \/ /\ ~Terminal(q) /\ q = r
                                 /\ op.do = "settle" /\ row'[q] = op.to
           /\ \A q \in Runs : job'[q] \in {job[q], "absent", "running"}
           /\ \A q \in Runs : watch'[q] \in {watch[q], "watching"}
<1>1. CASE op.do = "resume" /\ Resume(r) /\ UNCHANGED row
  BY <1>1, ResumeEffect DEF RowType
<1>2. CASE op.do = "delete" /\ Delete(r) /\ UNCHANGED <<row, watch>>
  BY <1>2, DeleteEffect DEF RowType, WatchType
<1>3. CASE op.do = "settle" /\ Settle(r, op.to) /\ UNCHANGED <<job, watch>>
  <2>1. op.to \in Verdicts
    BY <1>3, OpTypes
  <2> QED
    BY <1>3, <2>1, SettleEffect DEF JobType, WatchType
<1> QED
  BY <1>1, <1>2, <1>3 DEF Perform

-----------------------------------------------------------------------------
(* Type correctness.  A push under way has a verdict to deliver.           *)

PushHasVerdict == \A r \in Runs : push[r] => verdict[r] \in Verdicts

TypeInv == TypeOK /\ PushHasVerdict

LEMMA ScheduleTypes ==
    ASSUME TypeOK
    PROVE  Schedule \in [Runs -> Seq(Op)]
<1>1. /\ <<ResumeJob>> \in Seq(Op) /\ <<>> \in Seq(Op)
      /\ <<DeleteJob, SettleRow("failed")>> \in Seq(Op)
  BY OpTypes DEF Verdicts
<1> QED
  BY <1>1 DEF Schedule

LEMMA TypeInit == Init => TypeInv
<1> SUFFICES ASSUME Init PROVE TypeInv
  OBVIOUS
<1>1. Asleep \in Pass
  <2>1. Nothing \in [Runs -> Seq(Op)]
    BY DEF Nothing
  <2> QED
    BY <2>1, PassTypes
<1> QED
  BY <1>1, QueueAssumption
     DEF Init, TypeInv, TypeOK, PushHasVerdict, Verdicts, QueueAssumption

\* A run's own threads, its pod and the passing of time.
LEMMA TypeRun ==
    ASSUME TypeInv, NEW r \in Runs,
           \/ CreateRun(r) \/ Launch(r) \/ LaunchFailed(r)
           \/ KillDelete(r) \/ KillSettle(r)
           \/ \E v \in Verdicts : RunnerFinishes(r, v)
           \/ JobEnds(r) \/ JobFails(r) \/ PodTrouble(r)
           \/ PushArrives(r) \/ Grow(r) \/ Watch(r) \/ WatchReports(r)
    PROVE  TypeInv'
<1> USE DEF TypeInv, TypeOK, PushHasVerdict, cluster, threads, loops
<1>0. RowType /\ JobType /\ WatchType /\ FaultsType
  BY DEF RowType, JobType, WatchType, FaultsType
<1>1. CASE CreateRun(r)
  BY <1>1 DEF CreateRun
<1>2. CASE Launch(r)
  <2>1. FaultsType'
    BY <1>0, <1>2, FaultTypes DEF Launch
  <2> QED
    BY <1>2, <2>1 DEF Launch, FaultsType
<1>3. CASE LaunchFailed(r)
  <2>1. RowType' /\ FaultsType'
    BY <1>0, <1>3, SettleEffect DEF LaunchFailed, Verdicts
  <2> QED
    BY <1>3, <2>1 DEF LaunchFailed, RowType, FaultsType
<1>4. CASE KillDelete(r)
  <2>1. JobType' /\ FaultsType'
    BY <1>0, <1>4, DeleteEffect DEF KillDelete
  <2> QED
    BY <1>4, <2>1 DEF KillDelete, JobType, FaultsType
<1>5. CASE KillSettle(r)
  <2>1. RowType' /\ FaultsType'
    BY <1>0, <1>5, SettleEffect DEF KillSettle, Verdicts
  <2> QED
    BY <1>5, <2>1 DEF KillSettle, RowType, FaultsType
<1>6. CASE \E v \in Verdicts : RunnerFinishes(r, v)
  BY <1>6 DEF RunnerFinishes
<1>7. CASE JobEnds(r)
  BY <1>7 DEF JobEnds
<1>8. CASE JobFails(r)
  BY <1>8 DEF JobFails
<1>9. CASE PodTrouble(r)
  <2>1. FaultsType'
    BY <1>0, <1>9, FaultTypes DEF PodTrouble
  <2> QED
    BY <1>9, <2>1 DEF PodTrouble, FaultsType
<1>10. CASE PushArrives(r)
  <2>1. verdict[r] \in Verdicts
    BY <1>10 DEF PushArrives
  <2>2. RowType' /\ FaultsType'
    BY <1>0, <1>10, <2>1, SettleEffect, FaultTypes DEF PushArrives, RowType
  <2> QED
    BY <1>10, <2>2 DEF PushArrives, RowType, FaultsType
<1>11. CASE Grow(r)
  BY <1>11, QueueAssumption DEF Grow, QueueAssumption
<1>12. CASE Watch(r)
  <2>1. FaultsType'
    BY <1>0, <1>12, FaultTypes DEF Watch
  <2>2. JobVerdict(r) \subseteq Verdicts
    BY DEF JobVerdict, Verdicts
  <2> QED
    BY <1>12, <2>1, <2>2 DEF Watch, FaultsType, Verdicts
<1>13. CASE WatchReports(r)
  <2>1. RowType' /\ FaultsType'
    BY <1>0, <1>13, SettleEffect DEF WatchReports
  <2> QED
    BY <1>13, <2>1 DEF WatchReports, RowType, FaultsType
<1> QED
  BY <1>1, <1>2, <1>3, <1>4, <1>5, <1>6, <1>7, <1>8, <1>9, <1>10, <1>11, <1>12, <1>13

\* The two loops.
LEMMA TypeLoops ==
    ASSUME TypeInv,
           \/ SchedList \/ SchedPlan \/ SchedAct
           \/ ReconList \/ ReconDecide \/ ReconReport \/ ReconPods \/ ReconAct
           \/ Restart
    PROVE  TypeInv'
<1> USE DEF TypeInv, TypeOK, PushHasVerdict, cluster, threads, loops
<1>0. RowType /\ JobType /\ WatchType /\ FaultsType
  BY DEF RowType, JobType, WatchType, FaultsType
<1>a. Nothing \in [Runs -> Seq(Op)]
  BY DEF Nothing
<1>b. Asleep \in Pass /\ \A old \in Int : Listed(old) \in Pass
  BY <1>a, PassTypes
<1>c. sched.todo \in [Runs -> Seq(Op)] /\ recon.todo \in [Runs -> Seq(Op)]
  BY DEF Pass
<1>d. recon.live \in SUBSET Runs /\ recon.seen \in SUBSET Runs
  BY DEF Pass
<1>1. CASE SchedList
  BY <1>1, <1>b DEF SchedList
<1>2. CASE SchedPlan
  <2>1. Acting(Schedule) \in Pass
    BY ScheduleTypes, PassTypes
  <2>2. FaultsType'
    BY <1>0, <1>2, FaultTypes DEF SchedPlan
  <2> QED
    BY <1>2, <2>1, <2>2, <1>b DEF SchedPlan, FaultsType
<1>3. CASE SchedAct
  <2>1. PICK r \in Runs :
          /\ NextUp(sched.todo, r)
          /\ Perform(r, Head(sched.todo[r]))
          /\ sched' = Acting([sched.todo EXCEPT ![r] = Tail(@)])
    BY <1>3 DEF SchedAct
  <2>2. /\ Head(sched.todo[r]) \in Op
        /\ [sched.todo EXCEPT ![r] = Tail(@)] \in [Runs -> Seq(Op)]
    BY <1>c, <2>1, NextUpTypes
  <2>3. sched' \in Pass
    BY <2>1, <2>2, PassTypes
  <2>4. RowType' /\ JobType' /\ WatchType' /\ FaultsType'
    BY <1>0, <2>1, <2>2, PerformEffect
  <2> QED
    BY <1>3, <2>3, <2>4 DEF SchedAct, RowType, JobType, WatchType, FaultsType
<1>4. CASE ReconList
  BY <1>4, <1>b DEF ReconList
<1>5. CASE ReconDecide
  <2> DEFINE settles == [r \in Runs |-> IF Decide(r) = {} THEN <<>>
                           ELSE <<SettleRow(CHOOSE v \in Decide(r) : TRUE)>>]
             live == {r \in recon.seen : Decide(r) = {}}
  <2>1. \A r \in Runs : Decide(r) \subseteq Verdicts
    BY DEF Decide, JobVerdict, Verdicts
  <2>2. settles \in [Runs -> Seq(Op)]
    <3> SUFFICES ASSUME NEW r \in Runs, Decide(r) # {}
                 PROVE  <<SettleRow(CHOOSE v \in Decide(r) : TRUE)>> \in Seq(Op)
      OBVIOUS
    <3>1. (CHOOSE v \in Decide(r) : TRUE) \in Verdicts
      BY <2>1
    <3> QED
      BY <3>1, OpTypes
  <2>3. live \in SUBSET Runs
    BY <1>d
  <2> HIDE DEF settles, live
  <2>4. [Asleep EXCEPT !.pc = "pods", !.live = live, !.todo = settles] \in Pass
    BY <2>2, <2>3, PassTypes
  <2>5. /\ FaultsType'
        /\ recon' = [Asleep EXCEPT !.pc = "pods", !.live = live, !.todo = settles]
             \/ recon' = Asleep
        /\ UNCHANGED <<row, age, job, trouble, verdict, launcher, push, watch, kill,
                       sched, blocked, kube>>
    BY <1>0, <1>5, FaultTypes DEF ReconDecide, settles, live
  <2> QED
    BY <2>4, <2>5, <1>b DEF FaultsType
<1>6. CASE ReconReport
  <2>1. PICK r \in Runs :
          /\ NextUp(recon.todo, r)
          /\ Perform(r, Head(recon.todo[r]))
          /\ recon' = [recon EXCEPT !.todo[r] = Tail(@)]
    BY <1>6 DEF ReconReport
  <2>2. /\ Head(recon.todo[r]) \in Op
        /\ [recon.todo EXCEPT ![r] = Tail(@)] \in [Runs -> Seq(Op)]
    BY <1>c, <2>1, NextUpTypes
  <2>3. recon' \in Pass
    <3>1. [recon EXCEPT !.todo = [recon.todo EXCEPT ![r] = Tail(@)]] \in Pass
      BY <2>2, PassTypes
    <3> QED
      BY <2>1, <3>1
  <2>4. RowType' /\ JobType' /\ WatchType' /\ FaultsType'
    BY <1>0, <2>1, <2>2, PerformEffect
  <2> QED
    BY <1>6, <2>3, <2>4 DEF ReconReport, RowType, JobType, WatchType, FaultsType
<1>7. CASE ReconPods
  <2>1. \A condemned \in SUBSET Runs :
          [r \in Runs |-> IF r \in condemned THEN <<SettleRow("failed"), DeleteJob>>
                          ELSE <<>>] \in [Runs -> Seq(Op)]
    <3>1. <<SettleRow("failed"), DeleteJob>> \in Seq(Op) /\ <<>> \in Seq(Op)
      BY OpTypes DEF Verdicts
    <3> QED
      BY <3>1
  <2>2. \A condemned \in SUBSET Runs :
          Acting([r \in Runs |-> IF r \in condemned
                    THEN <<SettleRow("failed"), DeleteJob>> ELSE <<>>]) \in Pass
    BY <2>1, PassTypes
  <2>3. FaultsType'
    BY <1>0, <1>7, FaultTypes DEF ReconPods
  <2>4. recon' = Asleep
          \/ \E condemned \in SUBSET Runs :
               recon' = Acting([r \in Runs |-> IF r \in condemned
                          THEN <<SettleRow("failed"), DeleteJob>> ELSE <<>>])
    BY <1>7, <1>d, Zenon DEF ReconPods
  <2>5. recon' \in Pass
    BY <1>b, <2>2, <2>4
  <2>6. blocked' \subseteq Runs
    BY <1>7, <1>d DEF ReconPods
  <2> QED
    BY <1>7, <2>3, <2>5, <2>6 DEF ReconPods, FaultsType
<1>8. CASE ReconAct
  <2>1. PICK r \in Runs :
          /\ NextUp(recon.todo, r)
          /\ Perform(r, Head(recon.todo[r]))
          /\ recon' = Acting([recon.todo EXCEPT ![r] = Tail(@)])
    BY <1>8 DEF ReconAct
  <2>2. /\ Head(recon.todo[r]) \in Op
        /\ [recon.todo EXCEPT ![r] = Tail(@)] \in [Runs -> Seq(Op)]
    BY <1>c, <2>1, NextUpTypes
  <2>3. recon' \in Pass
    BY <2>1, <2>2, PassTypes
  <2>4. RowType' /\ JobType' /\ WatchType' /\ FaultsType'
    BY <1>0, <2>1, <2>2, PerformEffect
  <2> QED
    BY <1>8, <2>3, <2>4 DEF ReconAct, RowType, JobType, WatchType, FaultsType
<1>9. CASE Restart
  <2>1. FaultsType'
    BY <1>0, <1>9, FaultTypes DEF Restart
  <2>2. kube' \in BOOLEAN
    BY <1>9 DEF Restart
  <2> QED
    BY <1>9, <1>b, <2>1, <2>2 DEF Restart, FaultsType
<1> QED
  BY <1>1, <1>2, <1>3, <1>4, <1>5, <1>6, <1>7, <1>8, <1>9

LEMMA TypeStep == TypeInv /\ [Next]_vars => TypeInv'
<1> SUFFICES ASSUME TypeInv, [Next]_vars PROVE TypeInv'
  OBVIOUS
<1>1. CASE UNCHANGED vars
  BY <1>1 DEF TypeInv, TypeOK, PushHasVerdict, vars, cluster, threads, loops
<1>2. CASE Quiet
  BY <1>1, <1>2 DEF Quiet
<1> QED
  BY <1>1, <1>2, TypeRun, TypeLoops DEF Next

LEMMA TypeAlways == Spec => []TypeInv
BY TypeInit, TypeStep, PTL DEF Spec

\* Every reachable state of the run queue is well typed, whatever fails.
THEOREM QueueTypeCorrect == Spec => []TypeOK
BY TypeAlways, PTL DEF TypeInv

-----------------------------------------------------------------------------
(* The first verdict stands.                                               *)

\* Whoever writes the row goes through the guard of update_run_state.
LEMMA VerdictStays ==
    ASSUME TypeInv, [Next]_vars
    PROVE  \A q \in Runs : Terminal(q) => row'[q] = row[q]
<1>0. RowType /\ JobType /\ WatchType /\ FaultsType
  BY DEF TypeInv, TypeOK, RowType, JobType, WatchType, FaultsType
<1>a. \A r \in Runs, v \in Verdicts : Settle(r, v) =>
        \A q \in Runs : Terminal(q) => row'[q] = row[q]
  BY <1>0, SettleEffect
<1>b. /\ sched.todo \in [Runs -> Seq(Op)]
      /\ recon.todo \in [Runs -> Seq(Op)]
  BY DEF TypeInv, TypeOK, Pass
<1>c. \A r \in Runs, todo \in [Runs -> Seq(Op)] :
        NextUp(todo, r) /\ Perform(r, Head(todo[r])) =>
          \A q \in Runs : Terminal(q) => row'[q] = row[q]
  BY <1>0, NextUpTypes, PerformEffect
<1>d. "failed" \in Verdicts
  BY DEF Verdicts
<1>1. ASSUME NEW r \in Runs, CreateRun(r)
      PROVE  \A q \in Runs : Terminal(q) => row'[q] = row[q]
  BY <1>0, <1>1 DEF CreateRun, Terminal, Verdicts, RowType
<1>2. ASSUME NEW r \in Runs,
             LaunchFailed(r) \/ KillSettle(r) \/ PushArrives(r) \/ WatchReports(r)
      PROVE  \A q \in Runs : Terminal(q) => row'[q] = row[q]
  <2>1. push[r] => verdict[r] \in Verdicts
    BY DEF TypeInv, PushHasVerdict
  <2> QED
    BY <1>2, <1>a, <1>d, <2>1
       DEF LaunchFailed, KillSettle, PushArrives, WatchReports
<1>3. ASSUME SchedAct \/ ReconReport \/ ReconAct
      PROVE  \A q \in Runs : Terminal(q) => row'[q] = row[q]
  BY <1>3, <1>b, <1>c DEF SchedAct, ReconReport, ReconAct
<1>4. ASSUME NEW r \in Runs,
             \/ Launch(r) \/ KillDelete(r) \/ \E v \in Verdicts : RunnerFinishes(r, v)
             \/ JobEnds(r) \/ JobFails(r) \/ PodTrouble(r) \/ Grow(r) \/ Watch(r)
      PROVE  UNCHANGED row
  BY <1>4 DEF Launch, KillDelete, RunnerFinishes, JobEnds, JobFails, PodTrouble,
              Grow, Watch
<1>5. ASSUME SchedList \/ SchedPlan \/ ReconList \/ ReconDecide \/ ReconPods \/ Restart
      PROVE  UNCHANGED row
  BY <1>5 DEF SchedList, SchedPlan, ReconList, ReconDecide, ReconPods, Restart
<1>6. ASSUME Quiet \/ UNCHANGED vars
      PROVE  UNCHANGED row
  BY <1>6 DEF Quiet, vars
<1> QED
  BY <1>1, <1>2, <1>3, <1>4, <1>5, <1>6 DEF Next

\* No report, kill, pass or restart flips or reopens a settled run.
THEOREM VerdictsStand == Spec => FirstVerdictWins
<1>1. TypeInv /\ [Next]_vars => [\A r \in Runs : Terminal(r) => row'[r] = row[r]]_row
  BY VerdictStays
<1> QED
  BY <1>1, TypeAlways, PTL DEF Spec, FirstVerdictWins

-----------------------------------------------------------------------------
(* No success is invented: whoever holds or reports "completed" has it     *)
(* from the runner, directly or through the Job's status.                  *)

\* A plan settles a run as completed only if the runner said so.
EarnedPlan(todo, said) ==
    \A r \in Runs : \A i \in DOMAIN todo[r] :
      todo[r][i].do = "settle" /\ todo[r][i].to = "completed" => said[r] = "completed"

EarnedInv ==
    /\ \A r \in Runs :
         /\ row[r] = "completed" => verdict[r] = "completed"
         /\ watch[r] = "completed" => verdict[r] = "completed"
         /\ job[r] = "complete" => verdict[r] = "completed"
    /\ EarnedPlan(sched.todo, verdict)
    /\ EarnedPlan(recon.todo, verdict)

LEMMA PlanShrinks ==
    ASSUME NEW todo \in [Runs -> Seq(Op)], NEW r \in Runs, NextUp(todo, r),
           NEW said, EarnedPlan(todo, said)
    PROVE  /\ EarnedPlan([todo EXCEPT ![r] = Tail(@)], said)
           /\ Head(todo[r]).do = "settle" /\ Head(todo[r]).to = "completed"
                => said[r] = "completed"
<1>1. todo[r] \in Seq(Op) /\ todo[r] # <<>>
  BY DEF NextUp
<1>2. Head(todo[r]) = todo[r][1] /\ 1 \in DOMAIN todo[r]
  BY <1>1
<1>3. \A i \in DOMAIN Tail(todo[r]) :
        i + 1 \in DOMAIN todo[r] /\ Tail(todo[r])[i] = todo[r][i + 1]
  BY <1>1
<1> QED
  BY <1>1, <1>2, <1>3 DEF EarnedPlan

LEMMA PlanActing ==
    ASSUME NEW todo, NEW said
    PROVE  /\ EarnedPlan(todo, said) => EarnedPlan(Acting(todo).todo, said)
           /\ EarnedPlan(Asleep.todo, said)
           /\ \A old : EarnedPlan(Listed(old).todo, said)
<1>1. EarnedPlan(Nothing, said)
  BY DEF EarnedPlan, Nothing
<1>2. Asleep.todo = Nothing /\ \A old : Listed(old).todo = Nothing
  BY DEF Asleep, Listed
<1>3. Acting(todo).todo = todo
  BY DEF Acting, Asleep
<1> QED
  BY <1>1, <1>2, <1>3

\* A verdict the runner came to does not change.
LEMMA SaidStays ==
    ASSUME TypeInv, [Next]_vars
    PROVE  \A q \in Runs : verdict[q] = "completed" => verdict'[q] = "completed"
<1>1. ASSUME NEW r \in Runs, NEW v \in Verdicts, RunnerFinishes(r, v)
      PROVE  \A q \in Runs : verdict[q] = "completed" => verdict'[q] = "completed"
  BY <1>1 DEF RunnerFinishes, TypeInv, TypeOK
<1>2. ASSUME NEW r \in Runs,
             \/ CreateRun(r) \/ Launch(r) \/ LaunchFailed(r) \/ KillDelete(r)
             \/ KillSettle(r) \/ JobEnds(r) \/ JobFails(r) \/ PodTrouble(r)
             \/ PushArrives(r) \/ Grow(r) \/ Watch(r) \/ WatchReports(r)
      PROVE  UNCHANGED verdict
  BY <1>2 DEF CreateRun, Launch, LaunchFailed, KillDelete, KillSettle, JobEnds,
              JobFails, PodTrouble, PushArrives, Grow, Watch, WatchReports, cluster
<1>3. ASSUME \/ SchedList \/ SchedPlan \/ SchedAct
             \/ ReconList \/ ReconDecide \/ ReconReport \/ ReconPods \/ ReconAct
             \/ Restart \/ Quiet \/ UNCHANGED vars
      PROVE  UNCHANGED verdict
  BY <1>3 DEF SchedList, SchedPlan, SchedAct, ReconList, ReconDecide, ReconReport,
              ReconPods, ReconAct, Restart, Quiet, vars, cluster
<1> QED
  BY <1>1, <1>2, <1>3 DEF Next

LEMMA EarnedInit == Init => EarnedInv
<1> SUFFICES ASSUME Init PROVE EarnedInv
  OBVIOUS
<1>1. EarnedPlan(sched.todo, verdict) /\ EarnedPlan(recon.todo, verdict)
  BY PlanActing DEF Init
<1> QED
  BY <1>1 DEF Init, EarnedInv

\* A run's own threads and its pod.
LEMMA EarnedRun ==
    ASSUME TypeInv, EarnedInv, NEW r \in Runs,
           \A q \in Runs : verdict[q] = "completed" => verdict'[q] = "completed",
           \/ CreateRun(r) \/ Launch(r) \/ LaunchFailed(r)
           \/ KillDelete(r) \/ KillSettle(r)
           \/ \E v \in Verdicts : RunnerFinishes(r, v)
           \/ JobEnds(r) \/ JobFails(r) \/ PodTrouble(r)
           \/ PushArrives(r) \/ Grow(r) \/ Watch(r) \/ WatchReports(r)
    PROVE  EarnedInv'
<1>0. RowType /\ JobType /\ WatchType /\ FaultsType /\ "failed" \in Verdicts
  BY DEF TypeInv, TypeOK, RowType, JobType, WatchType, FaultsType, Verdicts
<1>a. UNCHANGED <<sched, recon>>
  BY DEF CreateRun, Launch, LaunchFailed, KillDelete, KillSettle, RunnerFinishes,
         JobEnds, JobFails, PodTrouble, PushArrives, Grow, Watch, WatchReports, loops
<1>b. EarnedPlan(sched.todo, verdict)' /\ EarnedPlan(recon.todo, verdict)'
  BY <1>a DEF EarnedInv, EarnedPlan
<1>1. CASE CreateRun(r)
  BY <1>0, <1>1, <1>b DEF CreateRun, EarnedInv, RowType, cluster
<1>2. CASE Launch(r)
  BY <1>0, <1>2, <1>b DEF Launch, EarnedInv, JobType
<1>3. CASE LaunchFailed(r) \/ KillSettle(r)
  <2>1. \A q \in Runs : row'[q] \in {row[q], "failed"}
    BY <1>0, <1>3, SettleEffect DEF LaunchFailed, KillSettle
  <2> QED
    BY <1>3, <1>b, <2>1 DEF LaunchFailed, KillSettle, EarnedInv, cluster
<1>4. CASE KillDelete(r)
  <2>1. \A q \in Runs : job'[q] \in {job[q], "absent"}
    BY <1>0, <1>4, DeleteEffect DEF KillDelete
  <2> QED
    BY <1>4, <1>b, <2>1 DEF KillDelete, EarnedInv
<1>5. CASE \E v \in Verdicts : RunnerFinishes(r, v)
  BY <1>5, <1>b DEF RunnerFinishes, EarnedInv
<1>6. CASE JobEnds(r)
  BY <1>0, <1>6, <1>b DEF JobEnds, EarnedInv, JobType, threads
<1>7. CASE JobFails(r)
  BY <1>0, <1>7, <1>b DEF JobFails, EarnedInv, JobType, threads
<1>8. CASE PodTrouble(r) \/ Grow(r)
  BY <1>8, <1>b DEF PodTrouble, Grow, EarnedInv, threads, cluster
<1>9. CASE PushArrives(r)
  <2>1. \A q \in Runs : row'[q] = row[q] \/ (q = r /\ row'[q] = verdict[q])
    <3>1. verdict[r] \in Verdicts
      BY <1>9 DEF PushArrives, TypeInv, PushHasVerdict
    <3> QED
      BY <1>0, <1>9, <3>1, SettleEffect DEF PushArrives
  <2> QED
    BY <1>9, <1>b, <2>1 DEF PushArrives, EarnedInv, cluster
<1>10. CASE Watch(r)
  <2>1. \A q \in Runs : watch'[q] = "completed" =>
                          watch[q] = "completed" \/ job[q] = "complete"
    BY <1>0, <1>10 DEF Watch, JobVerdict, WatchType
  <2> QED
    BY <1>10, <1>b, <2>1 DEF Watch, EarnedInv, cluster
<1>11. CASE WatchReports(r)
  <2>1. \A q \in Runs : row'[q] = row[q] \/ (q = r /\ row'[q] = watch[q])
    BY <1>0, <1>11, SettleEffect DEF WatchReports
  <2>2. \A q \in Runs : watch'[q] \in {watch[q], "off"}
    BY <1>0, <1>11 DEF WatchReports, WatchType
  <2> QED
    BY <1>11, <1>b, <2>1, <2>2 DEF WatchReports, EarnedInv, cluster
<1> QED
  BY <1>1, <1>2, <1>3, <1>4, <1>5, <1>6, <1>7, <1>8, <1>9, <1>10, <1>11

\* The two loops: a plan takes "completed" from a Job that is complete only.
LEMMA EarnedLoops ==
    ASSUME TypeInv, EarnedInv,
           \A q \in Runs : verdict[q] = "completed" => verdict'[q] = "completed",
           \/ SchedList \/ SchedPlan \/ SchedAct
           \/ ReconList \/ ReconDecide \/ ReconReport \/ ReconPods \/ ReconAct
           \/ Restart
    PROVE  EarnedInv'
<1>0. RowType /\ JobType /\ WatchType /\ FaultsType
  BY DEF TypeInv, TypeOK, RowType, JobType, WatchType, FaultsType
<1>a. /\ sched.todo \in [Runs -> Seq(Op)]
      /\ recon.todo \in [Runs -> Seq(Op)]
  BY DEF TypeInv, TypeOK, Pass
<1>b. UNCHANGED verdict
  BY DEF SchedList, SchedPlan, SchedAct, ReconList, ReconDecide, ReconReport,
         ReconPods, ReconAct, Restart, cluster
<1>c. EarnedPlan(sched.todo, verdict) /\ EarnedPlan(recon.todo, verdict)
  BY DEF EarnedInv
\* performing an effect of a plan that keeps to what the runner said
<1>d. ASSUME NEW todo \in [Runs -> Seq(Op)], EarnedPlan(todo, verdict),
             NEW r \in Runs, NextUp(todo, r), Perform(r, Head(todo[r]))
      PROVE  /\ \A q \in Runs : row'[q] = "completed" => verdict[q] = "completed"
             /\ \A q \in Runs : watch'[q] = "completed" => verdict[q] = "completed"
             /\ \A q \in Runs : job'[q] = "complete" => verdict[q] = "completed"
  <2>1. Head(todo[r]) \in Op
    BY <1>d, NextUpTypes
  <2>2. Head(todo[r]).do = "settle" /\ Head(todo[r]).to = "completed"
          => verdict[r] = "completed"
    BY <1>d, PlanShrinks
  <2>3. \A q \in Runs :
          /\ \/ row'[q] = row[q]
             \/ /\ q = r /\ Head(todo[r]).do = "settle"
                /\ row'[q] = Head(todo[r]).to
          /\ job'[q] \in {job[q], "absent", "running"}
          /\ watch'[q] \in {watch[q], "watching"}
    BY <1>0, <1>d, <2>1, PerformEffect
  <2> QED
    BY <2>2, <2>3 DEF EarnedInv
<1>1. CASE SchedList
  <2>1. EarnedPlan(sched'.todo, verdict)
    BY <1>1, PlanActing DEF SchedList
  <2> QED
    BY <1>1, <1>b, <1>c, <2>1 DEF SchedList, EarnedInv, threads, cluster
<1>2. CASE SchedPlan
  <2>1. EarnedPlan(Schedule, verdict)
    <3>1. \A q \in Runs : \A i \in DOMAIN Schedule[q] :
            Schedule[q][i] \in {ResumeJob, DeleteJob, SettleRow("failed")}
      BY DEF Schedule
    <3> QED
      BY <3>1 DEF EarnedPlan, ResumeJob, DeleteJob, SettleRow
  <2>2. EarnedPlan(sched'.todo, verdict)
    BY <1>2, <2>1, PlanActing DEF SchedPlan
  <2> QED
    BY <1>2, <1>b, <1>c, <2>2 DEF SchedPlan, EarnedInv, threads, cluster
<1>3. CASE SchedAct
  <2>1. PICK r \in Runs :
          /\ NextUp(sched.todo, r)
          /\ Perform(r, Head(sched.todo[r]))
          /\ sched' = Acting([sched.todo EXCEPT ![r] = Tail(@)])
    BY <1>3 DEF SchedAct
  <2>2. EarnedPlan(sched'.todo, verdict)
    BY <1>a, <1>c, <2>1, PlanShrinks, PlanActing
  <2>3. UNCHANGED recon
    BY <1>3 DEF SchedAct
  <2> QED
    BY <1>a, <1>b, <1>c, <1>d, <2>1, <2>2, <2>3 DEF EarnedInv
<1>4. CASE ReconList
  <2>1. EarnedPlan(recon'.todo, verdict)
    BY <1>4, PlanActing DEF ReconList
  <2> QED
    BY <1>4, <1>b, <1>c, <2>1 DEF ReconList, EarnedInv, threads, cluster
<1>5. CASE ReconDecide
  <2> DEFINE settles == [r \in Runs |-> IF Decide(r) = {} THEN <<>>
                           ELSE <<SettleRow(CHOOSE v \in Decide(r) : TRUE)>>]
             live == {r \in recon.seen : Decide(r) = {}}
  <2>1. ASSUME NEW q \in Runs, "completed" \in Decide(q)
        PROVE  verdict[q] = "completed"
    BY <2>1 DEF Decide, JobVerdict, EarnedInv
  <2>2. EarnedPlan(settles, verdict)
    <3> SUFFICES ASSUME NEW q \in Runs, NEW i \in DOMAIN settles[q],
                        settles[q][i].do = "settle", settles[q][i].to = "completed"
                 PROVE  verdict[q] = "completed"
      BY DEF EarnedPlan
    <3>1. Decide(q) # {} /\ settles[q] = <<SettleRow(CHOOSE v \in Decide(q) : TRUE)>>
      OBVIOUS
    <3>2. (CHOOSE v \in Decide(q) : TRUE) = "completed"
      BY <3>1 DEF SettleRow
    <3> QED
      BY <2>1, <3>1, <3>2
  <2> HIDE DEF settles, live
  <2>3. /\ recon' = [Asleep EXCEPT !.pc = "pods", !.live = live, !.todo = settles]
             \/ recon' = Asleep
        /\ UNCHANGED <<row, job, watch, sched>>
    BY <1>5 DEF ReconDecide, settles, live, cluster, threads
  <2>4. [Asleep EXCEPT !.pc = "pods", !.live = live, !.todo = settles].todo = settles
    BY DEF Asleep
  <2>5. EarnedPlan(recon'.todo, verdict)
    BY <2>2, <2>3, <2>4, PlanActing
  <2> QED
    BY <1>b, <1>c, <2>3, <2>5 DEF EarnedInv
<1>6. CASE ReconReport
  <2>1. PICK r \in Runs :
          /\ NextUp(recon.todo, r)
          /\ Perform(r, Head(recon.todo[r]))
          /\ recon' = [recon EXCEPT !.todo[r] = Tail(@)]
    BY <1>6 DEF ReconReport
  <2>2. recon'.todo = [recon.todo EXCEPT ![r] = Tail(@)]
    <3>1. recon \in Pass
      BY DEF TypeInv, TypeOK
    <3> QED
      BY <2>1, <3>1 DEF Pass
  <2>3. EarnedPlan(recon'.todo, verdict)
    <3>1. EarnedPlan([recon.todo EXCEPT ![r] = Tail(@)], verdict)
      BY <1>a, <1>c, <2>1, PlanShrinks
    <3> QED
      BY <2>2, <3>1
  <2>4. UNCHANGED sched
    BY <1>6 DEF ReconReport
  <2> QED
    BY <1>a, <1>b, <1>c, <1>d, <2>1, <2>3, <2>4 DEF EarnedInv
<1>7. CASE ReconPods
  <2>1. recon' = Asleep
          \/ \E condemned \in SUBSET Runs :
               recon' = Acting([r \in Runs |-> IF r \in condemned
                          THEN <<SettleRow("failed"), DeleteJob>> ELSE <<>>])
    <3>1. recon.live \in SUBSET Runs
      BY DEF TypeInv, TypeOK, Pass
    <3> QED
      BY <1>7, <3>1, Zenon DEF ReconPods
  <2>2. ASSUME NEW condemned \in SUBSET Runs
        PROVE  EarnedPlan([r \in Runs |-> IF r \in condemned
                 THEN <<SettleRow("failed"), DeleteJob>> ELSE <<>>], verdict)
    BY DEF EarnedPlan, SettleRow, DeleteJob
  <2>3. EarnedPlan(recon'.todo, verdict)
    <3>1. CASE recon' = Asleep
      BY <3>1, PlanActing
    <3>2. ASSUME NEW condemned \in SUBSET Runs,
                 recon' = Acting([r \in Runs |-> IF r \in condemned
                            THEN <<SettleRow("failed"), DeleteJob>> ELSE <<>>])
          PROVE  EarnedPlan(recon'.todo, verdict)
      <4> DEFINE plan == [r \in Runs |-> IF r \in condemned
                            THEN <<SettleRow("failed"), DeleteJob>> ELSE <<>>]
      <4>1. EarnedPlan(plan, verdict) /\ recon' = Acting(plan)
        BY <2>2, <3>2
      <4> HIDE DEF plan
      <4> QED
        BY <4>1, PlanActing
    <3> QED
      BY <2>1, <3>1, <3>2
  <2> QED
    BY <1>7, <1>b, <1>c, <2>3 DEF ReconPods, EarnedInv, threads, cluster
<1>8. CASE ReconAct
  <2>1. PICK r \in Runs :
          /\ NextUp(recon.todo, r)
          /\ Perform(r, Head(recon.todo[r]))
          /\ recon' = Acting([recon.todo EXCEPT ![r] = Tail(@)])
    BY <1>8 DEF ReconAct
  <2>2. EarnedPlan(recon'.todo, verdict)
    BY <1>a, <1>c, <2>1, PlanShrinks, PlanActing
  <2>3. UNCHANGED sched
    BY <1>8 DEF ReconAct
  <2> QED
    BY <1>a, <1>b, <1>c, <1>d, <2>1, <2>2, <2>3 DEF EarnedInv
<1>9. CASE Restart
  <2>1. EarnedPlan(sched'.todo, verdict) /\ EarnedPlan(recon'.todo, verdict)
    BY <1>9, PlanActing DEF Restart
  <2>2. \A q \in Runs : watch'[q] = "off"
    BY <1>9 DEF Restart
  <2> QED
    BY <1>9, <1>b, <2>1, <2>2 DEF Restart, EarnedInv, cluster
<1> QED
  BY <1>1, <1>2, <1>3, <1>4, <1>5, <1>6, <1>7, <1>8, <1>9

LEMMA EarnedStep == TypeInv /\ EarnedInv /\ [Next]_vars => EarnedInv'
<1> SUFFICES ASSUME TypeInv, EarnedInv, [Next]_vars PROVE EarnedInv'
  OBVIOUS
<1>1. \A q \in Runs : verdict[q] = "completed" => verdict'[q] = "completed"
  BY SaidStays
<1>2. CASE Quiet \/ UNCHANGED vars
  BY <1>2 DEF Quiet, EarnedInv, EarnedPlan, vars, cluster, threads, loops
<1> QED
  BY <1>1, <1>2, EarnedRun, EarnedLoops DEF Next

\* A run is recorded as completed only if its runner came to that verdict.
THEOREM SuccessIsEarned == Spec => []CompletedIsEarned
<1>1. EarnedInv => CompletedIsEarned
  BY DEF EarnedInv, CompletedIsEarned
<1> QED
  BY <1>1, TypeAlways, EarnedInit, EarnedStep, PTL DEF Spec

-----------------------------------------------------------------------------
(* The capacity.  The resumes a pass still has to apply count against it   *)
(* as the running Jobs do; only the scheduler's pass resumes.              *)

Resumed(todo) == {r \in Runs : \E i \in DOMAIN todo[r] : todo[r][i].do = "resume"}

Occupied == SlotHolders \cup Resumed(sched.todo)

CapacityInv ==
    /\ Cardinality(Occupied) <= Capacity
    /\ Resumed(recon.todo) = {}

LEMMA RunsFinite == \A S \in SUBSET Runs : IsFiniteSet(S) /\ Cardinality(S) \in Nat
<1>1. IsFiniteSet(Runs)
  BY FS_Interval, QueueAssumption DEF Runs, QueueAssumption
<1> QED
  BY <1>1, FS_Subset, FS_CardinalityType

\* Among the runs of S, those with fewer than k of S before them are at most k.
LEMMA FirstOnes ==
    ASSUME NEW S \in SUBSET Runs, NEW k \in Nat
    PROVE  Cardinality({r \in S : Cardinality({q \in S : q < r}) < k}) <= k
<1> DEFINE before(r) == {q \in S : q < r}
           first == {r \in S : Cardinality(before(r)) < k}
           rank == [r \in first |-> Cardinality(before(r))]
<1>1. \A r \in S : before(r) \in SUBSET Runs /\ Cardinality(before(r)) \in Nat
  BY RunsFinite
<1>2. ASSUME NEW r \in S, NEW q \in S, q < r
      PROVE  Cardinality(before(q)) # Cardinality(before(r))
  <2>1. q \in Int /\ r \in Int /\ \A p \in S : p \in Int
    BY QueueAssumption DEF Runs, QueueAssumption
  <2>2. q \in before(r) /\ q \notin before(q)
    BY <1>2, <2>1
  <2>3. \A p \in S : p < q => p < r
    BY <1>2, <2>1
  <2>4. before(q) \subseteq before(r)
    BY <2>3
  <2>5. IsFiniteSet(before(r))
    BY <1>1, RunsFinite
  <2> HIDE DEF before
  <2> QED
    BY <2>2, <2>4, <2>5, FS_Subset
<1>3. rank \in [first -> 0 .. (k - 1)]
  BY <1>1
<1>4. \A q, r \in first : rank[q] = rank[r] => q = r
  <2>1. \A q, r \in first : q \in S /\ r \in S /\ q \in Int /\ r \in Int
    BY QueueAssumption DEF Runs, QueueAssumption
  <2>2. \A q, r \in first : q # r => q < r \/ r < q
    BY <2>1
  <2>3. \A r \in first : rank[r] = Cardinality(before(r))
    OBVIOUS
  <2> HIDE DEF before, first, rank
  <2> QED
    BY <1>2, <2>1, <2>2, <2>3
<1>5. rank \in Injection(first, 0 .. (k - 1))
  BY <1>3, <1>4 DEF Injection, IsInjective
<1>6. IsFiniteSet(0 .. (k - 1)) /\ Cardinality(0 .. (k - 1)) = k
  BY FS_Interval
<1> HIDE DEF first, rank
<1>7. Cardinality(first) <= k
  BY <1>5, <1>6, FS_Injection
<1> QED
  BY <1>7 DEF first

\* Nobody new on a slot or on the way to one.
LEMMA CapacityShrinks ==
    ASSUME CapacityInv, Occupied' \subseteq Occupied
    PROVE  Cardinality(Occupied') <= Capacity
<1>1. Occupied \subseteq Runs
  BY DEF Occupied, SlotHolders, Resumed
<1>2. Cardinality(Occupied') <= Cardinality(Occupied)
  BY <1>1, RunsFinite, FS_Subset
<1>3. Cardinality(Occupied') \in Nat /\ Cardinality(Occupied) \in Nat
  BY <1>1, RunsFinite
<1> QED
  BY <1>2, <1>3, QueueAssumption DEF CapacityInv, QueueAssumption

\* What a plan still has to resume, it had before.
LEMMA ResumedShrinks ==
    ASSUME NEW todo \in [Runs -> Seq(Op)], NEW r \in Runs, NextUp(todo, r)
    PROVE  /\ Resumed([todo EXCEPT ![r] = Tail(@)]) \subseteq Resumed(todo)
           /\ Head(todo[r]).do = "resume" => r \in Resumed(todo)
<1>1. todo[r] \in Seq(Op) /\ todo[r] # <<>>
  BY DEF NextUp
<1>2. Head(todo[r]) = todo[r][1] /\ 1 \in DOMAIN todo[r]
  BY <1>1
<1>3. \A i \in DOMAIN Tail(todo[r]) :
        i + 1 \in DOMAIN todo[r] /\ Tail(todo[r])[i] = todo[r][i + 1]
  BY <1>1
<1>4. [todo EXCEPT ![r] = Tail(@)][r] = Tail(todo[r])
      /\ \A q \in Runs \ {r} : [todo EXCEPT ![r] = Tail(@)][q] = todo[q]
  OBVIOUS
<1>5. ASSUME NEW i \in DOMAIN Tail(todo[r]), Tail(todo[r])[i].do = "resume"
      PROVE  r \in Resumed(todo)
  BY <1>3, <1>5 DEF Resumed
<1>6. Head(todo[r]).do = "resume" => r \in Resumed(todo)
  BY <1>2 DEF Resumed
<1>7. Resumed([todo EXCEPT ![r] = Tail(@)]) \subseteq Resumed(todo)
  <2> DEFINE rest == [todo EXCEPT ![r] = Tail(@)]
  <2>1. ASSUME NEW q \in Resumed(rest) PROVE q \in Resumed(todo)
    <3>1. q \in Runs /\ \E i \in DOMAIN rest[q] : rest[q][i].do = "resume"
      BY <2>1 DEF Resumed
    <3> HIDE DEF rest
    <3>2. rest[r] = Tail(todo[r]) /\ (q # r => rest[q] = todo[q])
      BY <1>4, <3>1 DEF rest
    <3>3. CASE q = r
      BY <1>5, <3>1, <3>2, <3>3
    <3>4. CASE q # r
      BY <3>1, <3>2, <3>4 DEF Resumed
    <3> QED
      BY <3>3, <3>4
  <2> QED
    BY <2>1
<1> QED
  BY <1>6, <1>7

LEMMA ActingTodo ==
    /\ Asleep.todo = Nothing
    /\ \A todo : Acting(todo).todo = todo
    /\ \A old : Listed(old).todo = Nothing
    /\ Resumed(Nothing) = {}
BY DEF Asleep, Acting, Listed, Nothing, Resumed

LEMMA CapacityInit == Init => CapacityInv
<1> SUFFICES ASSUME Init PROVE CapacityInv
  OBVIOUS
<1>1. Resumed(sched.todo) = {} /\ Resumed(recon.todo) = {}
  BY ActingTodo DEF Init
<1>2. Occupied = {}
  BY <1>1 DEF Occupied, SlotHolders, Init
<1> QED
  BY <1>1, <1>2, FS_EmptySet, QueueAssumption DEF CapacityInv, QueueAssumption

LEMMA CapacityRun ==
    ASSUME TypeInv, CapacityInv, NEW r \in Runs,
           \/ CreateRun(r) \/ Launch(r) \/ LaunchFailed(r)
           \/ KillDelete(r) \/ KillSettle(r)
           \/ \E v \in Verdicts : RunnerFinishes(r, v)
           \/ JobEnds(r) \/ JobFails(r) \/ PodTrouble(r)
           \/ PushArrives(r) \/ Grow(r) \/ Watch(r) \/ WatchReports(r)
    PROVE  CapacityInv'
<1>0. JobType /\ FaultsType
  BY DEF TypeInv, TypeOK, JobType, FaultsType
<1>1. UNCHANGED <<sched, recon>>
  BY DEF CreateRun, Launch, LaunchFailed, KillDelete, KillSettle, RunnerFinishes,
         JobEnds, JobFails, PodTrouble, PushArrives, Grow, Watch, WatchReports, loops
<1>2. \A q \in Runs : job'[q] = "running" => job[q] = "running"
  <2>1. ASSUME KillDelete(r)
        PROVE  \A q \in Runs : job'[q] = "running" => job[q] = "running"
    BY <1>0, <2>1, DeleteEffect DEF KillDelete
  <2>2. ASSUME Launch(r)
        PROVE  \A q \in Runs : job'[q] = "running" => job[q] = "running"
    <3>1. job' = job \/ \E state \in {"absent", "suspended"} \cup {job[r]} :
                           job' = [job EXCEPT ![r] = state]
      BY <2>2 DEF Launch
    <3> QED
      BY <1>0, <3>1 DEF JobType
  <2>3. ASSUME JobEnds(r) \/ JobFails(r)
        PROVE  \A q \in Runs : job'[q] = "running" => job[q] = "running"
    BY <1>0, <2>3 DEF JobEnds, JobFails, JobType
  <2>4. ASSUME \/ CreateRun(r) \/ LaunchFailed(r) \/ KillSettle(r)
               \/ \E v \in Verdicts : RunnerFinishes(r, v)
               \/ PodTrouble(r) \/ PushArrives(r) \/ Grow(r)
               \/ Watch(r) \/ WatchReports(r)
        PROVE  UNCHANGED job
    BY <2>4 DEF CreateRun, LaunchFailed, KillSettle, RunnerFinishes, PodTrouble,
                PushArrives, Grow, Watch, WatchReports, cluster
  <2>5. \/ KillDelete(r) \/ Launch(r) \/ JobEnds(r) \/ JobFails(r)
        \/ UNCHANGED job
    BY <2>4
  <2>6. CASE UNCHANGED job
    BY <2>6
  <2> QED
    BY <2>1, <2>2, <2>3, <2>5, <2>6
<1>3. Occupied' \subseteq Occupied
  BY <1>1, <1>2 DEF Occupied, SlotHolders
<1> QED
  BY <1>1, <1>3, CapacityShrinks DEF CapacityInv

\* The plan of a pass fills the slots that are left, and no more.
LEMMA CapacityPlanned ==
    ASSUME TypeInv, CapacityInv, SchedPlan
    PROVE  Cardinality(Occupied') <= Capacity
<1> DEFINE queued == {r \in sched.seen : job[r] = "suspended"}
           inTime == queued \ sched.old
           slots  == Capacity - Cardinality(SlotHolders)
           starts == {r \in inTime : Cardinality({q \in inTime : q < r}) < slots}
<1>1. inTime \in SUBSET Runs /\ SlotHolders \in SUBSET Runs /\ starts \in SUBSET Runs
  BY DEF TypeInv, TypeOK, Pass, SlotHolders
<1>2. /\ Cardinality(SlotHolders) \in Nat /\ IsFiniteSet(SlotHolders)
      /\ Cardinality(starts) \in Nat /\ IsFiniteSet(starts)
  BY <1>1, RunsFinite
<1>3. Cardinality(SlotHolders) <= Capacity
  <2>1. Occupied \in SUBSET Runs /\ SlotHolders \in SUBSET Occupied
    BY DEF Occupied, SlotHolders, Resumed
  <2>2. Cardinality(SlotHolders) <= Cardinality(Occupied) /\ Cardinality(Occupied) \in Nat
    BY <2>1, RunsFinite, FS_Subset
  <2> QED
    BY <1>2, <2>2, QueueAssumption DEF CapacityInv, QueueAssumption
<1>4. slots \in Nat
  BY <1>2, <1>3, QueueAssumption DEF QueueAssumption
<1>5. Cardinality(starts) <= slots
  <2> HIDE DEF inTime, slots
  <2> QED
    BY <1>1, <1>4, FirstOnes
<1>6. SlotHolders' = SlotHolders
  BY DEF SchedPlan, SlotHolders, cluster
<1>7. Resumed(sched'.todo) \subseteq starts
  <2>1. CASE sched' = Asleep
    BY <2>1, ActingTodo
  <2>2. CASE sched' = Acting(Schedule)
    <3>1. sched'.todo = Schedule
      BY <2>2, ActingTodo
    <3>2. \A r \in Runs : (\E i \in DOMAIN Schedule[r] : Schedule[r][i].do = "resume")
                            => r \in starts
      BY DEF Schedule, DeleteJob, SettleRow
    <3> QED
      BY <3>1, <3>2 DEF Resumed
  <2> QED
    BY <2>1, <2>2 DEF SchedPlan
<1>8. Occupied' \subseteq SlotHolders \cup starts
  BY <1>6, <1>7 DEF Occupied
<1>9. SlotHolders \cap starts = {}
  BY DEF SlotHolders
<1> HIDE DEF starts
<1>10. /\ IsFiniteSet(SlotHolders \cup starts)
       /\ Cardinality(SlotHolders \cup starts)
            = Cardinality(SlotHolders) + Cardinality(starts)
  BY <1>2, <1>9, FS_Union, FS_EmptySet
<1>11. Cardinality(Occupied') <= Cardinality(SlotHolders \cup starts)
       /\ Cardinality(Occupied') \in Nat
  BY <1>8, <1>10, FS_Subset, FS_CardinalityType
<1> QED
  BY <1>2, <1>5, <1>10, <1>11, QueueAssumption DEF QueueAssumption

\* A pass that applies an effect turns a planned resume into a running Job at
\* the most; the reconciler's plans hold no resume.
LEMMA CapacityActed ==
    ASSUME TypeInv, CapacityInv, NEW todo \in [Runs -> Seq(Op)],
           NEW r \in Runs, NextUp(todo, r), Perform(r, Head(todo[r]))
    PROVE  \A q \in Runs : job'[q] = "running" =>
             \/ job[q] = "running"
             \/ q \in Resumed(todo)
<1>1. JobType /\ FaultsType
  BY DEF TypeInv, TypeOK, JobType, FaultsType
<1>2. Head(todo[r]).do = "resume" => r \in Resumed(todo)
  BY ResumedShrinks
<1>3. CASE Head(todo[r]).do = "resume" /\ Resume(r)
  BY <1>1, <1>2, <1>3 DEF Resume, JobType
<1>4. CASE Delete(r)
  BY <1>1, <1>4, DeleteEffect
<1>5. CASE UNCHANGED job
  BY <1>5
<1> QED
  BY <1>3, <1>4, <1>5 DEF Perform

LEMMA CapacityLoops ==
    ASSUME TypeInv, CapacityInv,
           \/ SchedList \/ SchedPlan \/ SchedAct
           \/ ReconList \/ ReconDecide \/ ReconReport \/ ReconPods \/ ReconAct
           \/ Restart
    PROVE  CapacityInv'
<1>a. /\ sched.todo \in [Runs -> Seq(Op)]
      /\ recon.todo \in [Runs -> Seq(Op)] /\ Resumed(recon.todo) = {}
  BY DEF TypeInv, TypeOK, Pass, CapacityInv
<1>b. Resumed(Nothing) = {}
  BY ActingTodo
<1>c. ASSUME NEW r \in Runs, NextUp(recon.todo, r), Perform(r, Head(recon.todo[r]))
      PROVE  /\ Resumed([recon.todo EXCEPT ![r] = Tail(@)]) = {}
             /\ \A q \in Runs : job'[q] = "running" => job[q] = "running"
  <2>1. Resumed([recon.todo EXCEPT ![r] = Tail(@)]) \subseteq Resumed(recon.todo)
    BY <1>a, <1>c, ResumedShrinks
  <2>2. \A q \in Runs : job'[q] = "running" => job[q] = "running" \/ q \in Resumed(recon.todo)
    BY <1>a, <1>c, CapacityActed
  <2> QED
    BY <1>a, <2>1, <2>2
<1>1. CASE SchedList
  <2>1. Resumed(sched'.todo) = {}
    BY <1>1, ActingTodo DEF SchedList
  <2>2. Occupied' \subseteq Occupied /\ UNCHANGED recon
    BY <1>1, <2>1 DEF SchedList, Occupied, SlotHolders, cluster
  <2> QED
    BY <2>2, CapacityShrinks DEF CapacityInv
<1>2. CASE SchedPlan
  BY <1>2, CapacityPlanned DEF SchedPlan, CapacityInv
<1>3. CASE SchedAct
  <2>1. PICK r \in Runs :
          /\ NextUp(sched.todo, r)
          /\ Perform(r, Head(sched.todo[r]))
          /\ sched' = Acting([sched.todo EXCEPT ![r] = Tail(@)])
    BY <1>3 DEF SchedAct
  <2>2. sched'.todo = [sched.todo EXCEPT ![r] = Tail(@)]
    BY <2>1, ActingTodo
  <2>3. Resumed([sched.todo EXCEPT ![r] = Tail(@)]) \subseteq Resumed(sched.todo)
    BY <1>a, <2>1, ResumedShrinks
  <2>4. \A q \in Runs : job'[q] = "running" => job[q] = "running" \/ q \in Resumed(sched.todo)
    BY <1>a, <2>1, CapacityActed
  <2>6. Occupied' \subseteq Occupied
    BY <2>2, <2>3, <2>4 DEF SlotHolders, Occupied
  <2>5. UNCHANGED recon
    BY <1>3 DEF SchedAct
  <2> QED
    BY <2>5, <2>6, CapacityShrinks DEF CapacityInv
<1>4. CASE ReconList
  <2>1. Resumed(recon'.todo) = {}
    BY <1>4, <1>b, ActingTodo DEF ReconList
  <2>2. UNCHANGED <<job, sched>>
    BY <1>4 DEF ReconList, cluster
  <2> QED
    BY <2>1, <2>2 DEF CapacityInv, Occupied, SlotHolders
<1>5. CASE ReconDecide
  <2> DEFINE settles == [r \in Runs |-> IF Decide(r) = {} THEN <<>>
                           ELSE <<SettleRow(CHOOSE v \in Decide(r) : TRUE)>>]
             live == {r \in recon.seen : Decide(r) = {}}
  <2>1. Resumed(settles) = {}
    <3>1. \A r \in Runs : \/ settles[r] = <<>>
                          \/ \E v : settles[r] = <<SettleRow(v)>>
      OBVIOUS
    <3> HIDE DEF settles
    <3>2. \A v : SettleRow(v).do # "resume"
      BY DEF SettleRow
    <3>3. ASSUME NEW r \in Runs, NEW i \in DOMAIN settles[r],
                 settles[r][i].do = "resume"
          PROVE  FALSE
      <4>1. PICK v : settles[r] = <<SettleRow(v)>>
        BY <3>1, <3>3
      <4>2. settles[r][i] = SettleRow(v)
        BY <3>3, <4>1
      <4> QED
        BY <3>2, <3>3, <4>2
    <3> QED
      BY <3>3 DEF Resumed
  <2> HIDE DEF settles, live
  <2>2. /\ recon' = [Asleep EXCEPT !.pc = "pods", !.live = live, !.todo = settles]
             \/ recon' = Asleep
        /\ UNCHANGED <<job, sched>>
    BY <1>5 DEF ReconDecide, settles, live, cluster
  <2>3. [Asleep EXCEPT !.pc = "pods", !.live = live, !.todo = settles].todo = settles
    BY DEF Asleep
  <2>4. Resumed(recon'.todo) = {}
    BY <1>b, <2>1, <2>2, <2>3, ActingTodo
  <2> QED
    BY <2>2, <2>4 DEF CapacityInv, Occupied, SlotHolders
<1>6. CASE ReconReport
  <2>1. PICK r \in Runs :
          /\ NextUp(recon.todo, r)
          /\ Perform(r, Head(recon.todo[r]))
          /\ recon' = [recon EXCEPT !.todo[r] = Tail(@)]
    BY <1>6 DEF ReconReport
  <2>2. recon'.todo = [recon.todo EXCEPT ![r] = Tail(@)]
    <3>1. recon \in Pass
      BY DEF TypeInv, TypeOK
    <3> QED
      BY <2>1, <3>1 DEF Pass
  <2>3. Resumed(recon'.todo) = {} /\ SlotHolders' \subseteq SlotHolders
    BY <1>c, <2>1, <2>2 DEF SlotHolders
  <2>4. UNCHANGED sched
    BY <1>6 DEF ReconReport
  <2> QED
    BY <2>3, <2>4, CapacityShrinks DEF CapacityInv, Occupied
<1>7. CASE ReconPods
  <2>1. recon' = Asleep
          \/ \E condemned \in SUBSET Runs :
               recon' = Acting([r \in Runs |-> IF r \in condemned
                          THEN <<SettleRow("failed"), DeleteJob>> ELSE <<>>])
    <3>1. recon.live \in SUBSET Runs
      BY DEF TypeInv, TypeOK, Pass
    <3> QED
      BY <1>7, <3>1, Zenon DEF ReconPods
  <2>2. Resumed(recon'.todo) = {}
    <3>1. CASE recon' = Asleep
      BY <1>b, <3>1, ActingTodo
    <3>2. ASSUME NEW condemned \in SUBSET Runs,
                 recon' = Acting([r \in Runs |-> IF r \in condemned
                            THEN <<SettleRow("failed"), DeleteJob>> ELSE <<>>])
          PROVE  Resumed(recon'.todo) = {}
      <4>1. recon'.todo = [r \in Runs |-> IF r \in condemned
                             THEN <<SettleRow("failed"), DeleteJob>> ELSE <<>>]
        BY <3>2, ActingTodo
      <4> QED
        BY <4>1 DEF SettleRow, DeleteJob, Resumed
    <3> QED
      BY <2>1, <3>1, <3>2
  <2>3. UNCHANGED <<job, sched>>
    BY <1>7 DEF ReconPods, cluster
  <2> QED
    BY <2>2, <2>3 DEF CapacityInv, Occupied, SlotHolders
<1>8. CASE ReconAct
  <2>1. PICK r \in Runs :
          /\ NextUp(recon.todo, r)
          /\ Perform(r, Head(recon.todo[r]))
          /\ recon' = Acting([recon.todo EXCEPT ![r] = Tail(@)])
    BY <1>8 DEF ReconAct
  <2>2. recon'.todo = [recon.todo EXCEPT ![r] = Tail(@)]
    BY <2>1, ActingTodo
  <2>3. Resumed(recon'.todo) = {} /\ SlotHolders' \subseteq SlotHolders
    BY <1>c, <2>1, <2>2 DEF SlotHolders
  <2>4. UNCHANGED sched
    BY <1>8 DEF ReconAct
  <2> QED
    BY <2>3, <2>4, CapacityShrinks DEF CapacityInv, Occupied
<1>9. CASE Restart
  <2>1. Resumed(sched'.todo) = {} /\ Resumed(recon'.todo) = {}
    BY <1>9, ActingTodo DEF Restart
  <2>2. Occupied' \subseteq Occupied
    BY <1>9, <2>1 DEF Restart, Occupied, SlotHolders, cluster
  <2> QED
    BY <1>b, <2>1, <2>2, CapacityShrinks DEF CapacityInv
<1> QED
  BY <1>1, <1>2, <1>3, <1>4, <1>5, <1>6, <1>7, <1>8, <1>9

LEMMA CapacityStep == TypeInv /\ CapacityInv /\ [Next]_vars => CapacityInv'
<1> SUFFICES ASSUME TypeInv, CapacityInv, [Next]_vars PROVE CapacityInv'
  OBVIOUS
<1>1. CASE Quiet \/ UNCHANGED vars
  BY <1>1 DEF Quiet, CapacityInv, Occupied, SlotHolders, vars, cluster, loops
<1> QED
  BY <1>1, CapacityRun, CapacityLoops DEF Next

\* However passes, reports, kills and restarts interleave, and whichever calls
\* fail, no more Jobs run than the capacity admits.
THEOREM CapacityHolds == Spec => []CapacityRespected
<1>1. CapacityInv => CapacityRespected
  <2> SUFFICES ASSUME CapacityInv PROVE CapacityRespected
    OBVIOUS
  <2>1. Occupied \in SUBSET Runs /\ SlotHolders \in SUBSET Occupied
    BY DEF Occupied, SlotHolders, Resumed
  <2>2. /\ Cardinality(SlotHolders) <= Cardinality(Occupied)
        /\ Cardinality(SlotHolders) \in Nat /\ Cardinality(Occupied) \in Nat
    BY <2>1, RunsFinite, FS_Subset
  <2> QED
    BY <2>2, QueueAssumption
       DEF CapacityInv, CapacityRespected, SlotHolders, QueueAssumption
<1> QED
  BY <1>1, TypeAlways, CapacityInit, CapacityStep, PTL DEF Spec

-----------------------------------------------------------------------------
(* While no call failed, a run nobody killed is failed only once it is over.*)
(* A Job that is gone does not come back: its launcher has ended.          *)

Launched(r) == row[r] # "none" /\ launcher[r] = "off"

Over(r) ==
    \/ verdict[r] = "failed" \/ job[r] = "failed"
    \/ job[r] = "absent" /\ Launched(r)

\* What holds of a run that no fault has touched.
Calm(r) ==
    /\ trouble[r] = "none" /\ launcher[r] # "failing"
    /\ launcher[r] # "off" => row[r] # "none"
    /\ job[r] # "absent" \/ age[r] > 0 \/ watch[r] # "off" => Launched(r)
    /\ watch[r] = "failed" => Over(r)
    /\ row[r] = "failed" /\ kill[r] = "no" => Over(r)

\* A pass deletes the Job before it fails a run that is queued, and fails no
\* other run that is not over.
PlanOver(todo) ==
    \A r \in Runs :
        \/ todo[r] \in {<<>>, <<ResumeJob>>}
        \/ todo[r] = <<DeleteJob, SettleRow("failed")>> /\ Launched(r)
        \/ \E v \in Verdicts : todo[r] = <<SettleRow(v)>> /\ (v = "failed" => Over(r))

OverInv ==
    faults = MaxFaults =>
        /\ kube
        /\ \A r \in Runs : Calm(r)
        /\ \A r \in recon.old : age[r] > 0
        /\ PlanOver(sched.todo) /\ PlanOver(recon.todo)

\* What a call does when no call fails.
LEMMA CalmCalls ==
    ASSUME TypeInv, faults' = MaxFaults
    PROVE  /\ \A kind : ~Fault(kind)
           /\ \A r, v : Settle(r, v) => row' = Settled(r, v)
           /\ \A r : Delete(r) => job' = [job EXCEPT ![r] = "absent"]
           /\ \A r : Resume(r) =>
                \/ UNCHANGED <<job, watch>>
                \/ /\ job[r] # "absent"
                   /\ job' = [job EXCEPT ![r] = IF @ = "suspended" THEN "running" ELSE @]
                   /\ watch' = [watch EXCEPT ![r] = "watching"]
<1>1. \A kind : ~Fault(kind)
  BY QueueAssumption DEF Fault, TypeInv, TypeOK, QueueAssumption
<1> QED
  BY <1>1 DEF Settle, Delete, Resume

\* A plan stays good as long as its runs stay over.
LEMMA PlanOverKept ==
    ASSUME NEW todo, PlanOver(todo),
           \A r \in Runs : (Launched(r) => Launched(r)') /\ (Over(r) => Over(r)')
    PROVE  PlanOver(todo)'
BY DEF PlanOver, ResumeJob, DeleteJob, SettleRow

\* Settling changes the row of an active run and no other.
LEMMA SettledRow ==
    ASSUME RowType, NEW r \in Runs, NEW v \in Verdicts, row' = Settled(r, v)
    PROVE  \A q \in Runs :
               \/ row'[q] = row[q]
               \/ q = r /\ row[q] = "active" /\ row'[q] = v
BY DEF Settled, Terminal, RowType, Verdicts

LEMMA OverInit == Init => OverInv
<1> SUFFICES ASSUME Init PROVE OverInv
  OBVIOUS
<1>1. sched = Asleep /\ recon = Asleep
  BY DEF Init
<1>2. Asleep.old = {} /\ Asleep.todo = Nothing
  BY DEF Asleep
<1>3. PlanOver(Nothing)
  BY DEF PlanOver, Nothing
<1>4. \A r \in Runs : Calm(r)
  BY DEF Init, Calm, Launched, Over
<1> QED
  BY <1>1, <1>2, <1>3, <1>4 DEF Init, OverInv

\* A run's own threads, its pod and the passing of time.
LEMMA OverRun ==
    ASSUME TypeInv, OverInv, ~SlowLaunch, faults' = MaxFaults, NEW r \in Runs,
           \/ CreateRun(r) \/ Launch(r) \/ LaunchFailed(r)
           \/ KillDelete(r) \/ KillSettle(r)
           \/ \E v \in Verdicts : RunnerFinishes(r, v)
           \/ JobEnds(r) \/ JobFails(r) \/ PodTrouble(r)
           \/ PushArrives(r) \/ Grow(r) \/ Watch(r) \/ WatchReports(r)
    PROVE  OverInv'
<1>0. /\ RowType /\ JobType /\ WatchType
      /\ age \in [Runs -> 0 .. LastAge] /\ LastAge \in Nat
      /\ launcher \in [Runs -> {"off", "building", "failing"}]
      /\ verdict \in [Runs -> {"none"} \cup Verdicts]
      /\ kill \in [Runs -> {"no", "deleted", "done"}]
      /\ trouble \in [Runs -> {"none", "restarted", "blocked"}]
  BY QueueAssumption
     DEF TypeInv, TypeOK, RowType, JobType, WatchType, QueueAssumption
<1>a. /\ UNCHANGED <<sched, recon, kube>>
      /\ \A q \in Runs : age'[q] >= age[q] /\ age'[q] \in Nat
  BY <1>0 DEF CreateRun, Launch, LaunchFailed, KillDelete, KillSettle, RunnerFinishes,
         JobEnds, JobFails, PodTrouble, PushArrives, Grow, Watch, WatchReports, loops
<1>b. faults = MaxFaults
  BY CalmCalls DEF CreateRun, Launch, LaunchFailed, KillDelete, KillSettle,
     RunnerFinishes, JobEnds, JobFails, PodTrouble, PushArrives, Grow, Watch,
     WatchReports, NoFault, Settle, Delete
<1>c. /\ kube /\ \A q \in Runs : Calm(q)
      /\ \A q \in recon.old : age[q] > 0
      /\ PlanOver(sched.todo) /\ PlanOver(recon.todo)
      /\ recon.old \subseteq Runs
  BY <1>b DEF OverInv, TypeInv, TypeOK, Pass
<1>d. SUFFICES \A q \in Runs : /\ Launched(q) => Launched(q)'
                               /\ Over(q) => Over(q)'
                               /\ Calm(q)'
  BY <1>0, <1>a, <1>c, PlanOverKept DEF OverInv
<1>e. SUFFICES ASSUME NEW q \in Runs
               PROVE  /\ Launched(q) => Launched(q)'
                      /\ Over(q) => Over(q)'
                      /\ Calm(q)'
  OBVIOUS
<1>f. Calm(q) /\ Calm(r)
  BY <1>c
<1> USE DEF Calm, Launched, Over
<1>1. CASE CreateRun(r)
  BY <1>0, <1>1, <1>f DEF CreateRun, RowType, cluster
<1>2. CASE Launch(r)
  <2>1. /\ launcher[r] = "building" /\ launcher' = [launcher EXCEPT ![r] = "off"]
        /\ job' = [job EXCEPT ![r] = IF @ = "absent" THEN "suspended" ELSE @]
        /\ UNCHANGED <<row, age, trouble, verdict, watch, kill>>
    BY <1>2, <1>c, CalmCalls DEF Launch
  <2> QED BY <1>0, <1>f, <2>1 DEF JobType
<1>3. CASE LaunchFailed(r)
  BY <1>3, <1>f DEF LaunchFailed
<1>4. CASE KillDelete(r)
  <2>1. /\ kill' = [kill EXCEPT ![r] = "deleted"]
        /\ job' = [job EXCEPT ![r] = "absent"]
        /\ UNCHANGED <<row, age, trouble, verdict, watch, launcher>>
    BY <1>4, CalmCalls DEF KillDelete
  <2> QED BY <1>0, <1>f, <2>1 DEF JobType
<1>5. CASE KillSettle(r)
  <2>1. /\ kill[r] = "deleted" /\ kill' = [kill EXCEPT ![r] = "done"]
        /\ row' = Settled(r, "failed")
        /\ UNCHANGED <<job, age, trouble, verdict, watch, launcher>>
    BY <1>5, CalmCalls DEF KillSettle, cluster
  <2> QED BY <1>0, <1>f, <2>1 DEF RowType, Settled
<1>6. CASE \E v \in Verdicts : RunnerFinishes(r, v)
  <2>1. /\ verdict[r] = "none" /\ \A p \in Runs : p # r => verdict'[p] = verdict[p]
        /\ UNCHANGED <<row, job, age, trouble, watch, launcher, kill>>
    BY <1>0, <1>6 DEF RunnerFinishes
  <2> QED BY <1>0, <1>f, <2>1
<1>7. CASE JobEnds(r) \/ JobFails(r)
  <2>1. /\ job[r] = "running" /\ \A p \in Runs : p # r => job'[p] = job[p]
        /\ job'[r] \in {"complete", "failed"}
        /\ UNCHANGED <<row, verdict, age, trouble, watch, launcher, kill>>
    BY <1>0, <1>7 DEF JobEnds, JobFails, threads, JobType
  <2> QED BY <1>0, <1>f, <2>1
<1>8. CASE PodTrouble(r)
  <2>1. UNCHANGED <<row, job, verdict, age, watch, launcher, kill>> /\ UNCHANGED trouble
    BY <1>0, <1>8, <1>f, CalmCalls DEF PodTrouble, threads
  <2> QED BY <1>f, <2>1
<1>9. CASE Grow(r)
  <2>1. /\ launcher[r] = "off" /\ row[r] = "active"
        /\ \A p \in Runs : p # r => age'[p] = age[p]
        /\ UNCHANGED <<row, job, verdict, trouble, watch, launcher, kill>>
    BY <1>0, <1>9 DEF Grow, threads, cluster
  <2> QED BY <1>f, <2>1
<1>10. CASE PushArrives(r)
  <2>1. /\ row' = Settled(r, verdict[r]) /\ verdict[r] \in Verdicts
        /\ UNCHANGED <<job, age, trouble, verdict, watch, launcher, kill>>
    BY <1>10, CalmCalls DEF PushArrives, cluster, TypeInv, PushHasVerdict
  <2>2. \/ row'[q] = row[q]
        \/ q = r /\ row[q] = "active" /\ row'[q] = verdict[q]
    BY <1>0, <2>1, SettledRow
  <2> QED BY <1>f, <2>1, <2>2 DEF Verdicts
<1>11. CASE Watch(r)
  <2>1. /\ watch[r] = "watching" /\ \A p \in Runs : p # r => watch'[p] = watch[p]
        /\ \/ watch'[r] = "completed" 
           \/ watch'[r] = "failed" /\ job[r] \in {"failed", "absent"}
        /\ UNCHANGED <<row, job, age, trouble, verdict, launcher, kill>>
    BY <1>0, <1>11, CalmCalls DEF Watch, WatchType, JobVerdict, GivesUp, cluster
  <2> QED BY <1>f, <2>1
<1>12. CASE WatchReports(r)
  <2>1. /\ row' = Settled(r, watch[r]) /\ watch[r] \in Verdicts
        /\ watch' = [watch EXCEPT ![r] = "off"]
        /\ UNCHANGED <<job, age, trouble, verdict, launcher, kill>>
    BY <1>12, CalmCalls DEF WatchReports, cluster
  <2>2. \/ row'[q] = row[q]
        \/ q = r /\ row[q] = "active" /\ row'[q] = watch[q]
    BY <1>0, <2>1, SettledRow
  <2>3. watch'[q] = IF q = r THEN "off" ELSE watch[q]
    BY <1>0, <2>1 DEF WatchType
  <2> QED BY <1>f, <2>1, <2>2, <2>3 DEF Verdicts
<1> QED
  BY <1>1, <1>2, <1>3, <1>4, <1>5, <1>6, <1>7, <1>8, <1>9, <1>10, <1>11, <1>12

\* Applying the next effect of a good plan.
LEMMA OverPerform ==
    ASSUME TypeInv, faults' = MaxFaults, \A q \in Runs : Calm(q),
           NEW todo \in [Runs -> Seq(Op)], PlanOver(todo),
           NEW r \in Runs, NextUp(todo, r), Perform(r, Head(todo[r])),
           UNCHANGED <<age, trouble, verdict, launcher, kill>>
    PROVE  /\ \A q \in Runs : /\ Launched(q) => Launched(q)'
                              /\ Over(q) => Over(q)'
                              /\ Calm(q)'
           /\ PlanOver([todo EXCEPT ![r] = Tail(@)])'
<1>0. RowType /\ JobType /\ WatchType
  BY DEF TypeInv, TypeOK, RowType, JobType, WatchType
<1>a. todo[r] # <<>>
  BY DEF NextUp
<1> DEFINE rest == [todo EXCEPT ![r] = Tail(@)]
<1>b. ASSUME \A q \in Runs : (Launched(q) => Launched(q)') /\ (Over(q) => Over(q)'),
             Tail(todo[r]) = <<>> \/ (Tail(todo[r]) = <<SettleRow("failed")>> /\ Over(r)')
      PROVE  PlanOver(rest)'
  <2>1. PlanOver(todo)'
    BY <1>b, PlanOverKept
  <2>2. \A q \in Runs : q # r => rest[q] = todo[q]
    OBVIOUS
  <2>3. rest[r] = Tail(todo[r])
    OBVIOUS
  <2> HIDE DEF rest
  <2>4. rest' = rest /\ todo' = todo /\ r' = r
    BY DEF rest
  <2>5. "failed" \in Verdicts
    BY DEF Verdicts
  <2> QED BY <1>b, <2>1, <2>2, <2>3, <2>4, <2>5 DEF PlanOver
<1>1. CASE todo[r] = <<ResumeJob>>
  <2>1. Head(todo[r]) = ResumeJob /\ Tail(todo[r]) = <<>>
    BY <1>1
  <2>2. /\ UNCHANGED row
        /\ \/ UNCHANGED <<job, watch>>
           \/ /\ job[r] # "absent"
              /\ job' = [job EXCEPT ![r] = IF @ = "suspended" THEN "running" ELSE @]
              /\ watch' = [watch EXCEPT ![r] = "watching"]
    BY <2>1, CalmCalls DEF Perform, ResumeJob
  <2>3. \A q \in Runs : /\ Launched(q) => Launched(q)'
                        /\ Over(q) => Over(q)'
                        /\ Calm(q)'
    BY <1>0, <2>2 DEF Calm, Launched, Over, JobType, WatchType
  <2> QED BY <1>b, <2>1, <2>3
<1>2. CASE todo[r] = <<DeleteJob, SettleRow("failed")>> /\ Launched(r)
  <2>1. Head(todo[r]) = DeleteJob /\ Tail(todo[r]) = <<SettleRow("failed")>>
    BY <1>2
  <2>2. job' = [job EXCEPT ![r] = "absent"] /\ UNCHANGED <<row, watch>>
    BY <2>1, CalmCalls DEF Perform, DeleteJob
  <2>3. \A q \in Runs : /\ Launched(q) => Launched(q)'
                        /\ Over(q) => Over(q)'
                        /\ Calm(q)'
    BY <1>0, <2>2 DEF Calm, Launched, Over, JobType
  <2>4. Over(r)'
    BY <1>0, <1>2, <2>2 DEF Over, Launched, JobType
  <2> QED BY <1>b, <2>1, <2>3, <2>4
<1>3. ASSUME NEW v \in Verdicts, todo[r] = <<SettleRow(v)>>, v = "failed" => Over(r)
      PROVE  /\ \A q \in Runs : /\ Launched(q) => Launched(q)'
                                /\ Over(q) => Over(q)'
                                /\ Calm(q)'
             /\ PlanOver(rest)'
  <2>1. Head(todo[r]) = SettleRow(v) /\ Tail(todo[r]) = <<>>
    BY <1>3
  <2>2. row' = Settled(r, v) /\ UNCHANGED <<job, watch>>
    BY <2>1, CalmCalls DEF Perform, SettleRow
  <2>3. \A q \in Runs : \/ row'[q] = row[q]
                        \/ q = r /\ row[q] = "active" /\ row'[q] = v
    BY <1>0, <2>2, SettledRow
  <2>4. \A q \in Runs : /\ Launched(q) => Launched(q)'
                        /\ Over(q) => Over(q)'
                        /\ Calm(q)'
    BY <1>3, <2>2, <2>3 DEF Calm, Launched, Over, Verdicts
  <2> QED BY <1>b, <2>1, <2>4
<1> QED BY <1>a, <1>1, <1>2, <1>3 DEF PlanOver

\* The two loops.
LEMMA OverLoops ==
    ASSUME TypeInv, OverInv, faults' = MaxFaults,
           \/ SchedList \/ SchedPlan \/ SchedAct
           \/ ReconList \/ ReconDecide \/ ReconReport \/ ReconPods \/ ReconAct
           \/ Restart
    PROVE  OverInv'
<1>0. /\ sched.todo \in [Runs -> Seq(Op)] /\ recon.todo \in [Runs -> Seq(Op)]
      /\ recon \in Pass /\ recon.old \subseteq Runs /\ recon.live \subseteq Runs
      /\ age \in [Runs -> Nat] /\ JobType
  <2>1. 0 .. LastAge \subseteq Nat
    BY QueueAssumption DEF QueueAssumption
  <2> QED BY <2>1 DEF TypeInv, TypeOK, Pass, JobType
<1>a. ~Restart
  BY CalmCalls DEF Restart
<1>b. faults = MaxFaults
  BY <1>a, CalmCalls DEF SchedList, SchedPlan, SchedAct, ReconList, ReconDecide,
     ReconReport, ReconPods, ReconAct, NoFault, Perform, Resume, Delete, Settle
<1>c. /\ kube /\ \A q \in Runs : Calm(q)
      /\ \A q \in recon.old : age[q] > 0
      /\ PlanOver(sched.todo) /\ PlanOver(recon.todo)
  BY <1>b DEF OverInv
<1>d. UNCHANGED <<age, trouble, verdict, launcher, kill, kube>>
  BY <1>a DEF SchedList, SchedPlan, SchedAct, ReconList, ReconDecide, ReconReport,
     ReconPods, ReconAct, cluster, threads
<1>e. PlanOver(Nothing)
  BY DEF PlanOver, Nothing
<1>f. /\ Asleep.todo = Nothing /\ Asleep.old = {}
      /\ \A todo : Acting(todo).todo = todo /\ Acting(todo).old = {}
      /\ \A old : Listed(old).todo = Nothing
                  /\ Listed(old).old = {r \in Active : age[r] >= old}
  BY DEF Asleep, Acting, Listed
\* a step that changes no more than what a pass intends
<1>g. ASSUME UNCHANGED <<row, job, watch>>,
             PlanOver(sched'.todo), PlanOver(recon'.todo),
             \A q \in recon'.old : q \in Runs /\ age[q] > 0
      PROVE  OverInv'
  <2>1. \A q \in Runs : (Launched(q)' <=> Launched(q)) /\ (Over(q)' <=> Over(q))
    BY <1>d, <1>g DEF Launched, Over
  <2>2. \A q \in Runs : Calm(q)'
    BY <1>c, <1>d, <1>g, <2>1 DEF Calm
  <2>3. PlanOver(sched.todo)' /\ PlanOver(recon.todo)'
    BY <1>g, <2>1 DEF PlanOver
  <2> QED BY <1>c, <1>d, <1>g, <2>2, <2>3 DEF OverInv
<1>1. CASE SchedList
  BY <1>1, <1>c, <1>0, <1>e, <1>f, <1>g DEF SchedList, cluster, threads
<1>2. CASE SchedPlan
  <2>1. PlanOver(Schedule)
    <3>1. ASSUME NEW r \in Runs, Schedule[r] = <<DeleteJob, SettleRow("failed")>>
          PROVE  job[r] = "suspended"
      BY <3>1 DEF Schedule, ResumeJob, DeleteJob
    <3>2. \A r \in Runs : Schedule[r] \in
            {<<>>, <<ResumeJob>>, <<DeleteJob, SettleRow("failed")>>}
      BY DEF Schedule
    <3>3. \A r \in Runs : job[r] = "suspended" => Launched(r)
      BY <1>c DEF Calm
    <3> HIDE DEF Schedule
    <3> QED BY <3>1, <3>2, <3>3 DEF PlanOver
  <2> QED BY <1>0, <1>2, <1>c, <1>f, <1>g, <2>1, CalmCalls DEF SchedPlan, cluster, threads
<1>3. CASE SchedAct
  <2>1. PICK r \in Runs :
          /\ NextUp(sched.todo, r)
          /\ Perform(r, Head(sched.todo[r]))
          /\ sched' = Acting([sched.todo EXCEPT ![r] = Tail(@)])
    BY <1>3 DEF SchedAct
  <2> DEFINE todo == sched.todo
             rest == [todo EXCEPT ![r] = Tail(@)]
  <2>2. UNCHANGED recon
    BY <1>3 DEF SchedAct
  <2>3. /\ \A q \in Runs : /\ Launched(q) => Launched(q)'
                           /\ Over(q) => Over(q)'
                           /\ Calm(q)'
        /\ \A plan : plan = rest => PlanOver(plan)'
    BY <1>0, <1>c, <1>d, <2>1, OverPerform
  <2>4. PlanOver(sched.todo)'
    BY <1>f, <2>1, <2>3
  <2>5. PlanOver(recon.todo)'
    BY <1>c, <2>2, <2>3, PlanOverKept
  <2> QED BY <1>c, <1>d, <2>2, <2>3, <2>4, <2>5 DEF OverInv
<1>4. CASE ReconList
  <2>1. \A q \in Listed(1).old : q \in Runs /\ age[q] > 0
    BY <1>0, <1>f DEF Active
  <2> QED BY <1>4, <1>c, <1>e, <1>f, <1>g, <2>1 DEF ReconList, cluster, threads
<1>5. CASE ReconDecide
  <2> DEFINE settles == [r \in Runs |-> IF Decide(r) = {} THEN <<>>
                           ELSE <<SettleRow(CHOOSE v \in Decide(r) : TRUE)>>]
             live == {r \in recon.seen : Decide(r) = {}}
             next == [Asleep EXCEPT !.pc = "pods", !.live = live, !.todo = settles]
  <2>1. ASSUME NEW r \in Runs, NEW v \in Decide(r)
        PROVE  v \in Verdicts /\ (v = "failed" => Over(r))
    <3>1. v \in JobVerdict(r) \/ (v = "failed" /\ Orphan(r))
      BY <2>1 DEF Decide
    <3>2. CASE v \in JobVerdict(r)
      BY <3>2 DEF JobVerdict, Verdicts, Over
    <3>3. CASE v = "failed" /\ Orphan(r)
      BY <1>c, <3>3 DEF Orphan, Over, Calm, Verdicts
    <3> QED BY <3>1, <3>2, <3>3
  <2>2. PlanOver(settles)
    <3> SUFFICES ASSUME NEW r \in Runs
                 PROVE  \/ settles[r] = <<>>
                        \/ \E v \in Verdicts : settles[r] = <<SettleRow(v)>>
                                               /\ (v = "failed" => Over(r))
      BY DEF PlanOver
    <3>1. CASE Decide(r) = {}
      BY <3>1
    <3>2. CASE Decide(r) # {}
      <4> DEFINE v == CHOOSE u \in Decide(r) : TRUE
      <4>1. v \in Decide(r) /\ settles[r] = <<SettleRow(v)>>
        BY <3>2
      <4> HIDE DEF v, settles
      <4> QED BY <2>1, <4>1
    <3> QED BY <3>1, <3>2
  <2> HIDE DEF settles, live
  <2>3. next.todo = settles /\ next.old = {}
    BY DEF Asleep
  <2>4. /\ UNCHANGED <<row, job, watch, sched>>
        /\ recon' = next
    BY <1>5, CalmCalls DEF ReconDecide, cluster, threads, settles, live
  <2> QED BY <1>c, <1>g, <2>2, <2>3, <2>4
<1>6. CASE ReconReport
  <2>1. PICK r \in Runs :
          /\ NextUp(recon.todo, r)
          /\ Perform(r, Head(recon.todo[r]))
          /\ recon' = [recon EXCEPT !.todo[r] = Tail(@)]
    BY <1>6 DEF ReconReport
  <2> DEFINE todo == recon.todo
             rest == [todo EXCEPT ![r] = Tail(@)]
  <2>2. recon'.todo = rest /\ recon'.old = recon.old
    BY <1>0, <2>1 DEF Pass
  <2>3. UNCHANGED sched
    BY <1>6 DEF ReconReport
  <2>4. /\ \A q \in Runs : /\ Launched(q) => Launched(q)'
                           /\ Over(q) => Over(q)'
                           /\ Calm(q)'
        /\ \A plan : plan = rest => PlanOver(plan)'
    BY <1>0, <1>c, <1>d, <2>1, OverPerform
  <2>5. PlanOver(recon.todo)'
    BY <2>2, <2>4
  <2>6. PlanOver(sched.todo)'
    BY <1>c, <2>3, <2>4, PlanOverKept
  <2> QED BY <1>c, <1>d, <2>2, <2>4, <2>5, <2>6 DEF OverInv
<1>7. CASE ReconPods
  <2>1. \A r \in recon.live : trouble[r] = "none"
    BY <1>0, <1>c DEF Calm
  <2>2. recon' = Asleep
    BY <1>7, <2>1, CalmCalls DEF ReconPods, Acting, Nothing
  <2>3. UNCHANGED <<row, job, watch, sched>>
    BY <1>7 DEF ReconPods, cluster, threads
  <2> QED BY <1>c, <1>e, <1>f, <1>g, <2>2, <2>3
<1>8. CASE ReconAct
  <2>1. PICK r \in Runs :
          /\ NextUp(recon.todo, r)
          /\ Perform(r, Head(recon.todo[r]))
          /\ recon' = Acting([recon.todo EXCEPT ![r] = Tail(@)])
    BY <1>8 DEF ReconAct
  <2> DEFINE todo == recon.todo
             rest == [todo EXCEPT ![r] = Tail(@)]
  <2>2. recon'.todo = rest /\ recon'.old = {}
    BY <1>f, <2>1
  <2>3. UNCHANGED sched
    BY <1>8 DEF ReconAct
  <2>4. /\ \A q \in Runs : /\ Launched(q) => Launched(q)'
                           /\ Over(q) => Over(q)'
                           /\ Calm(q)'
        /\ \A plan : plan = rest => PlanOver(plan)'
    BY <1>0, <1>c, <1>d, <2>1, OverPerform
  <2>5. PlanOver(recon.todo)'
    BY <2>2, <2>4
  <2>6. PlanOver(sched.todo)'
    BY <1>c, <2>3, <2>4, PlanOverKept
  <2> QED BY <1>c, <1>d, <2>2, <2>4, <2>5, <2>6 DEF OverInv
<1> QED
  BY <1>a, <1>1, <1>2, <1>3, <1>4, <1>5, <1>6, <1>7, <1>8

LEMMA OverStep ==
    ASSUME TypeInv, OverInv, ~SlowLaunch, [Next]_vars
    PROVE  OverInv'
<1> SUFFICES ASSUME faults' = MaxFaults PROVE OverInv'
  BY DEF OverInv
<1>1. CASE Quiet \/ UNCHANGED vars
  <2>1. UNCHANGED <<row, age, job, trouble, verdict, launcher, watch, kill, sched,
                    recon, kube, faults>>
    BY <1>1 DEF Quiet, vars, cluster, threads, loops
  <2> QED BY <2>1 DEF OverInv, Calm, Launched, Over, PlanOver
<1> QED
  BY <1>1, OverRun, OverLoops DEF Next

\* When launches end within the orphan grace and no call fails, no pass, watcher
\* or report fails a run that is not over, whatever is killed and whenever.
THEOREM FailuresAreReal == ~SlowLaunch => (Spec => []FailedMeansOver)
<1> SUFFICES ASSUME ~SlowLaunch PROVE Spec => []FailedMeansOver
  OBVIOUS
<1>1. TypeInv /\ OverInv => FailedMeansOver
  BY DEF TypeInv, TypeOK, OverInv, Calm, Over, FailedMeansOver
<1>2. TypeInv /\ OverInv /\ [Next]_vars => (TypeInv /\ OverInv)'
  BY TypeStep, OverStep
<1> QED
  BY TypeInit, OverInit, <1>1, <1>2, PTL DEF Spec
=============================================================================
