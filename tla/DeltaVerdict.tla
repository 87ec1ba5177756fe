---------------------------- MODULE DeltaVerdict ----------------------------
(***************************************************************************)
(* The delta verdict on a run's row (crates/deja-orchestrator/src/main.rs: *)
(* settle_deltas_for, delta_for_run, the acknowledgement handlers, Restates*)
(* and v1_repoint_baseline; crates/deja-store for the statements).         *)
(*                                                                         *)
(* A run of a pull request is measured against the baseline its record     *)
(* names.  Four kinds of task compute its delta at the same time and write *)
(* the same word of its row: the settlement a finish or a re-point spawns, *)
(* a view, a proposal, and the one restatement that follows the pull       *)
(* request's decisions.  A step of a task is one read or one write of what *)
(* they share.                                                             *)
(***************************************************************************)
EXTENDS DeltaRules

CONSTANTS
    Runs,        \* runs the store knows
    Measured,    \* those created for the pull request, with a baseline
    FirstBase,   \* the baseline each of them is created with
    Change,      \* the version of the change each of them ran
    TapeName,    \* the recording each run was created for, or Nobody's
    Report,      \* the tape each run's ingest report says it read
    Tree,        \* the behaviour tree each run publishes when it completes
    Early,       \* runs that completed before the pull request's were created
    OldAcks,     \* acknowledgements given on earlier versions of the change
    People,
    Nobody,      \* no run
    Tasks,       \* bound: tasks at a time
    Kinds,       \* which clients there are: "view", "propose"
    MaxAcks,     \* bound: acknowledgements
    MaxDecisions,\* bound: confirmations and withdrawals
    MaxRepoints, \* bound: re-points of baselines
    Faults,      \* "cancel", "restart", "store", "kill"
    MaxFaults    \* bound: how many of those

IsAck(k) ==
    /\ k = [id |-> k.id, shape |-> k.shape, change |-> k.change, by |-> k.by,
            confirmed |-> k.confirmed, withdrawn |-> k.withdrawn]
    /\ k.id \in Nat /\ k.by \in People /\ k.confirmed \in People \cup {"nobody"}
    /\ k.withdrawn \in BOOLEAN

ASSUME DeltaAssumption ==
    /\ Measured \subseteq Runs /\ Early \subseteq Runs \ Measured /\ Nobody \notin Runs
    /\ "nobody" \notin People
    /\ FirstBase \in [Measured -> Runs]
    /\ \A y \in Measured : FirstBase[y] # y
    /\ IsFiniteSet(OldAcks)
    /\ \A k \in OldAcks : IsAck(k) /\ k.id <= Cardinality(OldAcks) /\ k.confirmed # k.by
    /\ {MaxAcks, MaxDecisions, MaxRepoints, MaxFaults} \subseteq Nat
    /\ Kinds \subseteq {"view", "propose"}
    /\ Faults \subseteq {"cancel", "restart", "store", "kill"}

VARIABLES
    state,    \* how far each run is; "killed" is a row that says failed beside
              \* a record that still says it runs, and see RecordOnly
    record,   \* the baseline runs/<id>.json names
    row,      \* replay_runs: params.delta_against and delta_verdict
    cache,    \* the baseline whose delta is cached beside the run's ledger
    acks,     \* the acknowledgements of the pull request
    task,     \* the tasks under way
    restates, \* the Restates entry of the pull request
    owed,     \* decisions written whose handler has not asked for a restate
    repoint,  \* the re-point under way, under its mutex
    limits,   \* what is left of each bound
    outrun,   \* runs whose row does not say what is so because an answer
              \* already old landed on it, or what would have written it was
              \* lost (history)
    dropped   \* a decision's restatement was never asked for, nor one since
              \* (history)

runVars  == <<state, record, repoint>>
rowVars  == <<row, cache>>
pullVars == <<acks, restates, owed>>
history  == <<outrun, dropped>>
vars == <<runVars, rowVars, pullVars, task, limits, history>>

-----------------------------------------------------------------------------
\* The record alone has the run's verdict: its row still says that it runs, or
\* that it was killed.
RecordOnly == {"record_completed", "record_failed"}
States == {"running", "completed", "failed", "killed"} \cup RecordOnly
Words  == {"pending", "refused", "unknown", "pass", "acknowledged", "fail"}

Free == [kind |-> "free", pc |-> "free", of |-> Nobody, y |-> Nobody, m |-> Nobody,
         word |-> "pending", todo |-> {}]

NoRepoint == [y |-> Nobody, from |-> Nobody, to |-> Nobody]

TypeOK ==
    /\ state \in [Runs -> States]
    /\ record \in [Measured -> Runs]
    /\ row \in [Measured -> [against : Runs, word : Words]]
    /\ cache \in [Measured -> Runs \cup {Nobody}]
    /\ \A k \in acks : IsAck(k)
    /\ task \in [Tasks -> [kind : {"free", "settle", "view", "propose", "restate"},
                           pc : {"free", "own", "list", "each", "read", "overlay",
                                 "record", "insert"},
                           of : Runs \cup {Nobody}, y : Runs \cup {Nobody},
                           m : Runs \cup {Nobody}, word : Words, todo : SUBSET Measured]]
    /\ restates \in {"idle", "running", "again"}
    /\ owed \in 0 .. MaxDecisions
    /\ repoint \in [y : Measured \cup {Nobody}, from : Runs \cup {Nobody},
                    to : Runs \cup {Nobody}]
    /\ outrun \subseteq Measured /\ dropped \in BOOLEAN

Init ==
    /\ state = [r \in Runs |-> IF r \in Early THEN "completed" ELSE "running"]
    /\ record = FirstBase
    /\ row = [y \in Measured |-> [against |-> FirstBase[y], word |-> "pending"]]
    /\ cache = [y \in Measured |-> Nobody]
    /\ acks = OldAcks
    /\ task = [t \in Tasks |-> Free]
    /\ restates = "idle" /\ owed = 0
    /\ repoint = NoRepoint
    /\ limits = [acks |-> MaxAcks, decisions |-> MaxDecisions,
                 repoints |-> MaxRepoints, faults |-> MaxFaults]
    /\ outrun = {} /\ dropped = FALSE

Spend(what)  == limits[what] > 0 /\ limits' = [limits EXCEPT ![what] = @ - 1]
Fault(kind)  == kind \in Faults /\ Spend("faults")

-----------------------------------------------------------------------------
(* What a delta of y against m comes to.                                   *)

\* tape_report and behaviour_tree_for, y's side first: a run under way is
\* waited for, one that died published nothing to compare.
Side(r) == CASE state[r] \in {"running", "record_failed"}      -> "pending"
             [] state[r] \in {"failed", "killed"}              -> "refused"
             [] state[r] \in {"completed", "record_completed"} -> "there"

NamedApart(y, m) ==
    Nobody \notin {TapeName[y], TapeName[m]} /\ TapeName[y] # TapeName[m]

\* delta_between without its verdict: "there" when it can be computed.  One
\* name is not one tape: the reports are compared as well.
Between(y, m) == IF NamedApart(y, m) THEN "tape_mismatch"
                 ELSE IF Side(y) # "there" THEN Side(y)
                 ELSE IF Side(m) # "there" THEN Side(m)
                 ELSE IF Report[y] # Report[m] THEN "tape_mismatch"
                 ELSE IF Refuses(Tree[m], Tree[y]) THEN "refused"
                 ELSE "there"

\* delta_verdict_word of a delta that is not there: a mismatch is a refusal.
WordOf(found) == IF found = "tape_mismatch" THEN "refused" ELSE found

Overlaid(y, m) == Effective(ChargedShapes(Tree[m], Tree[y]), acks, Change[y])

\* The word the row should say now.
Truth(y) ==
    LET m == row[y].against
    IN IF Between(y, m) = "there" THEN Overlaid(y, m) ELSE WordOf(Between(y, m))

\* cached_is_current: the file names both runs.
Cached(y, m) == cache[y] = m

-----------------------------------------------------------------------------
(* delta_for_run, as a task runs it.                                       *)

Delta(t, y, m) == [t EXCEPT !.pc = "read", !.y = y, !.m = m]

Goes(t, to) == task' = [task EXCEPT ![t] = to]

\* Rows that what was lost leaves untrue.
Missed(ys) == outrun \cup {y \in ys : row[y].word # Truth(y)}

\* The cached document, or the two trees; a computed delta is cached before
\* the overlay.
Read(t) ==
    LET y == task[t].y  m == task[t].m
        found == IF Cached(y, m) THEN "there" ELSE Between(y, m)
    IN /\ task[t].pc = "read"
       /\ Goes(t, IF found = "there" THEN [task[t] EXCEPT !.pc = "overlay"]
                  ELSE [task[t] EXCEPT !.pc = "record", !.word = WordOf(found)])
       /\ cache' = IF found = "there" THEN [cache EXCEPT ![y] = IF Cached(y, m) THEN @ ELSE m]
                   ELSE cache
       /\ UNCHANGED <<runVars, pullVars, history, row, limits>>

\* A report that cannot be read now may be later; a record is refused.
ReadFails(t) ==
    /\ task[t].pc = "read" /\ Fault("store")
    /\ \E word \in {"pending", "refused"} :
          Goes(t, [task[t] EXCEPT !.pc = "record", !.word = word])
    /\ UNCHANGED <<runVars, rowVars, pullVars, history>>

\* overlay_acknowledgements, and the word of its result.
Overlay(t) ==
    /\ task[t].pc = "overlay"
    /\ \/ /\ Goes(t, [task[t] EXCEPT !.pc = "record",
                                     !.word = Overlaid(task[t].y, task[t].m)])
          /\ UNCHANGED limits
       \/ Fault("store") /\ Goes(t, [task[t] EXCEPT !.pc = "record", !.word = "unknown"])
    /\ UNCHANGED <<runVars, rowVars, pullVars, history>>

\* variant: the row takes every verdict
LandsAlways(y, m) == TRUE

\* set_delta_verdict: only for the baseline the row names.
Lands(y, m) == row[y].against = m

After(t) == CASE t.kind = "settle"  -> IF t.y = t.of THEN "list" ELSE "each"
              [] t.kind = "restate" -> "each"
              [] t.kind = "propose" -> IF t.word \in {"pending", "refused"} THEN "free"
                                       ELSE "insert"
              [] OTHER -> "free"

\* A restatement whose acknowledgements are old is not excused: its own loop
\* has to come back.
Computed == {"pass", "acknowledged", "fail"}
Excused(t) == task[t].kind # "restate" \/ task[t].word \notin Computed

\* record_delta_verdict.
Record(t) ==
    LET y == task[t].y  m == task[t].m  word == task[t].word
        next == After(task[t])
    IN /\ task[t].pc = "record"
       /\ Goes(t, IF next = "free" THEN Free ELSE [task[t] EXCEPT !.pc = next])
       /\ \/ /\ row' = IF Lands(y, m) THEN [row EXCEPT ![y].word = word] ELSE row
             /\ outrun' = IF ~Lands(y, m) THEN outrun
                          ELSE IF word = Truth(y) THEN outrun \ {y}
                          ELSE IF Excused(t) THEN outrun \cup {y} ELSE outrun
             /\ UNCHANGED limits
          \/ Fault("store") /\ outrun' = Missed({y}) /\ UNCHANGED row
       /\ UNCHANGED <<runVars, pullVars, cache, dropped>>

-----------------------------------------------------------------------------
(* The tasks.                                                              *)

Idle(t) == task[t].kind = "free"
Started(kind, pc, r) == [Free EXCEPT !.kind = kind, !.pc = pc, !.of = r]

\* settle_deltas_for: the run's own delta, then those of the completed runs
\* measured against it.
SettleOwn(t) ==
    /\ task[t].pc = "own"
    /\ LET r == task[t].of
       IN Goes(t, IF r \in Measured THEN Delta(task[t], r, record[r])
                  ELSE [task[t] EXCEPT !.pc = "list"])
    /\ UNCHANGED <<runVars, rowVars, pullVars, history, limits>>

Dependents(m) == {y \in Measured : row[y].against = m /\ state[y] = "completed"}

\* runs_measured_against, or runs_for_pull_request.
Listed(t) == IF t.kind = "settle" THEN Dependents(t.of) ELSE Measured

List(t) ==
    /\ task[t].pc = "list"
    /\ Goes(t, [task[t] EXCEPT !.pc = "each", !.todo = Listed(task[t])])
    /\ UNCHANGED <<runVars, rowVars, pullVars, history, limits>>

\* A settlement measures its dependents against its own run; a restatement
\* each run against the baseline its record names.
NextRun(t) ==
    /\ task[t].pc = "each"
    /\ \E y \in task[t].todo :
          Goes(t, Delta([task[t] EXCEPT !.todo = @ \ {y}], y,
                        IF task[t].kind = "settle" THEN task[t].of ELSE record[y]))
    /\ UNCHANGED <<runVars, rowVars, pullVars, history, limits>>

\* What cannot be read is passed over: a settlement's own record, the list of
\* either, the record of a run to restate.
PassesOver(t) ==
    /\ Fault("store")
    /\ \/ /\ task[t].pc = "own" /\ Goes(t, [task[t] EXCEPT !.pc = "list"])
          /\ outrun' = Missed(Measured \cap {task[t].of})
       \/ /\ task[t].pc = "list" /\ Goes(t, [task[t] EXCEPT !.pc = "each"])
          /\ outrun' = Missed(Listed(task[t]))
       \/ /\ task[t].pc = "each" /\ task[t].kind = "restate"
          /\ \E y \in task[t].todo :
                Goes(t, [task[t] EXCEPT !.todo = @ \ {y}]) /\ outrun' = Missed({y})
    /\ UNCHANGED <<runVars, rowVars, pullVars, dropped>>

SettleEnds(t) ==
    /\ task[t].kind = "settle" /\ task[t].pc = "each" /\ task[t].todo = {}
    /\ Goes(t, Free)
    /\ UNCHANGED <<runVars, rowVars, pullVars, history, limits>>

\* variant: a pass under way is taken to cover the decision
BeginOnce == IF restates = "again" THEN "again" ELSE "running"

\* Restates::begin and finish, as the entry they leave.
Begin == IF restates = "idle" THEN "running" ELSE "again"
Finish == IF restates = "again" THEN "running" ELSE "idle"

\* A decision's handler asks for a restatement: a new pass, or one more.
AskRestate(t) ==
    /\ owed > 0 /\ owed' = owed - 1
    /\ restates' = Begin
    /\ \/ /\ restates = "idle" /\ Idle(t)
          /\ Goes(t, Started("restate", "list", Nobody))
       \/ restates # "idle" /\ task[t].kind = "restate" /\ UNCHANGED task
    /\ dropped' = FALSE
    /\ UNCHANGED <<runVars, rowVars, acks, limits, outrun>>

RestateEnds(t) ==
    /\ task[t].kind = "restate" /\ task[t].pc = "each" /\ task[t].todo = {}
    /\ restates' = Finish
    /\ Goes(t, IF Finish = "running" THEN Started("restate", "list", Nobody) ELSE Free)
    /\ UNCHANGED <<runVars, rowVars, history, acks, owed, limits>>

\* v1_delta for the run's own baseline.
View(t, y) ==
    /\ "view" \in Kinds /\ Idle(t)
    /\ Goes(t, Delta(Started("view", "read", y), y, record[y]))
    /\ UNCHANGED <<runVars, rowVars, pullVars, history, limits>>

\* v1_propose_acknowledgements computes the delta first.
Propose(t, y) ==
    /\ "propose" \in Kinds /\ Idle(t) /\ limits.acks > 0
    /\ Goes(t, Delta(Started("propose", "read", y), y, record[y]))
    /\ UNCHANGED <<runVars, rowVars, pullVars, history, limits>>

\* A client of the two hangs up, and its request ends where it is.
ClientGone(t) ==
    /\ task[t].kind \in {"view", "propose"} /\ Fault("cancel")
    /\ Goes(t, Free)
    /\ UNCHANGED <<runVars, rowVars, pullVars, history>>

Live(shape, change) == {k \in acks : k.shape = shape /\ k.change = change /\ ~k.withdrawn}

\* acknowledgements_propose, one transaction under the advisory lock: a shape
\* with a live acknowledgement is not proposed again.
Insert(t) ==
    LET y == task[t].y  m == task[t].m
        proposal(shape, by) == [id |-> Cardinality(acks) + 1, shape |-> shape,
                                change |-> Change[y], by |-> by,
                                confirmed |-> "nobody", withdrawn |-> FALSE]
    IN /\ task[t].pc = "insert"
       /\ Goes(t, Free)
       /\ \/ \E shape \in ChargedShapes(Tree[m], Tree[y]), by \in People :
                /\ Live(shape, Change[y]) = {} /\ Spend("acks")
                /\ acks' = acks \cup {proposal(shape, by)}
          \/ UNCHANGED <<acks, limits>>
       /\ UNCHANGED <<runVars, rowVars, history, restates, owed>>

-----------------------------------------------------------------------------
(* Decisions.                                                              *)

Decides(k, decided) ==
    /\ Spend("decisions") /\ owed' = owed + 1
    /\ acks' = (acks \ {k}) \cup {decided}
    /\ UNCHANGED <<runVars, rowVars, history, restates, task>>

\* acknowledgement_confirm's WHERE clause.
Open(k) == k.confirmed = "nobody" /\ ~k.withdrawn

\* variant: the proposer too
AnyPerson(k, by) == TRUE

\* confirm_refusal: somebody else than the proposer.
SecondPerson(k, by) == by # k.by

\* v1_confirm_acknowledgement.
Confirm(k, by) ==
    /\ SecondPerson(k, by) /\ Open(k)
    /\ Decides(k, [k EXCEPT !.confirmed = by])

\* v1_withdraw_acknowledgement.
Withdraw(k) == ~k.withdrawn /\ Decides(k, [k EXCEPT !.withdrawn = TRUE])

\* The request ends between its statement and the restatement: its client hangs
\* up, or the statement's answer is lost.
Cancel ==
    /\ owed > 0 /\ (Fault("cancel") \/ Fault("store"))
    /\ owed' = owed - 1
    /\ dropped' = TRUE
    /\ UNCHANGED <<runVars, rowVars, acks, restates, task, outrun>>

-----------------------------------------------------------------------------
(* The runs.                                                               *)

SpawnSettle(t, r) == Goes(t, Started("settle", "own", r))

Ends(r, s) == state' = [state EXCEPT ![r] = s]

\* A Finish is ingested: the record, then the row, which a kill keeps from
\* taking the verdict, then the settlement is spawned, whatever became of the
\* row.
FinishRun(t, r) ==
    /\ Idle(t) /\ SpawnSettle(t, r)
    /\ \/ /\ \/ state[r] = "running" /\ \E s \in {"completed", "failed"} : Ends(r, s)
             \/ state[r] = "killed"  /\ \E s \in {"record_completed", "failed"} : Ends(r, s)
          /\ UNCHANGED limits
       \/ /\ state[r] = "running" /\ Fault("store")
          /\ \E s \in RecordOnly : Ends(r, s)
    /\ UNCHANGED <<rowVars, pullVars, history, record, repoint>>

TouchedBy(r) == {y \in Measured : y = r \/ row[y].against = r}

\* The request ends after the record is written, the row written or not: the
\* Finish that is sent again is ignored, and nobody settles the deltas.
FinishCut(r) ==
    /\ state[r] = "running" /\ Fault("cancel")
    /\ \E s \in {"completed", "failed"} \cup RecordOnly : Ends(r, s)
    /\ outrun' = outrun \cup TouchedBy(r)
    /\ UNCHANGED <<rowVars, pullVars, record, repoint, task, dropped>>

\* A kill, or the reconciler, settles the row alone and no delta: those of
\* the run and of the runs measured against it wait for a view.
Kill(r) ==
    /\ Fault("kill")
    /\ \/ state[r] = "running" /\ Ends(r, "killed")
       \/ state[r] = "record_failed" /\ Ends(r, "failed")
    /\ outrun' = outrun \cup TouchedBy(r)
    /\ UNCHANGED <<rowVars, pullVars, record, repoint, task, dropped>>

\* v1_repoint_baseline, of a finished run: the record, then the row, whose
\* word goes back to pending, then a settlement.
RepointRecord(y, to) ==
    /\ repoint.y = Nobody /\ state[y] \in {"completed", "failed"} \cup RecordOnly
    /\ to # y /\ Spend("repoints")
    /\ record' = [record EXCEPT ![y] = to]
    /\ repoint' = [y |-> y, from |-> record[y], to |-> to]
    /\ UNCHANGED <<rowVars, pullVars, history, state, task>>

\* set_run_delta_against resets the word.
RowRepointed == row' = [row EXCEPT ![repoint.y] = [against |-> repoint.to, word |-> "pending"]]

RepointRow(t) ==
    /\ repoint.y # Nobody /\ Idle(t)
    /\ RowRepointed
    /\ repoint' = NoRepoint
    /\ SpawnSettle(t, repoint.y)
    /\ UNCHANGED <<pullVars, history, state, record, cache, limits>>

\* What is left of a re-point without its settlement: the row as it was, or
\* pending.
RepointLost ==
    \/ UNCHANGED row /\ outrun' = Missed(Measured \cap {repoint.y})
    \/ repoint.y # Nobody /\ RowRepointed /\ outrun' = outrun \cup {repoint.y}

\* The caller hangs up after the record is written; or the statement fails,
\* perhaps in its answer only, and the record is put back or cannot be.
RepointFails ==
    /\ repoint.y # Nobody /\ RepointLost
    /\ \/ Fault("cancel") /\ UNCHANGED record
       \/ Fault("store") /\ record' \in {record, [record EXCEPT ![repoint.y] = repoint.from]}
    /\ repoint' = NoRepoint
    /\ UNCHANGED <<pullVars, task, state, cache, dropped>>

\* The orchestrator restarts: its tasks, its requests and the restates are
\* gone, and nothing takes them up again.
Restart ==
    /\ Fault("restart")
    /\ task' = [t \in Tasks |-> Free]
    /\ restates' = "idle" /\ owed' = 0
    /\ \/ UNCHANGED row /\ outrun' = Missed(Measured)
       \/ repoint.y # Nobody /\ RowRepointed /\ outrun' = Missed(Measured) \cup {repoint.y}
    /\ repoint' = NoRepoint
    /\ UNCHANGED <<cache, state, record, acks, dropped>>

-----------------------------------------------------------------------------
Step(t) == \/ Read(t) \/ ReadFails(t) \/ Overlay(t) \/ Record(t)
           \/ SettleOwn(t) \/ List(t) \/ NextRun(t) \/ PassesOver(t) \/ SettleEnds(t)
           \/ RestateEnds(t) \/ Insert(t) \/ ClientGone(t)

Decision == \E k \in acks : Withdraw(k) \/ \E by \in People : Confirm(k, by)

Quiet == /\ \A t \in Tasks : Idle(t)
         /\ owed = 0 /\ repoint.y = Nobody

Rest == Quiet /\ UNCHANGED vars

Next ==
    \/ \E t \in Tasks : Step(t) \/ AskRestate(t) \/ RepointRow(t)
    \/ \E t \in Tasks, y \in Measured : View(t, y) \/ Propose(t, y)
    \/ \E t \in Tasks, r \in Runs : FinishRun(t, r)
    \/ \E r \in Runs : Kill(r) \/ FinishCut(r)
    \/ \E y \in Measured, to \in Runs : RepointRecord(y, to)
    \/ RepointFails \/ Decision \/ Cancel \/ Restart \/ Rest

Spec == Init /\ [][Next]_vars

-----------------------------------------------------------------------------
(* Properties                                                              *)

\* A word that says the delta was computed is that of the pair the row names:
\* pass exactly when that pair charges nothing, whatever re-points, cached
\* documents and settlements of other pairs were under way.
WordIsOfItsPair ==
    \A y \in Measured :
        LET m == row[y].against  word == row[y].word
        IN word \in Computed =>
              /\ Between(y, m) = "there"
              /\ (word = "pass") = (ChargedShapes(Tree[m], Tree[y]) = {})

\* "acknowledged" was earned: each charged shape was confirmed, on the version
\* of the change the run ran, by somebody other than who proposed it.
AcknowledgedWasDecided ==
    \A y \in Measured : row[y].word = "acknowledged" =>
        \A shape \in ChargedShapes(Tree[row[y].against], Tree[y]) :
            \E k \in acks : /\ k.shape = shape /\ k.change = Change[y]
                            /\ k.confirmed \in People \ {k.by}

\* A run that has ended, of which record and row name one baseline and one
\* verdict.
Linked(y) == record[y] = row[y].against /\ state[y] \in {"completed", "failed", "killed"}

\* No decision and no finish is forgotten: once everything has run, the row of
\* a run that ended says something other than its delta only if a settlement, a
\* view or a proposal landed an answer already old on it, or a write, a listing,
\* a read or a whole task that would have mended it was lost.  A restatement
\* computes for the baseline the record names and a settlement lists the rows
\* that say completed: a run whose two copies came apart is not reached.
QuietRowsAreTrue ==
    Quiet /\ ~dropped =>
        \A y \in Measured \ outrun : Linked(y) => row[y].word = Truth(y)

\* A delta whose other side was still running is settled when that side
\* finishes: once all is quiet no row of two finished runs is pending.
NoneLeftPending ==
    Quiet => \A y \in Measured :
        row[y].word = "pending" => "running" \in {state[y], state[row[y].against]}
=============================================================================
