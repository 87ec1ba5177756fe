----------------------------- MODULE RunIngest ------------------------------
(***************************************************************************)
(* The push-back of one run's runner into the orchestrator (crates/        *)
(* deja-orchestrator: lifecycle/store_ctx.rs, v1_ingest_run_event and      *)
(* v1_repoint_baseline of main.rs; crates/deja-store for the statements).  *)
(* The orchestrator keeps two copies of a run: the file record, which the  *)
(* ingest handler guards, and the store's rows, which a kill and the       *)
(* reconciler settle without touching the file.                            *)
(*                                                                         *)
(* The runner sends its events one after the other, each up to Attempts    *)
(* times; a request that times out may leave a handler running behind it.  *)
(* A step is a read or write of the file or one statement of the store.    *)
(***************************************************************************)
EXTENDS Integers, Sequences, FiniteSets

CONSTANTS
    Handlers,    \* bound: requests the orchestrator handles at a time
    Stages,      \* how many stages the run goes through
    Attempts,    \* ATTEMPTS of StoreCtx::emit
    Outsiders,   \* who else settles the row: "kill", "reconcile"
    Faults,      \* "lost", "late", "cancel" requests, failing "store" and "file"
                 \* calls, "restart" of the orchestrator
    MaxFaults,   \* bound: how many of them
    MaxBaseline  \* bound: how often the run is re-pointed

ASSUME IngestAssumption ==
    /\ Stages \in Nat \ {0} /\ Attempts \in Nat \ {0}
    /\ MaxFaults \in Nat /\ MaxBaseline \in Nat
    /\ Outsiders \subseteq {"kill", "reconcile"}
    /\ Faults \subseteq {"lost", "late", "cancel", "store", "file", "restart"}
    /\ "nobody" \notin Handlers /\ "repoint" \notin Handlers

VARIABLES
    file,     \* runs/<id>.json: status, stage, baseline
    row,      \* replay_runs: state and params.delta_against
    stages,   \* run_stages, oldest first
    runner,   \* the event it is at, its attempt and the handler it waits for
    verdict,  \* what the runner comes to
    handler,  \* the ingest handlers
    outside,  \* statements each outsider still has to run
    lock,     \* who holds the `repoints' mutex
    repoint,  \* the re-point request
    faults,   \* how many more faults may happen
    torn,     \* a re-point ended on one copy of the baseline only (history)
    seen      \* what has happened so far: faults, outsiders (history)

vars == <<file, row, stages, runner, verdict, handler, outside, lock, repoint,
          faults, torn, seen>>

-----------------------------------------------------------------------------
Verdicts  == {"completed", "failed"}
Statuses  == {"active"} \cup Verdicts
File      == [status : Statuses, stage : 0 .. Stages, base : 0 .. MaxBaseline]

\* The runner's events: its stages, the recording named after the first one,
\* and Finish.
Event == [kind : {"stage"}, n : 1 .. Stages] \cup [kind : {"recording", "finish"}, n : {0}]
Events ==
    LET stage(n) == [kind |-> "stage", n |-> n]
        other(k) == [kind |-> k, n |-> 0]
    IN <<stage(1), other("recording")>>
         \o [i \in 1 .. Stages - 1 |-> stage(i + 1)] \o <<other("finish")>>

\* One statement of the store.
Statement == [do : {"close"}, as : {"ok", "failed"}]
               \cup [do : {"open"}, stage : 1 .. Stages]
               \cup [do : {"settle"}, to : Verdicts]
               \cup [do : {"recording"}]
CloseStage(s)  == [do |-> "close", as |-> s]
OpenStage(n)   == [do |-> "open", stage |-> n]
SettleRow(v)   == [do |-> "settle", to |-> v]
NameRecording  == [do |-> "recording"]

\* variants: the stage left open, and the row first
FinishRowOnly(v) == <<SettleRow(v)>>
FinishRowFirst(v) == <<SettleRow(v), CloseStage(IF v = "completed" THEN "ok" ELSE "failed")>>

\* apply_run_event for a Finish: the open stage is closed, then the row.
FinishRun(v) == <<CloseStage(IF v = "completed" THEN "ok" ELSE "failed"), SettleRow(v)>>

Apply(ev) == CASE ev.kind = "stage"     -> <<CloseStage("ok"), OpenStage(ev.n)>>
               [] ev.kind = "recording" -> <<NameRecording>>
               [] ev.kind = "finish"    -> FinishRun(verdict)

NewFile == [status |-> "active", stage |-> 0, base |-> 0]
Free    == [pc |-> "free", ev |-> Events[1], read |-> NewFile, todo |-> <<>>]

TypeOK ==
    /\ file \in File
    /\ row \in [state : Statuses, base : 0 .. MaxBaseline]
    /\ stages \in Seq([stage : 1 .. Stages, status : {"running", "ok", "failed"}])
    /\ runner \in [at : 1 .. Len(Events) + 1, tries : 0 .. Attempts,
                   waits : Handlers \cup {"nobody"}]
    /\ verdict \in Verdicts
    /\ handler \in [Handlers -> [pc : {"free", "arrived", "read", "storing"},
                                 ev : Event, read : File, todo : Seq(Statement)]]
    /\ outside \in [Outsiders -> Seq(Statement)]
    /\ lock \in Handlers \cup {"nobody", "repoint"}
    /\ repoint \in [pc : {"idle", "read", "written"}, read : File]
    /\ faults \in 0 .. MaxFaults
    /\ torn \in BOOLEAN /\ seen \subseteq Faults \cup Outsiders

Init ==
    /\ file = NewFile
    /\ row = [state |-> "active", base |-> 0]
    /\ stages = <<>>
    /\ runner = [at |-> 1, tries |-> 0, waits |-> "nobody"]
    /\ verdict \in Verdicts
    /\ handler = [h \in Handlers |-> Free]
    /\ outside = [o \in Outsiders |->
                    IF o = "kill" THEN FinishRun("failed") ELSE <<SettleRow("failed")>>]
    /\ lock = "nobody"
    /\ repoint = [pc |-> "idle", read |-> NewFile]
    /\ faults = MaxFaults /\ torn = FALSE /\ seen = {}

NoFault == UNCHANGED <<faults, seen>>
Fault(kind) == /\ kind \in Faults /\ faults > 0
               /\ faults' = faults - 1 /\ seen' = seen \cup {kind}

-----------------------------------------------------------------------------
(* The runner: StoreCtx::emit over HTTP.                                   *)

Advanced == [at |-> runner.at + 1, tries |-> 0, waits |-> "nobody"]

\* variant: one attempt too few
FailedAttemptEarly(tries) ==
    IF tries + 1 >= Attempts THEN Advanced
    ELSE [runner EXCEPT !.tries = tries, !.waits = "nobody"]

\* A failed attempt is retried after a backoff, up to Attempts of them; then
\* the event is given up and the run goes on.
FailedAttempt(tries) ==
    IF tries = Attempts THEN Advanced
    ELSE [runner EXCEPT !.tries = tries, !.waits = "nobody"]

Send(h) ==
    /\ runner.at <= Len(Events) /\ runner.waits = "nobody"
    /\ \/ /\ handler[h].pc = "free" /\ NoFault
          /\ handler' = [handler EXCEPT ![h] =
                           [Free EXCEPT !.pc = "arrived", !.ev = Events[runner.at]]]
          /\ runner' = [runner EXCEPT !.tries = @ + 1, !.waits = h]
       \/ /\ Fault("lost")
          /\ runner' = FailedAttempt(runner.tries + 1)
          /\ UNCHANGED handler
    /\ UNCHANGED <<file, row, stages, verdict, outside, lock, repoint, torn>>

\* The client gives up after its timeout: the handler goes on behind its
\* back, or is dropped where it stands, its lock with it.
TimesOut(h) ==
    /\ runner.waits = h
    /\ runner' = FailedAttempt(runner.tries)
    /\ \/ Fault("late") /\ UNCHANGED <<handler, lock>>
       \/ /\ Fault("cancel")
          /\ handler' = [handler EXCEPT ![h] = Free]
          /\ lock' = IF lock = h THEN "nobody" ELSE lock
    /\ UNCHANGED <<file, row, stages, verdict, outside, repoint, torn>>

-----------------------------------------------------------------------------
(* The ingest handler, and the statements it and others run.               *)

\* The answer, 202 whatever the store said, if anybody still waits for it.
Respond(h) ==
    /\ handler' = [handler EXCEPT ![h] = Free]
    /\ runner' = IF runner.waits = h THEN Advanced ELSE runner

\* variant: the handler does not wait for a re-point under way
MayEnterAlways(h) == TRUE

\* The mutex every change of a file record takes.
MayEnter(h) == lock = "nobody"

\* variant: only a second Finish is dropped
DroppedFinish(ev) == file.status \in Verdicts /\ ev.kind = "finish"

\* The V4 guard: after the file has a verdict, progress and verdicts are
\* acknowledged and ignored; a late recording is not.
Dropped(ev) == file.status \in Verdicts /\ ev.kind \in {"stage", "finish"}

\* A record that cannot be read is answered 404, which the runner takes for
\* final.
HandlerReads(h) ==
    /\ handler[h].pc = "arrived" /\ MayEnter(h)
    /\ \/ Dropped(handler[h].ev) /\ Respond(h) /\ NoFault /\ UNCHANGED lock
       \/ /\ ~Dropped(handler[h].ev) /\ NoFault
          /\ lock' = h
          /\ handler' = [handler EXCEPT ![h].pc = "read", ![h].read = file]
          /\ UNCHANGED runner
       \/ Fault("file") /\ Respond(h) /\ UNCHANGED lock
    /\ UNCHANGED <<file, row, stages, verdict, outside, repoint, torn>>

Mirror(f, ev) == CASE ev.kind = "stage"     -> [f EXCEPT !.stage = ev.n]
                   [] ev.kind = "recording" -> f
                   [] ev.kind = "finish"    -> [f EXCEPT !.status = verdict]

\* The lock is released before the store is written.  A record that cannot be
\* written is answered 500, for the runner to try again.
HandlerWrites(h) ==
    /\ handler[h].pc = "read"
    /\ \/ /\ NoFault
          /\ file' = Mirror(handler[h].read, handler[h].ev)
          /\ handler' = [handler EXCEPT ![h] =
                          [Free EXCEPT !.pc = "storing", !.todo = Apply(handler[h].ev)]]
          /\ UNCHANGED runner
       \/ /\ Fault("file") /\ UNCHANGED file
          /\ handler' = [handler EXCEPT ![h] = Free]
          /\ runner' = IF runner.waits = h THEN FailedAttempt(runner.tries) ELSE runner
    /\ lock' = "nobody"
    /\ UNCHANGED <<row, stages, verdict, outside, repoint, torn>>

\* stage_transition has no guard: it closes what runs and opens the next.
Closed(status) == [i \in DOMAIN stages |->
    IF stages[i].status = "running" THEN [stages[i] EXCEPT !.status = status]
    ELSE stages[i]]

Execute(s) ==
    /\ stages' = CASE s.do = "close" -> Closed(s.as)
                   [] s.do = "open"  -> Append(stages, [stage |-> s.stage,
                                                        status |-> "running"])
                   [] OTHER          -> stages
    /\ row' = IF s.do = "settle" /\ row.state = "active"
                THEN [row EXCEPT !.state = s.to] ELSE row

\* An error ends the event: it is logged, and the rest is not run.  An error may
\* be the loss of the answer only, the statement having taken effect.
HandlerStores(h) ==
    /\ handler[h].pc = "storing"
    /\ \/ /\ Execute(Head(handler[h].todo)) /\ NoFault
          /\ IF Len(handler[h].todo) = 1 THEN Respond(h)
             ELSE /\ handler' = [handler EXCEPT ![h].todo = Tail(@)]
                  /\ UNCHANGED runner
       \/ /\ Fault("store") /\ Respond(h)
          /\ Execute(Head(handler[h].todo)) \/ UNCHANGED <<stages, row>>
    /\ UNCHANGED <<file, verdict, outside, lock, repoint, torn>>

\* v1_kill_run and the reconciler settle the store's copy only.
Outside(o) ==
    /\ outside[o] # <<>>
    /\ Execute(Head(outside[o]))
    /\ outside' = [outside EXCEPT ![o] = Tail(@)]
    /\ seen' = seen \cup {o}
    /\ UNCHANGED <<file, runner, verdict, handler, lock, repoint, faults, torn>>

-----------------------------------------------------------------------------
(* v1_repoint_baseline: a finished run is measured against another one; the*)
(* file first, then the row, under the mutex throughout.  Torn records that *)
(* the two copies came apart; nothing but a later re-point mends them.      *)

RepointReads ==
    /\ repoint.pc = "idle" /\ lock = "nobody"
    /\ file.status \in Verdicts /\ file.base < MaxBaseline
    /\ lock' = "repoint"
    /\ repoint' = [pc |-> "read", read |-> file]
    /\ UNCHANGED <<file, row, stages, runner, verdict, handler, outside, faults, torn,
                   seen>>

RepointWrites ==
    /\ repoint.pc = "read"
    /\ file' = [repoint.read EXCEPT !.base = @ + 1]
    /\ repoint' = [repoint EXCEPT !.pc = "written"]
    /\ UNCHANGED <<row, stages, runner, verdict, handler, outside, lock, faults, torn,
                   seen>>

RepointEnds ==
    /\ lock' = "nobody"
    /\ repoint' = [pc |-> "idle", read |-> NewFile]
    /\ UNCHANGED <<stages, runner, verdict, handler, outside>>

RowRepointed == row' = [row EXCEPT !.base = file.base]

\* The file is re-pointed and nothing puts it back: the row has taken the
\* change too, or it never will.
LeftWithTheFile ==
    \/ RowRepointed /\ torn' = FALSE
    \/ torn' = TRUE /\ UNCHANGED row

\* The row took the change and said so.
RepointStores ==
    /\ repoint.pc = "written"
    /\ RowRepointed /\ NoFault
    /\ torn' = FALSE
    /\ UNCHANGED file
    /\ RepointEnds

\* A row that will not take the change puts the file back.  Its error may be
\* the loss of the answer only: then the file is put back beside a row that
\* has taken the change.
RepointRefused ==
    /\ repoint.pc = "written"
    /\ Fault("store")
    /\ file' = repoint.read
    /\ \/ RowRepointed /\ torn' = TRUE
       \/ UNCHANGED <<row, torn>>
    /\ RepointEnds

\* The file could not be put back, whether the row has taken the change or not.
RepointStuck ==
    /\ repoint.pc = "written"
    /\ {"store", "file"} \subseteq Faults /\ faults > 1
    /\ faults' = faults - 2 /\ seen' = seen \cup {"store", "file"}
    /\ LeftWithTheFile
    /\ UNCHANGED file
    /\ RepointEnds

\* The caller hangs up and the request ends where it awaits the store: before
\* the record was written, or between the record and the row, when the
\* statement may still run.  Failing to write the record ends it too.
RepointCut ==
    /\ \/ /\ repoint.pc = "read" /\ (Fault("cancel") \/ Fault("file"))
          /\ UNCHANGED <<row, torn>>
       \/ repoint.pc = "written" /\ Fault("cancel") /\ LeftWithTheFile
    /\ UNCHANGED file
    /\ RepointEnds

-----------------------------------------------------------------------------
\* The orchestrator stops and starts again: requests, a kill under way and the
\* mutex are gone, the file and the rows stay, the runner finds its request
\* failed.
Restarts ==
    /\ Fault("restart")
    /\ handler' = [h \in Handlers |-> Free]
    /\ outside' = [o \in Outsiders |-> IF o \in seen THEN <<>> ELSE outside[o]]
    /\ runner' = IF runner.waits = "nobody" THEN runner ELSE FailedAttempt(runner.tries)
    /\ lock' = "nobody"
    /\ repoint' = [pc |-> "idle", read |-> NewFile]
    /\ IF repoint.pc = "written" THEN LeftWithTheFile ELSE UNCHANGED <<row, torn>>
    /\ UNCHANGED <<file, stages, verdict>>

-----------------------------------------------------------------------------
\* Nothing is under way; an outsider may be yet to come.
Settled ==
    /\ runner.at > Len(Events)
    /\ \A h \in Handlers : handler[h].pc = "free"
    /\ \A o \in Outsiders : outside[o] = <<>> \/ o \notin seen
    /\ repoint.pc = "idle"

Done == Settled /\ UNCHANGED vars

Next ==
    \/ \E h \in Handlers : \/ Send(h) \/ TimesOut(h) \/ HandlerReads(h)
                           \/ HandlerWrites(h) \/ HandlerStores(h)
    \/ \E o \in Outsiders : Outside(o)
    \/ RepointReads \/ RepointWrites \/ RepointStores
    \/ RepointRefused \/ RepointStuck \/ RepointCut
    \/ Restarts
    \/ Done

Spec == Init /\ [][Next]_vars

-----------------------------------------------------------------------------
(* Properties                                                              *)

\* No event was given up, and nothing but lost requests befell the pushes.
PushedThrough(besides) ==
    seen \subseteq {"lost"} \cup besides /\ MaxFaults - faults < Attempts

\* Unless a request ran on behind its time-out or a statement failed, the
\* stages the store records are the ones the runner went through, once each
\* and in its order, whoever else settles the run.
StagesOnce == PushedThrough(Outsiders) => \A i \in DOMAIN stages : stages[i].stage = i

\* When the run is over and its pushes were at worst lost and retried, the
\* file, the row and the runner agree, and every stage is there and closed.
CopiesAgree ==
    Settled /\ PushedThrough({}) =>
               /\ file.status = verdict /\ row.state = verdict
               /\ Len(stages) = Stages /\ file.stage = Stages
               /\ \A i \in DOMAIN stages : stages[i].status # "running"

\* A row that the runner's own pushes settled shows no running stage.
SettledRunHasNoOpenStage ==
    PushedThrough({}) /\ row.state \in Verdicts => \A i \in DOMAIN stages : stages[i].status # "running"

\* Once the file has a verdict nothing the runner sends, however late or
\* often, changes its verdict or its stage.
FileVerdictIsFinal ==
    [][file.status \in Verdicts =>
         file'.status = file.status /\ file'.stage = file.stage]_file

\* set_run_delta_against, v1_ingest_run_event: outside a re-point the file and
\* the row name the same baseline, whatever the runner sends late, twice or in
\* part, unless a re-point was itself cut short between the two; one that goes
\* through makes them agree again.
BaselinesAgree == lock # "repoint" /\ ~torn => file.base = row.base
=============================================================================
