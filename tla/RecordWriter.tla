---------------------------- MODULE RecordWriter ----------------------------
(***************************************************************************)
(* The asynchronous record writer of deja-runtime (src/crates/deja-runtime *)
(* /src/writer.rs).  Request threads (Clients) hand records to one worker  *)
(* thread over a bounded channel; the worker batches them, writes them to  *)
(* a sink, flushes the sink and threads loss-accounting markers through    *)
(* it.  The owner shuts the writer down by dropping it.                    *)
(*                                                                         *)
(* A step is one atomic operation on shared state: a channel operation, a  *)
(* load or store of the `active' flag, a lock of the drop ledger, one call *)
(* of the sink.  The health counters are taken more coarsely: the adds and *)
(* subtracts of queued, attempted, inactive and dropped that one thread    *)
(* makes next to such an operation belong to its step, so no state between *)
(* two of them is seen.  Counters nobody reads back are left out.          *)
(***************************************************************************)
EXTENDS Integers, Sequences, FiniteSets

CONSTANTS
    Clients,        \* the threads that record and flush
    Streams,        \* sequence spaces sharing the writer (events, graph nodes)
    MaxSeq,         \* bound: sequence numbers issued in each stream
    QueueCapacity,  \* WriterConfig.queue_capacity
    BatchSize,      \* WriterConfig.batch_size
    FlushAfter,     \* WriterConfig.flush_after_records, 0 standing for None
    Policy,         \* WriterConfig.policy
    FatalErrors,    \* FATAL_CONSECUTIVE_SINK_ERRORS
    Faults,         \* which calls of the sink may fail
    Nobody          \* the address of a reply nobody waits for

ASSUME WriterAssumption ==
    /\ Nobody \notin Clients
    /\ MaxSeq \in Nat
    /\ QueueCapacity \in Nat \ {0}
    /\ BatchSize \in Nat \ {0}
    /\ FlushAfter \in Nat
    /\ Policy \in {"Block", "FailOpen"}
    /\ FatalErrors \in Nat \ {0}
    /\ Faults \subseteq {"write", "flush", "marker"}

VARIABLES
    queue,       \* the bounded channel, oldest message first
    receiver,    \* TRUE while the worker holds the receiving end
    active,      \* AsyncRecordWriter.active
    pc,          \* what each client is doing
    rec,         \* the record each client holds
    reply,       \* the answer waiting for each client that flushes
    owner,       \* the thread that drops the writer
    wpc,         \* where the worker is
    job,         \* the message, timeout or exit the worker is handling
    wrote,       \* outcome of the write_batch of this job
    batch,       \* WorkerCtx batch
    errors,      \* WorkerCtx.consecutive_errors
    sinceFlush,  \* WorkerCtx.records_since_flush
    ledger,      \* DropLedger.ranges
    stats,       \* WriterStats
    next,        \* next sequence number of each stream
    sink,        \* records the sink took, in order
    durable,     \* how many of them a sink flush has covered
    claimed,     \* ranges that `dropped' markers put on the wire
    eof,         \* an `eof' marker is on the wire
    failed,      \* history: the batches the sink refused
    forgone,     \* history: the ranges in `dropped' markers the sink refused
    dropped      \* history: the records that stats.dropped counts

clientVars == <<pc, rec, next>>
workerVars == <<wpc, job, wrote, batch, errors, sinceFlush>>
sinkVars   == <<sink, durable, claimed, eof, failed, forgone>>
vars == <<queue, receiver, active, clientVars, reply, owner, workerVars,
          ledger, stats, sinkVars, dropped>>

-----------------------------------------------------------------------------
(* Data *)

Seqs   == 0 .. (MaxSeq - 1)
Record == [stream : Streams, seq : Seqs, by : Clients]
ASSUME NobodyIsNoRecord == Nobody \notin Record
Range2 == Seqs \X Seqs                  \* an inclusive range (from, to)

Message ==
    [kind : {"record"}, rec : Record]
      \cup [kind : {"flush"}, to : Clients \cup {Nobody}]
      \cup [kind : {"shutdown"}]

RecordMsg(r) == [kind |-> "record", rec |-> r]
FlushMsg(to) == [kind |-> "flush", to |-> to]
ShutdownMsg  == [kind |-> "shutdown"]

Elements(s) == {s[i] : i \in DOMAIN s}

Room == Len(queue) < QueueCapacity

Job(kind) == [kind |-> kind, to |-> Nobody]
NoJob     == Job("none")

Flags == receiver \in BOOLEAN /\ active \in BOOLEAN /\ eof \in BOOLEAN

ChannelTypes ==
    /\ queue \in Seq(Message) /\ Len(queue) <= QueueCapacity
    /\ reply \in [Clients -> {"none", "ok", "err"}]
    /\ owner \in {"serving", "closing", "awaiting", "answered", "closed", "gave up"}

ClientTypes ==
    /\ pc \in [Clients -> {"idle", "holding", "sending", "blocked",
                           "dropping", "flushing", "awaiting"}]
    /\ rec \in [Clients -> Record \cup {Nobody}]
    /\ \A c \in Clients : pc[c] \in {"holding", "sending", "blocked", "dropping"}
                              => rec[c] \in Record
    /\ next \in [Streams -> 0 .. MaxSeq]

WorkerTypes ==
    /\ wpc \in {"receive", "write", "flush", "drain", "done"}
    /\ job \in [kind : {"none", "record", "timeout", "flush", "shutdown", "final"},
                to : Clients \cup {Nobody}]
    /\ wrote \in {"ok", "transient", "fatal"}
    /\ batch \in Seq(Record)
    /\ errors \in Nat /\ sinceFlush \in Nat

WriterStats == [attempted : Nat, inactive : Nat, queued : Int, written : Nat,
                dropped : Nat]

LossTypes ==
    /\ ledger \in Seq(Range2)
    /\ stats \in WriterStats
    /\ dropped \subseteq Record

SinkTypes ==
    /\ sink \in Seq(Record) /\ durable \in Nat
    /\ claimed \subseteq Range2 /\ forgone \subseteq Range2
    /\ failed \subseteq SUBSET Record

TypeOK ==
    Flags /\ ChannelTypes /\ ClientTypes /\ WorkerTypes /\ LossTypes /\ SinkTypes

(* with_seq_of: the writer starts empty; if the worker thread cannot be    *)
(* spawned the closure, and the receiver in it, are dropped.               *)
Init ==
    /\ \E spawned \in BOOLEAN :
         /\ receiver = spawned
         /\ active = spawned
         /\ wpc = IF spawned THEN "receive" ELSE "done"
    /\ queue = <<>> /\ batch = <<>> /\ ledger = <<>> /\ sink = <<>>
    /\ pc = [c \in Clients |-> "idle"]
    /\ rec = [c \in Clients |-> Nobody]
    /\ reply = [c \in Clients |-> "none"]
    /\ owner = "serving"
    /\ job = NoJob /\ wrote = "ok"
    /\ errors = 0 /\ sinceFlush = 0 /\ durable = 0
    /\ stats = [attempted |-> 0, inactive |-> 0, queued |-> 0,
                written |-> 0, dropped |-> 0]
    /\ next = [s \in Streams |-> 0]
    /\ claimed = {} /\ failed = {} /\ forgone = {} /\ dropped = {} /\ eof = FALSE

-----------------------------------------------------------------------------
(* Clients: record().  A caller first draws the record's number from its   *)
(* stream's counter and only later hands the record to the writer.         *)

DrawSequence(c, s) ==
    /\ owner = "serving" /\ pc[c] = "idle"
    /\ next[s] < MaxSeq
    /\ rec' = [rec EXCEPT ![c] = [stream |-> s, seq |-> next[s], by |-> c]]
    /\ next' = [next EXCEPT ![s] = @ + 1]
    /\ pc' = [pc EXCEPT ![c] = "holding"]
    /\ UNCHANGED <<queue, receiver, active, reply, owner, workerVars, ledger,
                   stats, sinkVars, dropped>>

\* The is_active gate, then attempted_records and queued_records go up.
RecordGate(c) ==
    /\ pc[c] = "holding"
    /\ IF active
         THEN /\ stats' = [stats EXCEPT !.attempted = @ + 1, !.queued = @ + 1]
              /\ pc' = [pc EXCEPT ![c] = "sending"]
              /\ rec' = rec
         ELSE /\ stats' = [stats EXCEPT !.inactive = @ + 1]
              /\ pc' = [pc EXCEPT ![c] = "idle"]
              /\ rec' = [rec EXCEPT ![c] = Nobody]
    /\ UNCHANGED <<queue, receiver, active, reply, owner, workerVars, ledger,
                   next, sinkVars, dropped>>

\* The channel took the record: record() returns true.
Enqueue(c) ==
    /\ receiver /\ Room
    /\ queue' = Append(queue, RecordMsg(rec[c]))
    /\ pc' = [pc EXCEPT ![c] = "idle"]
    /\ rec' = [rec EXCEPT ![c] = Nobody]
    /\ UNCHANGED <<active, stats, dropped>>

\* The receiver is gone: disable_after_error, record() returns false.
FindDisconnected(c) ==
    /\ ~receiver
    /\ active' = FALSE
    /\ stats' = [stats EXCEPT !.queued = @ - 1]
    /\ pc' = [pc EXCEPT ![c] = "idle"]
    /\ rec' = [rec EXCEPT ![c] = Nobody]
    /\ UNCHANGED <<queue, dropped>>

\* Variant: the drop is counted and the record still counts as queued.
FindFullStillQueued(c) ==
    /\ receiver /\ ~Room
    /\ \/ Policy = "Block" /\ pc' = [pc EXCEPT ![c] = "blocked"]
                          /\ UNCHANGED <<stats, dropped>>
       \/ Policy = "FailOpen" /\ pc' = [pc EXCEPT ![c] = "dropping"]
                             /\ stats' = [stats EXCEPT !.dropped = @ + 1]
                             /\ dropped' = dropped \cup {rec[c]}
    /\ UNCHANGED <<queue, active, rec>>

\* The channel is full: wait for room, or count the drop.
FindFull(c) ==
    /\ receiver /\ ~Room
    /\ \/ /\ Policy = "Block"
          /\ pc' = [pc EXCEPT ![c] = "blocked"]
          /\ UNCHANGED <<stats, dropped>>
       \/ /\ Policy = "FailOpen"
          /\ pc' = [pc EXCEPT ![c] = "dropping"]
          /\ stats' = [stats EXCEPT !.queued = @ - 1, !.dropped = @ + 1]
          /\ dropped' = dropped \cup {rec[c]}
    /\ UNCHANGED <<queue, active, rec>>

\* try_send
TrySend(c) ==
    /\ pc[c] = "sending"
    /\ Enqueue(c) \/ FindDisconnected(c) \/ FindFull(c)
    /\ UNCHANGED <<receiver, reply, owner, workerVars, ledger, next, sinkVars>>

\* Variant: a sender waiting for room does not notice that the worker died.
BlockedSendDeaf(c) ==
    /\ pc[c] = "blocked" /\ Enqueue(c)
    /\ UNCHANGED <<receiver, reply, owner, workerVars, ledger, next, sinkVars>>

\* The blocking send of SinkPolicy::Block.
BlockedSend(c) ==
    /\ pc[c] = "blocked"
    /\ Enqueue(c) \/ FindDisconnected(c)
    /\ UNCHANGED <<receiver, reply, owner, workerVars, ledger, next, sinkVars>>

\* Variant: forget the earlier ranges.
PushForgets(l, seq) == <<<<seq, seq>>>>

\* DropLedger::push: extend the newest range, or open one.
Push(l, seq) ==
    IF l # <<>> /\ l[Len(l)][2] + 1 = seq
      THEN [l EXCEPT ![Len(l)] = <<@[1], seq>>]
      ELSE Append(l, <<seq, seq>>)

LedgerPush(c) ==
    /\ pc[c] = "dropping"
    /\ ledger' = Push(ledger, rec[c].seq)
    /\ pc' = [pc EXCEPT ![c] = "idle"]
    /\ rec' = [rec EXCEPT ![c] = Nobody]
    /\ UNCHANGED <<queue, receiver, active, reply, owner, workerVars, stats,
                   next, sinkVars, dropped>>

-----------------------------------------------------------------------------
(* Clients: flush() and request_flush().                                   *)

\* flush() past its is_active gate; on an inactive writer it returns Ok.
BeginFlush(c) ==
    /\ owner = "serving" /\ pc[c] = "idle"
    /\ active
    /\ pc' = [pc EXCEPT ![c] = "flushing"]
    /\ UNCHANGED <<queue, receiver, active, rec, next, reply, owner, workerVars,
                   ledger, stats, sinkVars, dropped>>

\* The blocking send of the Flush message; a dead channel is an error.
SendFlush(c) ==
    /\ pc[c] = "flushing"
    /\ \/ /\ receiver /\ Room
          /\ queue' = Append(queue, FlushMsg(c))
          /\ pc' = [pc EXCEPT ![c] = "awaiting"]
       \/ /\ ~receiver
          /\ pc' = [pc EXCEPT ![c] = "idle"]
          /\ UNCHANGED queue
    /\ UNCHANGED <<receiver, active, rec, next, reply, owner, workerVars,
                   ledger, stats, sinkVars, dropped>>

FlushReturns(c) ==
    /\ pc[c] = "awaiting" /\ reply[c] # "none"
    /\ pc' = [pc EXCEPT ![c] = "idle"]
    /\ reply' = [reply EXCEPT ![c] = "none"]
    /\ UNCHANGED <<queue, receiver, active, rec, next, owner, workerVars,
                   ledger, stats, sinkVars, dropped>>

\* recv_timeout gave up: the reply address in a queued or running flush dies.
FlushTimesOut(c) ==
    /\ pc[c] = "awaiting" /\ reply[c] = "none"
    /\ pc' = [pc EXCEPT ![c] = "idle"]
    /\ queue' = [i \in DOMAIN queue |->
                   IF queue[i] = FlushMsg(c) THEN FlushMsg(Nobody) ELSE queue[i]]
    /\ job' = IF job.to = c THEN [job EXCEPT !.to = Nobody] ELSE job
    /\ UNCHANGED <<receiver, active, rec, next, reply, owner, wpc, wrote, batch,
                   errors, sinceFlush, ledger, stats, sinkVars, dropped>>

\* request_flush: a try_send whose reply nobody reads; a full queue drops it.
RequestFlush(c) ==
    /\ owner = "serving" /\ pc[c] = "idle"
    /\ active /\ receiver /\ Room
    /\ queue' = Append(queue, FlushMsg(Nobody))
    /\ UNCHANGED <<receiver, active, clientVars, reply, owner, workerVars,
                   ledger, stats, sinkVars, dropped>>

-----------------------------------------------------------------------------
(* The owner: Drop.  Dropping needs the last reference, so no client is    *)
(* inside a call when it starts and none makes one afterwards.             *)

BeginDrop ==
    /\ owner = "serving"
    /\ \A c \in Clients : pc[c] = "idle"
    /\ owner' = "closing"
    /\ UNCHANGED <<queue, receiver, active, clientVars, reply, workerVars,
                   ledger, stats, sinkVars, dropped>>

\* Variant: Drop does not notice that the worker died.
SendShutdownDeaf ==
    /\ owner = "closing" /\ receiver /\ Room
    /\ queue' = Append(queue, ShutdownMsg)
    /\ owner' = "awaiting"
    /\ UNCHANGED <<receiver, active, clientVars, reply, workerVars, ledger,
                   stats, sinkVars, dropped>>

\* The blocking send of Shutdown; on a dead channel the reply side is gone too.
SendShutdown ==
    /\ owner = "closing"
    /\ \/ /\ receiver /\ Room
          /\ queue' = Append(queue, ShutdownMsg)
          /\ owner' = "awaiting"
       \/ /\ ~receiver
          /\ owner' = "gave up"
          /\ UNCHANGED queue
    /\ UNCHANGED <<receiver, active, clientVars, reply, workerVars, ledger,
                   stats, sinkVars, dropped>>

\* The reply arrived: join the worker.
Join ==
    /\ owner = "answered" /\ wpc = "done"
    /\ owner' = "closed"
    /\ UNCHANGED <<queue, receiver, active, clientVars, reply, workerVars,
                   ledger, stats, sinkVars, dropped>>

ShutdownTimesOut ==
    /\ owner = "awaiting"
    /\ owner' = "gave up"
    /\ UNCHANGED <<queue, receiver, active, clientVars, reply, workerVars,
                   ledger, stats, sinkVars, dropped>>

-----------------------------------------------------------------------------
(* The worker: writer_loop.                                                *)

FlushDue(n) == FlushAfter > 0 /\ n >= FlushAfter     \* should_flush_after_records

\* Where the worker goes once it has taken message m.
Receive ==
    /\ wpc = "receive" /\ queue # <<>>
    /\ queue' = Tail(queue)
    /\ LET m == Head(queue) IN
       \/ /\ m.kind = "record"
          /\ stats' = [stats EXCEPT !.queued = @ - 1]
          /\ batch' = Append(batch, m.rec)
          /\ job' = Job("record")
          /\ wpc' = IF Len(batch') >= BatchSize THEN "write"
                    ELSE IF FlushDue(sinceFlush) THEN "flush" ELSE "receive"
       \/ /\ m.kind = "flush"
          /\ job' = [kind |-> "flush", to |-> m.to]
          /\ wpc' = "write"
          /\ UNCHANGED <<stats, batch>>
       \/ /\ m.kind = "shutdown"
          /\ job' = Job("shutdown")
          /\ wpc' = "write"
          /\ UNCHANGED <<stats, batch>>
    /\ wrote' = "ok"
    /\ UNCHANGED <<receiver, active, clientVars, reply, owner, errors,
                   sinceFlush, ledger, sinkVars, dropped>>

\* Only a buffered batch makes the worker wait with a timeout.  Variant: only
\* records written since the last flush do.
TimerArmedByWrites == batch # <<>> /\ sinceFlush > 0
TimerArmed == batch # <<>>

\* recv_timeout ran out.
FlushInterval ==
    /\ wpc = "receive" /\ TimerArmed
    /\ job' = Job("timeout")
    /\ wpc' = "write"
    /\ wrote' = "ok"
    /\ UNCHANGED <<queue, receiver, active, clientVars, reply, owner, batch,
                   errors, sinceFlush, ledger, stats, sinkVars, dropped>>

\* WorkerCtx::sink_failed: the outcome of a failure, which may disable the writer.
Failure == IF errors + 1 >= FatalErrors THEN "fatal" ELSE "transient"

SinkFailed ==
    /\ errors' = errors + 1
    /\ active' = (active /\ Failure # "fatal")

\* Variant: every failed batch is taken for the end of the sink.
AfterWriteGivesUp(outcome) ==
    IF job.kind \in {"flush", "shutdown", "final"} THEN "flush"
    ELSE IF outcome # "ok" THEN "drain"
    ELSE IF job.kind = "timeout" \/ FlushDue(sinceFlush') THEN "flush"
    ELSE "receive"

\* What follows write_batch: the jobs that reply go on to flush whatever the
\* outcome, the others stop at a fatal one.
AfterWrite(outcome) ==
    IF job.kind \in {"flush", "shutdown", "final"} THEN "flush"
    ELSE IF outcome = "fatal" THEN "drain"
    ELSE IF job.kind = "timeout" \/ FlushDue(sinceFlush') THEN "flush"
    ELSE "receive"

\* write_batch over an empty batch is Ok and touches nothing.
SkipWrite ==
    /\ wpc = "write" /\ batch = <<>>
    /\ wpc' = AfterWrite("ok")
    /\ UNCHANGED <<queue, receiver, active, clientVars, reply, owner, job, wrote,
                   batch, errors, sinceFlush, ledger, stats, sinkVars, dropped>>

\* Variant: the batch is not cleared.
WriteBatchOkKeepsBatch ==
    /\ wpc = "write" /\ batch # <<>>
    /\ sink' = sink \o batch
    /\ stats' = [stats EXCEPT !.written = @ + Len(batch)]
    /\ sinceFlush' = sinceFlush + Len(batch)
    /\ errors' = 0
    /\ wpc' = AfterWrite("ok")
    /\ UNCHANGED <<queue, receiver, active, clientVars, reply, owner, job, wrote,
                   batch, ledger, durable, claimed, eof, failed, forgone, dropped>>

WriteBatchOk ==
    /\ wpc = "write" /\ batch # <<>>
    /\ sink' = sink \o batch
    /\ stats' = [stats EXCEPT !.written = @ + Len(batch)]
    /\ sinceFlush' = sinceFlush + Len(batch)
    /\ errors' = 0
    /\ batch' = <<>>
    /\ wpc' = AfterWrite("ok")
    /\ UNCHANGED <<queue, receiver, active, clientVars, reply, owner, job, wrote,
                   ledger, durable, claimed, eof, failed, forgone, dropped>>

\* From the first record of the batch to the last; variant: to one past it.
BatchRangePastEnd == <<batch[1].seq, batch[1].seq + Len(batch)>>
BatchRange == <<batch[1].seq, batch[Len(batch)].seq>>

WriteBatchFails ==
    /\ wpc = "write" /\ batch # <<>>
    /\ "write" \in Faults
    /\ stats' = [stats EXCEPT !.dropped = @ + Len(batch)]
    /\ dropped' = dropped \cup Elements(batch)
    /\ failed' = failed \cup {Elements(batch)}
    /\ ledger' = Append(ledger, BatchRange)
    /\ batch' = <<>>
    /\ SinkFailed
    /\ wrote' = Failure
    /\ sinceFlush' = sinceFlush
    /\ wpc' = AfterWrite(Failure)
    /\ UNCHANGED <<queue, receiver, clientVars, reply, owner, job, sink, durable,
                   claimed, eof, forgone>>

\* The answer to a Flush, and whether this job was the sink's last.  Variant:
\* the flush is not looked at.
AnswerOfWrite(outcome) == IF wrote = "ok" THEN "ok" ELSE "err"
Answer(outcome) == IF wrote = "ok" /\ outcome = "ok" THEN "ok" ELSE "err"
Fatal(outcome) == "fatal" \in {wrote, outcome}

\* What follows flush_sink: reply, write the eof marker, leave the loop.
\* Returning from the thread drops the receiver and every message in it.
AfterFlush(outcome) ==
    \/ /\ job.kind \in {"record", "timeout"}
       /\ wpc' = IF outcome = "fatal" THEN "drain" ELSE "receive"
       /\ UNCHANGED <<reply, owner, eof, receiver, queue>>
    \/ /\ job.kind = "flush"
       /\ reply' = [c \in Clients |->
                      IF c = job.to THEN Answer(outcome) ELSE reply[c]]
       /\ wpc' = IF Fatal(outcome) THEN "drain" ELSE "receive"
       /\ UNCHANGED <<owner, eof, receiver, queue>>
    \/ /\ job.kind \in {"shutdown", "final"}
       /\ eof' \in {TRUE} \cup {eof : f \in Faults \cap {"marker"}}
       /\ owner' = IF job.kind = "shutdown" /\ owner = "awaiting"
                     THEN "answered" ELSE owner
       /\ wpc' = "done"
       /\ receiver' = FALSE
       /\ queue' = <<>>
       /\ UNCHANGED reply

\* What a `dropped' marker adds to the wire.  Variant: the newest range only.
ClaimNewest == claimed \cup (IF ledger = <<>> THEN {} ELSE {ledger[Len(ledger)]})
Claim == claimed \cup Elements(ledger)

\* flush_sink on success also moves the drop ledger into a `dropped' marker; a
\* marker the sink refuses takes the ranges with it.
FlushSinkOk ==
    /\ wpc = "flush"
    /\ durable' = Len(sink)
    /\ sinceFlush' = 0
    /\ \/ claimed' = Claim /\ forgone' = forgone
       \/ /\ "marker" \in Faults
          /\ claimed' = claimed /\ forgone' = forgone \cup Elements(ledger)
    /\ ledger' = <<>>
    /\ AfterFlush("ok")
    /\ job' = NoJob
    /\ UNCHANGED <<active, clientVars, wrote, batch, errors, stats, sink, failed,
                   dropped>>

FlushSinkFails ==
    /\ wpc = "flush"
    /\ "flush" \in Faults
    /\ SinkFailed
    /\ AfterFlush(Failure)
    /\ job' = NoJob
    /\ UNCHANGED <<clientVars, wrote, batch, sinceFlush, ledger, stats, sink,
                   durable, claimed, failed, forgone, dropped>>

\* drain_after_sink_failure: one try_recv.
Drain ==
    /\ wpc = "drain" /\ queue # <<>>
    /\ queue' = Tail(queue)
    /\ LET m == Head(queue) IN
       \/ /\ m.kind = "record"
          /\ stats' = [stats EXCEPT !.queued = @ - 1, !.inactive = @ + 1]
          /\ UNCHANGED <<reply, owner>>
       \/ /\ m.kind = "flush"
          /\ reply' = [c \in Clients |-> IF c = m.to THEN "ok" ELSE reply[c]]
          /\ UNCHANGED <<stats, owner>>
       \/ /\ m.kind = "shutdown"
          /\ owner' = IF owner = "awaiting" THEN "answered" ELSE owner
          /\ UNCHANGED <<stats, reply>>
    /\ UNCHANGED <<receiver, active, clientVars, workerVars, ledger, sinkVars,
                   dropped>>

\* The queue looked empty: fall out of the loop to the final write and flush.
DrainEnds ==
    /\ wpc = "drain" /\ queue = <<>>
    /\ wpc' = "write"
    /\ job' = Job("final")
    /\ wrote' = "ok"
    /\ UNCHANGED <<queue, receiver, active, clientVars, reply, owner, batch,
                   errors, sinceFlush, ledger, stats, sinkVars, dropped>>

-----------------------------------------------------------------------------

Client(c) ==
    \/ \E s \in Streams : DrawSequence(c, s)
    \/ RecordGate(c) \/ TrySend(c) \/ BlockedSend(c) \/ LedgerPush(c)
    \/ BeginFlush(c) \/ SendFlush(c) \/ FlushReturns(c) \/ FlushTimesOut(c)
    \/ RequestFlush(c)

Owner == BeginDrop \/ SendShutdown \/ Join \/ ShutdownTimesOut

Worker ==
    \/ Receive \/ FlushInterval
    \/ SkipWrite \/ WriteBatchOk \/ WriteBatchFails
    \/ FlushSinkOk \/ FlushSinkFails
    \/ Drain \/ DrainEnds

\* The writer is gone and so is its thread: nothing is left to happen.
Finished ==
    /\ owner \in {"closed", "gave up"} /\ wpc = "done"
    /\ UNCHANGED vars

Next == (\E c \in Clients : Client(c)) \/ Owner \/ Worker \/ Finished

Spec == Init /\ [][Next]_vars

(***************************************************************************)
(* Fairness.  Threads the operating system schedules keep running, the     *)
(* sink's calls return, timers fire.  std's bounded channel wakes blocked  *)
(* senders in the order they queued, so a sender that finds room again and *)
(* again is not passed over for ever: strong fairness for the two blocking *)
(* sends.  Nothing obliges a client to record, to flush or to drop.        *)
(***************************************************************************)
Fairness ==
    /\ WF_vars(Worker)
    /\ \A c \in Clients :
         /\ WF_vars(RecordGate(c)) /\ WF_vars(TrySend(c)) /\ WF_vars(LedgerPush(c))
         /\ SF_vars(BlockedSend(c)) /\ SF_vars(SendFlush(c))
         /\ WF_vars(FlushReturns(c) \/ FlushTimesOut(c))
    /\ WF_vars(SendShutdown) /\ WF_vars(Join \/ ShutdownTimesOut)

FairSpec == Spec /\ Fairness

-----------------------------------------------------------------------------
(* Properties                                                              *)

Queued == {queue[i].rec : i \in {j \in DOMAIN queue : queue[j].kind = "record"}}
InHand == {rec[c] : c \in {d \in Clients : rec[d] # Nobody}}

\* The health counters account for every attempted record once: while the
\* writer is active it is queued, batched, written or dropped, and after the
\* writer died no counter ever claims more records than were attempted.
StatsBalance ==
    LET placed == stats.queued + Len(batch) + stats.written + stats.dropped IN
    /\ stats.written = Len(sink)
    /\ placed <= stats.attempted
    /\ active => placed = stats.attempted

\* record(), write_batch: as long as the writer is active, every number drawn
\* is still in a caller's hand, queued, batched, at the sink, or counted as
\* dropped; a live writer loses nothing without saying so.
NothingVanishes ==
    active => \A s \in Streams, n \in Seqs :
      n < next[s] => \E r \in InHand \cup Queued \cup Elements(batch)
                              \cup Elements(sink) \cup dropped :
                        r.stream = s /\ r.seq = n

\* flush(): when a live writer answers Ok, every record that caller handed over
\* before is either covered by a sink flush or counted as dropped; none is
\* still on its way.
FlushOkMeansSettled ==
    \A c \in Clients : active /\ reply[c] = "ok" =>
      /\ \A r \in Queued \cup Elements(batch) : r.by # c
      /\ \A i \in (durable + 1) .. Len(sink) : sink[i].by # c

\* sink_failed, writer_loop: once the writer has disabled itself its worker
\* takes no further message as if nothing had happened; it drains and exits.
DisabledWriterStops == ~active => wpc # "receive"

Numbers(ranges) == UNION {g[1] .. g[2] : g \in ranges}
Covered == Numbers(claimed \cup Elements(ledger))
BeingPushed == {rec[c] : c \in {d \in Clients : pc[d] = "dropping"}}

\* The range of a failed batch runs from its first record's number to its last.
\* That is the batch when one source made it; records of several sources have
\* no one order, and all that is sure is that the range stays astride of them.
Source(r) == <<r.by, r.stream>>
Mixed(b) == \E p, q \in b : Source(p) # Source(q)
Astride(b, n) == \E p, q \in b : p.seq <= n /\ n <= q.seq

\* DropLedger, write_batch, flush_sink: every record counted as dropped is named
\* by a range, in the ledger or in a marker, or by one that a refused marker took
\* along; the one exception is a number inside a failed batch of several sources.
RangesNameEveryLoss ==
    \A r \in dropped \ BeingPushed :
      \/ r.seq \in Covered \cup Numbers(forgone)
      \/ \E b \in failed : Mixed(b) /\ Astride(b, r.seq)

\* DropLedger, write_batch: a range names the number of a delivered record only
\* if the other stream lost that number, or if a batch failed that held records
\* of another source around it.
RangesNameOnlyLost ==
    \A r \in Elements(sink) : r.seq \in Covered =>
      \/ \E q \in dropped : q.seq = r.seq /\ q.stream # r.stream
      \/ \E b \in failed : Astride(b, r.seq) /\ \E p \in b : Source(p) # Source(r)

\* Drop: after a joined shutdown of a live writer whose last flush went through,
\* every number drawn is at the sink under a flush or named by a `dropped' marker,
\* but for the markers the sink refused and the failed batches of several sources.
CleanShutdownIsComplete ==
    (owner = "closed" /\ active /\ durable = Len(sink) /\ ledger = <<>>) =>
      \A s \in Streams, n \in Seqs : n < next[s] =>
        \/ \E i \in 1 .. durable : sink[i].stream = s /\ sink[i].seq = n
        \/ n \in Numbers(claimed \cup forgone)
        \/ \E b \in failed : Mixed(b) /\ Astride(b, n)

\* recv_timeout: no record stays in the worker's batch for ever.
BatchIsWritten == batch # <<>> ~> batch = <<>>

\* record() under either policy: a caller that tried to send comes back, also
\* when the sink dies while it waits for room.
RecordReturns ==
    \A c \in Clients : pc[c] \in {"sending", "blocked", "dropping"} ~> pc[c] = "idle"

\* Drop: shutting the writer down always ends, joined or given up.
DropReturns == owner = "closing" ~> owner \in {"closed", "gave up"}

\* A record's way through the writer, newest last: batch, queue, caller's hand.
\* Together with the sink this is a lossy, ordered, duplicate-free log.
InFlight == Elements(batch) \cup Queued \cup (InHand \ dropped)

Follows(s, q, r) == \E i, j \in DOMAIN s : i < j /\ s[i] = q /\ s[j] = r

Ahead(q, r) ==
    \/ Follows(batch, q, r)
    \/ q \in Elements(batch) /\ r \in Queued
    \/ Follows(queue, RecordMsg(q), RecordMsg(r))
    \/ q \in Elements(batch) \cup Queued /\ r \in InHand

Tape == INSTANCE RecordLog
    WITH Records <- Record, Owner <- [r \in Record |-> r.by],
         log <- sink, pending <- InFlight,
         before <- {p \in InFlight \X InFlight :
                       p[1].by = p[2].by /\ Ahead(p[1], p[2])}

\* The writer implements the promise of RecordLog: the sink receives each record
\* at most once and each caller's records in the order the caller drew them.
ImplementsRecordLog == Tape!LogSpec
=============================================================================
