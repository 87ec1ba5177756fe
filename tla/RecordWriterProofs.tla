------------------------- MODULE RecordWriterProofs -------------------------
(***************************************************************************)
(* Proofs about RecordWriter for every number of clients, every capacity,  *)
(* batch size, policy and fault set: the counters balance, nothing         *)
(* vanishes, an answered flush has settled what came before, the sink is a *)
(* log as RecordLog promises one, and what the ranges of dropped records   *)
(* name and leave out.                                                     *)
(***************************************************************************)
EXTENDS RecordWriter, TLAPS

USE WriterAssumption

-----------------------------------------------------------------------------
(* The messages and the elements of a sequence of them.                    *)

LEMMA MessageTypes ==
    /\ \A r \in Record : RecordMsg(r) \in Message
    /\ \A to \in Clients \cup {Nobody} : FlushMsg(to) \in Message
    /\ ShutdownMsg \in Message
    /\ \A m \in Message : /\ m.kind = "record" => m.rec \in Record
                          /\ m.kind = "flush" => m.to \in Clients \cup {Nobody}
BY DEF Message, RecordMsg, FlushMsg, ShutdownMsg

\* A queue with room stays within its capacity.
LEMMA AppendTypes ==
    ASSUME queue \in Seq(Message), NEW m \in Message, Room
    PROVE  /\ Append(queue, m) \in Seq(Message)
           /\ Len(Append(queue, m)) <= QueueCapacity
BY DEF Room

\* Taking the oldest message off.
LEMMA TailTypes ==
    ASSUME queue \in Seq(Message), queue # <<>>, Len(queue) <= QueueCapacity
    PROVE  /\ Head(queue) \in Message
           /\ Tail(queue) \in Seq(Message)
           /\ Len(Tail(queue)) <= QueueCapacity
OBVIOUS

\* DropLedger::push keeps a sequence of ranges.
LEMMA PushType ==
    ASSUME NEW l \in Seq(Range2), NEW n \in Seqs
    PROVE  Push(l, n) \in Seq(Range2)
<1>1. CASE l # <<>> /\ l[Len(l)][2] + 1 = n
  <2>1. Len(l) \in 1 .. Len(l) /\ l[Len(l)] \in Range2
    BY <1>1
  <2>2. <<l[Len(l)][1], n>> \in Range2
    BY <2>1 DEF Range2
  <2>3. [l EXCEPT ![Len(l)] = <<@[1], n>>] \in Seq(Range2)
    BY <2>1, <2>2
  <2> QED BY <1>1, <2>3 DEF Push
<1>2. CASE ~(l # <<>> /\ l[Len(l)][2] + 1 = n)
  BY <1>2 DEF Push, Range2
<1> QED BY <1>1, <1>2

-----------------------------------------------------------------------------
(* The counters that move together.                                        *)
LEMMA StatsUpdates ==
    ASSUME NEW s \in WriterStats
    PROVE  /\ \A m \in Nat, q \in Int :
                /\ [s EXCEPT !.attempted = m, !.queued = q] \in WriterStats
                /\ [s EXCEPT !.queued = q, !.dropped = m] \in WriterStats
                /\ [s EXCEPT !.queued = q, !.inactive = m] \in WriterStats
           /\ \A m \in Nat :
                /\ [s EXCEPT !.inactive = m] \in WriterStats
                /\ [s EXCEPT !.written = m] \in WriterStats
                /\ [s EXCEPT !.dropped = m] \in WriterStats
           /\ \A q \in Int : [s EXCEPT !.queued = q] \in WriterStats
BY DEF WriterStats

LEMMA TypeInit == Init => TypeOK
<1> SUFFICES ASSUME Init PROVE TypeOK
  OBVIOUS
<1>1. Flags
  BY Zenon DEF Init, Flags
<1>2. ChannelTypes
  BY DEF Init, ChannelTypes
<1>3. ClientTypes
  BY DEF Init, ClientTypes
<1>4. WorkerTypes
  <2>1. NoJob \in [kind : {"none", "record", "timeout", "flush", "shutdown", "final"},
                   to : Clients \cup {Nobody}]
    BY DEF NoJob, Job
  <2>2. wpc \in {"receive", "write", "flush", "drain", "done"}
    BY Zenon DEF Init
  <2> QED BY <2>1, <2>2 DEF Init, WorkerTypes
<1>5. LossTypes /\ SinkTypes
  BY DEF Init, LossTypes, WriterStats, SinkTypes
<1> QED BY <1>1, <1>2, <1>3, <1>4, <1>5 DEF TypeOK

-----------------------------------------------------------------------------
(* Every step keeps the types: one lemma per group of actions.  A part of  *)
(* TypeOK whose variables do not change is kept.                           *)

LEMMA FlagsStay ==
    ASSUME Flags, UNCHANGED <<receiver, active, eof>> PROVE Flags'
BY Zenon DEF Flags

LEMMA ChannelStays ==
    ASSUME ChannelTypes, UNCHANGED <<queue, reply, owner>> PROVE ChannelTypes'
BY DEF ChannelTypes

LEMMA ClientsStay ==
    ASSUME ClientTypes, UNCHANGED clientVars PROVE ClientTypes'
BY DEF ClientTypes, clientVars

LEMMA WorkerStays ==
    ASSUME WorkerTypes, UNCHANGED workerVars PROVE WorkerTypes'
BY DEF WorkerTypes, workerVars

LEMMA LossStays ==
    ASSUME LossTypes, UNCHANGED <<ledger, stats, dropped>> PROVE LossTypes'
BY DEF LossTypes

LEMMA SinkStays ==
    ASSUME SinkTypes, UNCHANGED sinkVars PROVE SinkTypes'
BY DEF SinkTypes, sinkVars

LEMMA TypeClient ==
    ASSUME TypeOK, NEW c \in Clients, Client(c)
    PROVE  TypeOK'
<1> USE DEF TypeOK
<1>1. ASSUME NEW s \in Streams, DrawSequence(c, s) PROVE TypeOK'
  <2>1. [stream |-> s, seq |-> next[s], by |-> c] \in Record
    BY <1>1 DEF DrawSequence, ClientTypes, Record, Seqs
  <2>2. ClientTypes'
    BY <1>1, <2>1 DEF DrawSequence, ClientTypes
  <2>3. UNCHANGED <<queue, receiver, active, reply, owner, workerVars, ledger,
                    stats, sinkVars, dropped>>
    BY <1>1 DEF DrawSequence
  <2> QED
    BY <2>2, <2>3, FlagsStay, ChannelStays, WorkerStays, LossStays, SinkStays
       DEF sinkVars
<1>2. ASSUME RecordGate(c) PROVE TypeOK'
  <2> DEFINE attempted == stats.attempted + 1
             queued == stats.queued + 1
             inactive == stats.inactive + 1
  <2>1. ClientTypes'
    BY <1>2 DEF RecordGate, ClientTypes
  <2>2. attempted \in Nat /\ queued \in Int /\ inactive \in Nat
        /\ stats \in WriterStats
    BY DEF LossTypes, WriterStats
  <2>3. \/ stats' = [stats EXCEPT !.attempted = attempted, !.queued = queued]
        \/ stats' = [stats EXCEPT !.inactive = inactive]
    BY <1>2, Zenon DEF RecordGate
  <2>4. UNCHANGED <<queue, receiver, active, reply, owner, workerVars, ledger,
                    next, sinkVars, dropped>>
    BY <1>2 DEF RecordGate
  <2> HIDE DEF attempted, queued, inactive
  <2>5. stats' \in WriterStats
    <3>1. /\ [stats EXCEPT !.attempted = attempted, !.queued = queued] \in WriterStats
          /\ [stats EXCEPT !.inactive = inactive] \in WriterStats
      BY <2>2, StatsUpdates
    <3> QED BY <2>3, <3>1, Zenon
  <2>6. LossTypes'
    BY <2>4, <2>5 DEF LossTypes
  <2> QED
    BY <2>1, <2>4, <2>6, FlagsStay, ChannelStays, WorkerStays, SinkStays
       DEF sinkVars
<1>3. ASSUME pc[c] \in {"sending", "blocked"},
             Enqueue(c) \/ FindDisconnected(c) \/ FindFull(c),
             UNCHANGED <<receiver, reply, owner, workerVars, ledger, next, sinkVars>>
      PROVE  TypeOK'
  <2> DEFINE queued == stats.queued - 1
             lost == stats.dropped + 1
  <2>1. rec[c] \in Record
    BY <1>3 DEF ClientTypes
  <2>2. ChannelTypes'
    <3>1. CASE Enqueue(c)
      BY <1>3, <3>1, <2>1, MessageTypes, AppendTypes DEF Enqueue, ChannelTypes
    <3> QED
      BY <1>3, <3>1 DEF FindDisconnected, FindFull, ChannelTypes
  <2>3. ClientTypes'
    BY <1>3, <2>1 DEF Enqueue, FindDisconnected, FindFull, ClientTypes
  <2>4. queued \in Int /\ lost \in Nat /\ stats \in WriterStats
    BY DEF LossTypes, WriterStats
  <2>5. \/ stats' = stats
        \/ stats' = [stats EXCEPT !.queued = queued]
        \/ stats' = [stats EXCEPT !.queued = queued, !.dropped = lost]
    BY <1>3, Zenon DEF Enqueue, FindDisconnected, FindFull
  <2>6. dropped' \subseteq Record
    BY <1>3, <2>1 DEF Enqueue, FindDisconnected, FindFull, LossTypes
  <2>7. Flags'
    BY <1>3 DEF Enqueue, FindDisconnected, FindFull, Flags, sinkVars
  <2> HIDE DEF queued, lost
  <2>8. stats' \in WriterStats
    <3>1. /\ [stats EXCEPT !.queued = queued] \in WriterStats
          /\ [stats EXCEPT !.queued = queued, !.dropped = lost] \in WriterStats
      BY <2>4, StatsUpdates
    <3> QED BY <2>4, <2>5, <3>1, Zenon
  <2>9. LossTypes'
    BY <1>3, <2>6, <2>8 DEF LossTypes
  <2> QED
    BY <1>3, <2>2, <2>3, <2>7, <2>9, WorkerStays, SinkStays
<1>4. ASSUME LedgerPush(c) PROVE TypeOK'
  <2>1. rec[c].seq \in Seqs
    BY <1>4 DEF LedgerPush, ClientTypes, Record
  <2>2. ledger' \in Seq(Range2)
    BY <1>4, <2>1, PushType DEF LedgerPush, LossTypes
  <2>3. ClientTypes'
    BY <1>4 DEF LedgerPush, ClientTypes
  <2>4. UNCHANGED <<queue, receiver, active, reply, owner, workerVars, stats,
                    next, sinkVars, dropped>>
    BY <1>4 DEF LedgerPush
  <2>5. LossTypes'
    BY <2>2, <2>4 DEF LossTypes
  <2> QED
    BY <2>3, <2>4, <2>5, FlagsStay, ChannelStays, WorkerStays, SinkStays
       DEF sinkVars
<1>5. ASSUME BeginFlush(c) PROVE TypeOK'
  <2>1. ClientTypes'
    BY <1>5 DEF BeginFlush, ClientTypes
  <2>2. UNCHANGED <<queue, receiver, active, reply, owner, workerVars, ledger,
                    stats, sinkVars, dropped>>
    BY <1>5 DEF BeginFlush
  <2> QED
    BY <2>1, <2>2, FlagsStay, ChannelStays, WorkerStays, LossStays, SinkStays
       DEF sinkVars
<1>6. ASSUME SendFlush(c) PROVE TypeOK'
  <2>1. ChannelTypes'
    BY <1>6, MessageTypes, AppendTypes DEF SendFlush, ChannelTypes
  <2>2. ClientTypes'
    BY <1>6 DEF SendFlush, ClientTypes
  <2>3. UNCHANGED <<receiver, active, workerVars, ledger, stats, sinkVars, dropped>>
    BY <1>6 DEF SendFlush
  <2> QED
    BY <2>1, <2>2, <2>3, FlagsStay, WorkerStays, LossStays, SinkStays DEF sinkVars
<1>7. ASSUME FlushReturns(c) PROVE TypeOK'
  <2>1. ClientTypes'
    BY <1>7 DEF FlushReturns, ClientTypes
  <2>2. ChannelTypes'
    BY <1>7 DEF FlushReturns, ChannelTypes
  <2>3. UNCHANGED <<receiver, active, workerVars, ledger, stats, sinkVars, dropped>>
    BY <1>7 DEF FlushReturns
  <2> QED
    BY <2>1, <2>2, <2>3, FlagsStay, WorkerStays, LossStays, SinkStays DEF sinkVars
<1>8. ASSUME FlushTimesOut(c) PROVE TypeOK'
  <2>0. queue \in Seq(Message) /\ Len(queue) <= QueueCapacity
    BY DEF ChannelTypes
  <2>1. ASSUME NEW i \in DOMAIN queue
        PROVE  (IF queue[i] = FlushMsg(c) THEN FlushMsg(Nobody) ELSE queue[i])
                 \in Message
    <3>1. queue[i] \in Message
      BY <2>0
    <3>2. FlushMsg(Nobody) \in Message
      BY MessageTypes
    <3> QED BY <3>1, <3>2
  <2>2. DOMAIN queue = 1 .. Len(queue) /\ Len(queue) \in Nat
    BY <2>0
  <2>3. queue' \in Seq(Message) /\ Len(queue') = Len(queue)
    <3>1. queue' = [i \in DOMAIN queue |->
                      IF queue[i] = FlushMsg(c) THEN FlushMsg(Nobody) ELSE queue[i]]
      BY <1>8 DEF FlushTimesOut
    <3>2. queue' \in [1 .. Len(queue) -> Message]
      BY <2>1, <2>2, <3>1, Zenon
    <3> QED BY <2>2, <3>2
  <2>4. UNCHANGED <<receiver, active, rec, next, reply, owner, wpc, wrote, batch,
                    errors, sinceFlush, ledger, stats, sinkVars, dropped>>
    BY <1>8 DEF FlushTimesOut
  <2>5. WorkerTypes'
    BY <1>8, <2>4 DEF FlushTimesOut, WorkerTypes
  <2>6. ClientTypes'
    BY <1>8 DEF FlushTimesOut, ClientTypes
  <2>7. ChannelTypes'
    BY <2>3, <2>4 DEF ChannelTypes
  <2> QED
    BY <2>4, <2>5, <2>6, <2>7, FlagsStay, LossStays, SinkStays DEF sinkVars
<1>9. ASSUME RequestFlush(c) PROVE TypeOK'
  <2>1. ChannelTypes'
    BY <1>9, MessageTypes, AppendTypes DEF RequestFlush, ChannelTypes
  <2>2. UNCHANGED <<receiver, active, clientVars, workerVars, ledger, stats,
                    sinkVars, dropped>>
    BY <1>9 DEF RequestFlush
  <2> QED
    BY <2>1, <2>2, FlagsStay, ClientsStay, WorkerStays, LossStays, SinkStays
       DEF sinkVars
<1> QED
  BY <1>1, <1>2, <1>3, <1>4, <1>5, <1>6, <1>7, <1>8, <1>9
     DEF Client, TrySend, BlockedSend

LEMMA TypeOwner ==
    ASSUME TypeOK, Owner
    PROVE  TypeOK'
<1> USE DEF TypeOK
<1>1. ChannelTypes'
  BY MessageTypes, AppendTypes
     DEF Owner, BeginDrop, SendShutdown, Join, ShutdownTimesOut, ChannelTypes
<1>2. UNCHANGED <<receiver, active, clientVars, workerVars, ledger, stats,
                  sinkVars, dropped>>
  BY DEF Owner, BeginDrop, SendShutdown, Join, ShutdownTimesOut
<1> QED
  BY <1>1, <1>2, FlagsStay, ClientsStay, WorkerStays, LossStays, SinkStays
     DEF sinkVars

\* The jobs the worker takes up.
LEMMA JobTypes ==
    ASSUME NEW kind \in {"none", "record", "timeout", "flush", "shutdown", "final"},
           NEW to \in Clients \cup {Nobody}
    PROVE  [kind |-> kind, to |-> to]
             \in [kind : {"none", "record", "timeout", "flush", "shutdown", "final"},
                  to : Clients \cup {Nobody}]
OBVIOUS

LEMMA AfterWriteType ==
    ASSUME NEW outcome
    PROVE  AfterWrite(outcome) \in {"receive", "write", "flush", "drain", "done"}
BY DEF AfterWrite

LEMMA AfterFlushType ==
    ASSUME ChannelTypes, WorkerTypes, Flags, NEW outcome, AfterFlush(outcome)
    PROVE  /\ wpc' \in {"receive", "write", "flush", "drain", "done"}
           /\ ChannelTypes'
           /\ receiver' \in BOOLEAN /\ eof' \in BOOLEAN
<1>1. wpc' \in {"receive", "write", "flush", "drain", "done"}
  BY DEF AfterFlush
<1>2. receiver' \in BOOLEAN /\ eof' \in BOOLEAN
  BY Zenon DEF AfterFlush, Flags
<1>3. ChannelTypes'
  <2>1. reply' \in [Clients -> {"none", "ok", "err"}]
    BY DEF AfterFlush, Answer, ChannelTypes
  <2>2. owner' \in {"serving", "closing", "awaiting", "answered", "closed", "gave up"}
    BY DEF AfterFlush, ChannelTypes
  <2>3. queue' = queue \/ queue' = <<>>
    BY DEF AfterFlush
  <2>4. queue' \in Seq(Message) /\ Len(queue') <= QueueCapacity
    <3>1. queue \in Seq(Message) /\ Len(queue) <= QueueCapacity
      BY DEF ChannelTypes
    <3>2. <<>> \in Seq(Message) /\ Len(<<>>) <= QueueCapacity
      OBVIOUS
    <3> QED BY <2>3, <3>1, <3>2
  <2> QED BY <2>1, <2>2, <2>4 DEF ChannelTypes
<1> QED BY <1>1, <1>2, <1>3

LEMMA TypeWorker ==
    ASSUME TypeOK, Worker
    PROVE  TypeOK'
<1> USE DEF TypeOK
<1>1. ASSUME Receive PROVE TypeOK'
  <2> DEFINE queued == stats.queued - 1
  <2>1. queue \in Seq(Message) /\ queue # <<>> /\ Len(queue) <= QueueCapacity
    BY <1>1 DEF Receive, ChannelTypes
  <2>2. Head(queue) \in Message /\ Tail(queue) \in Seq(Message)
        /\ Len(Tail(queue)) <= QueueCapacity
    BY <2>1, TailTypes
  <2>3. UNCHANGED <<receiver, active, clientVars, reply, owner, errors,
                    sinceFlush, ledger, sinkVars, dropped>>
    BY <1>1 DEF Receive
  <2>4. ChannelTypes'
    BY <1>1, <2>2, <2>3 DEF Receive, ChannelTypes
  <2>5. batch' \in Seq(Record)
    <3>1. batch \in Seq(Record)
      BY DEF WorkerTypes
    <3>2. batch' = batch \/ (Head(queue).kind = "record"
                               /\ batch' = Append(batch, Head(queue).rec))
      BY <1>1, Zenon DEF Receive
    <3>3. Head(queue).kind = "record" => Head(queue).rec \in Record
      BY <2>2, MessageTypes
    <3> QED BY <3>1, <3>2, <3>3
  <2>6. job' \in [kind : {"none", "record", "timeout", "flush", "shutdown", "final"},
                  to : Clients \cup {Nobody}]
    BY <1>1, <2>2, MessageTypes DEF Receive, Job
  <2>7. wpc' \in {"receive", "write", "flush", "drain", "done"} /\ wrote' = "ok"
    BY <1>1 DEF Receive
  <2>8. WorkerTypes'
    BY <2>3, <2>5, <2>6, <2>7 DEF WorkerTypes
  <2>9. queued \in Int /\ stats \in WriterStats
    BY DEF LossTypes, WriterStats
  <2>10. stats' = stats \/ stats' = [stats EXCEPT !.queued = queued]
    BY <1>1, Zenon DEF Receive
  <2> HIDE DEF queued
  <2>11. stats' \in WriterStats
    BY <2>9, <2>10, StatsUpdates
  <2>12. LossTypes'
    BY <2>3, <2>11 DEF LossTypes
  <2> QED
    BY <2>3, <2>4, <2>8, <2>12, FlagsStay, ClientsStay, SinkStays DEF sinkVars
<1>2. ASSUME FlushInterval \/ DrainEnds PROVE TypeOK'
  <2>1. UNCHANGED <<queue, receiver, active, clientVars, reply, owner, batch,
                    errors, sinceFlush, ledger, stats, sinkVars, dropped>>
    BY <1>2 DEF FlushInterval, DrainEnds
  <2>2. job' \in [kind : {"none", "record", "timeout", "flush", "shutdown", "final"},
                  to : Clients \cup {Nobody}]
    BY <1>2 DEF FlushInterval, DrainEnds, Job
  <2>3. WorkerTypes'
    BY <1>2, <2>1, <2>2 DEF FlushInterval, DrainEnds, WorkerTypes
  <2> QED
    BY <2>1, <2>3, FlagsStay, ChannelStays, ClientsStay, LossStays, SinkStays
       DEF sinkVars
<1>3. ASSUME SkipWrite PROVE TypeOK'
  <2>1. UNCHANGED <<queue, receiver, active, clientVars, reply, owner, job, wrote,
                    batch, errors, sinceFlush, ledger, stats, sinkVars, dropped>>
    BY <1>3 DEF SkipWrite
  <2>2. WorkerTypes'
    BY <1>3, <2>1, AfterWriteType DEF SkipWrite, WorkerTypes
  <2> QED
    BY <2>1, <2>2, FlagsStay, ChannelStays, ClientsStay, LossStays, SinkStays
       DEF sinkVars
<1>4. ASSUME WriteBatchOk PROVE TypeOK'
  <2> DEFINE written == stats.written + Len(batch)
  <2>1. UNCHANGED <<queue, receiver, active, clientVars, reply, owner, job, wrote,
                    ledger, durable, claimed, eof, dropped>>
    BY <1>4 DEF WriteBatchOk
  <2>2. batch \in Seq(Record) /\ Len(batch) \in Nat
    BY DEF WorkerTypes
  <2>3. WorkerTypes'
    BY <1>4, <2>1, <2>2, AfterWriteType DEF WriteBatchOk, WorkerTypes
  <2>4. SinkTypes'
    BY <1>4, <2>1, <2>2 DEF WriteBatchOk, SinkTypes
  <2>5. written \in Nat /\ stats \in WriterStats
    BY <2>2 DEF LossTypes, WriterStats
  <2>6. stats' = [stats EXCEPT !.written = written]
    BY <1>4 DEF WriteBatchOk
  <2> HIDE DEF written
  <2>7. LossTypes'
    <3>1. stats' \in WriterStats
      <4>1. [stats EXCEPT !.written = written] \in WriterStats
        BY <2>5, StatsUpdates
      <4> QED BY <2>6, <4>1, Zenon
    <3> QED BY <2>1, <3>1 DEF LossTypes
  <2> QED
    BY <2>1, <2>3, <2>4, <2>7, FlagsStay, ChannelStays, ClientsStay
<1>5. ASSUME WriteBatchFails PROVE TypeOK'
  <2> DEFINE lost == stats.dropped + Len(batch)
  <2>1. UNCHANGED <<queue, receiver, clientVars, reply, owner, job, sink, durable,
                    claimed, eof, forgone>>
    BY <1>5 DEF WriteBatchFails
  <2>2. batch \in Seq(Record) /\ Len(batch) \in Nat /\ batch # <<>>
    BY <1>5 DEF WriteBatchFails, WorkerTypes
  <2>3. WorkerTypes'
    BY <1>5, <2>1, <2>2, AfterWriteType
       DEF WriteBatchFails, SinkFailed, Failure, WorkerTypes
  <2>4. Flags'
    BY <1>5, <2>1, Zenon DEF WriteBatchFails, SinkFailed, Flags
  <2>5. batch[1] \in Record /\ batch[Len(batch)] \in Record
    BY <2>2
  <2>6. BatchRange \in Range2
    BY <2>5 DEF BatchRange, Record, Range2
  <2>7. ledger' \in Seq(Range2)
    BY <1>5, <2>6 DEF WriteBatchFails, LossTypes
  <2>8. dropped' \subseteq Record
    BY <1>5, <2>2 DEF WriteBatchFails, Elements, LossTypes
  <2>9. lost \in Nat /\ stats \in WriterStats
    BY <2>2 DEF LossTypes, WriterStats
  <2>10. stats' = [stats EXCEPT !.dropped = lost]
    BY <1>5 DEF WriteBatchFails
  <2> HIDE DEF lost
  <2>11. LossTypes'
    <3>1. stats' \in WriterStats
      <4>1. [stats EXCEPT !.dropped = lost] \in WriterStats
        BY <2>9, StatsUpdates
      <4> QED BY <2>10, <4>1, Zenon
    <3> QED BY <2>7, <2>8, <3>1 DEF LossTypes
  <2>12. SinkTypes'
    <3>1. failed' \subseteq SUBSET Record
      BY <1>5, <2>2 DEF WriteBatchFails, Elements, SinkTypes
    <3> QED BY <2>1, <3>1 DEF SinkTypes
  <2> QED
    BY <2>1, <2>3, <2>4, <2>11, <2>12, ChannelStays, ClientsStay
<1>6. ASSUME FlushSinkOk PROVE TypeOK'
  <2>1. UNCHANGED <<active, clientVars, wrote, batch, errors, stats, sink, failed,
                    dropped>>
    BY <1>6 DEF FlushSinkOk
  <2>2. AfterFlush("ok") /\ job' = NoJob /\ sinceFlush' = 0 /\ ledger' = <<>>
    BY <1>6 DEF FlushSinkOk
  <2>3. /\ wpc' \in {"receive", "write", "flush", "drain", "done"}
        /\ ChannelTypes' /\ receiver' \in BOOLEAN /\ eof' \in BOOLEAN
    BY <2>2, AfterFlushType
  <2>4. WorkerTypes'
    BY <2>1, <2>2, <2>3, JobTypes DEF WorkerTypes, NoJob, Job
  <2>5. SinkTypes'
    <3>1. Elements(ledger) \subseteq Range2
      BY DEF Elements, LossTypes
    <3>2. claimed' \subseteq Range2 /\ forgone' \subseteq Range2
      BY <1>6, <3>1 DEF FlushSinkOk, Claim, SinkTypes
    <3>3. durable' \in Nat
      BY <1>6 DEF FlushSinkOk, SinkTypes
    <3> QED BY <2>1, <3>2, <3>3 DEF SinkTypes
  <2>6. LossTypes'
    BY <2>1, <2>2 DEF LossTypes
  <2>7. Flags'
    BY <2>1, <2>3, Zenon DEF Flags
  <2> QED BY <2>1, <2>3, <2>4, <2>5, <2>6, <2>7, ClientsStay
<1>7. ASSUME FlushSinkFails PROVE TypeOK'
  <2>1. UNCHANGED <<clientVars, wrote, batch, sinceFlush, ledger, stats, sink,
                    durable, claimed, failed, forgone, dropped>>
    BY <1>7 DEF FlushSinkFails
  <2>2. AfterFlush(Failure) /\ job' = NoJob /\ SinkFailed
    BY <1>7 DEF FlushSinkFails
  <2>3. /\ wpc' \in {"receive", "write", "flush", "drain", "done"}
        /\ ChannelTypes' /\ receiver' \in BOOLEAN /\ eof' \in BOOLEAN
    BY <2>2, AfterFlushType
  <2>4. WorkerTypes'
    BY <2>1, <2>2, <2>3, JobTypes DEF WorkerTypes, NoJob, Job, SinkFailed
  <2>5. Flags'
    BY <2>2, <2>3, Zenon DEF Flags, SinkFailed
  <2>6. SinkTypes' /\ LossTypes'
    BY <2>1 DEF SinkTypes, LossTypes
  <2> QED BY <2>1, <2>3, <2>4, <2>5, <2>6, ClientsStay
<1>8. ASSUME Drain PROVE TypeOK'
  <2> DEFINE queued == stats.queued - 1
             inactive == stats.inactive + 1
  <2>1. queue \in Seq(Message) /\ queue # <<>> /\ Len(queue) <= QueueCapacity
    BY <1>8 DEF Drain, ChannelTypes
  <2>2. Tail(queue) \in Seq(Message) /\ Len(Tail(queue)) <= QueueCapacity
    BY <2>1, TailTypes
  <2>3. UNCHANGED <<receiver, active, clientVars, workerVars, ledger, sinkVars,
                    dropped>>
    BY <1>8 DEF Drain
  <2>4. ChannelTypes'
    BY <1>8, <2>2 DEF Drain, ChannelTypes
  <2>5. queued \in Int /\ inactive \in Nat /\ stats \in WriterStats
    BY DEF LossTypes, WriterStats
  <2>6. \/ stats' = stats
        \/ stats' = [stats EXCEPT !.queued = queued, !.inactive = inactive]
    BY <1>8, Zenon DEF Drain
  <2> HIDE DEF queued, inactive
  <2>7. stats' \in WriterStats
    <3>1. [stats EXCEPT !.queued = queued, !.inactive = inactive] \in WriterStats
      BY <2>5, StatsUpdates
    <3> QED BY <2>5, <2>6, <3>1, Zenon
  <2>8. LossTypes'
    BY <2>3, <2>7 DEF LossTypes
  <2> QED
    BY <2>3, <2>4, <2>8, FlagsStay, ClientsStay, WorkerStays, SinkStays DEF sinkVars
<1> QED
  BY <1>1, <1>2, <1>3, <1>4, <1>5, <1>6, <1>7, <1>8 DEF Worker

LEMMA TypeStep == TypeOK /\ [Next]_vars => TypeOK'
<1> SUFFICES ASSUME TypeOK, [Next]_vars PROVE TypeOK'
  OBVIOUS
<1>1. CASE UNCHANGED vars
  BY <1>1, FlagsStay, ChannelStays, ClientsStay, WorkerStays, LossStays, SinkStays
     DEF vars, sinkVars, TypeOK
<1> QED
  BY <1>1, TypeClient, TypeOwner, TypeWorker DEF Next, Finished

\* Every reachable state is well typed.
THEOREM TypeCorrect == Spec => []TypeOK
<1> QED BY TypeInit, TypeStep, PTL DEF Spec

-----------------------------------------------------------------------------
(* A disabled writer stops.  What makes it inductive: the receiver outlives*)
(* everything but the worker, a worker that drains or has met a fatal error*)
(* has disabled the writer, and a worker of a disabled writer is on its way*)
(* out of the loop.                                                        *)

Leaving ==
    \/ wpc \in {"drain", "done"}
    \/ wpc = "write" /\ job.kind = "final"
    \/ wpc = "flush" /\ job.kind \in {"shutdown", "final"}
    \/ wpc = "flush" /\ job.kind = "flush" /\ wrote = "fatal"

StopInv ==
    /\ ~receiver => wpc = "done"
    /\ wpc = "drain" => ~active
    /\ wrote = "fatal" => ~active
    /\ ~active => Leaving

LEMMA StopInit == Init => StopInv
BY DEF Init, StopInv, Leaving

LEMMA StopStep ==
    ASSUME TypeOK, StopInv, [Next]_vars
    PROVE  StopInv'
<1> USE DEF StopInv, Leaving
<1>1. CASE UNCHANGED vars
  BY <1>1 DEF vars, workerVars
<1>2. ASSUME NEW c \in Clients, Client(c) PROVE StopInv'
  <2>1. CASE FlushTimesOut(c)
    <3>1. job'.kind = job.kind
      BY <2>1 DEF FlushTimesOut, TypeOK, WorkerTypes
    <3> QED BY <2>1, <3>1 DEF FlushTimesOut
  <2>2. CASE ~FlushTimesOut(c)
    <3>1. UNCHANGED workerVars /\ UNCHANGED receiver
      BY <1>2, <2>2
         DEF Client, DrawSequence, RecordGate, TrySend, BlockedSend, LedgerPush,
             BeginFlush, SendFlush, FlushReturns, RequestFlush
    <3>2. active' = active \/ (~receiver /\ active' = FALSE)
      BY <1>2, <2>2, Zenon
         DEF Client, DrawSequence, RecordGate, TrySend, BlockedSend, LedgerPush,
             BeginFlush, SendFlush, FlushReturns, RequestFlush, Enqueue,
             FindDisconnected, FindFull
    <3>3. UNCHANGED <<wpc, job, wrote>>
      BY <3>1 DEF workerVars
    <3>4. CASE active' = active
      BY <3>1, <3>3, <3>4
    <3>5. CASE ~receiver /\ active' = FALSE
      BY <3>1, <3>3, <3>5
    <3> QED BY <3>2, <3>4, <3>5
  <2> QED BY <2>1, <2>2
<1>3. ASSUME Owner PROVE StopInv'
  <2>1. UNCHANGED <<receiver, active, workerVars>>
    BY <1>3 DEF Owner, BeginDrop, SendShutdown, Join, ShutdownTimesOut
  <2> QED BY <2>1, Zenon DEF workerVars
<1>4. ASSUME Worker PROVE StopInv'
  <2>1. CASE Receive
    BY <2>1 DEF Receive
  <2>2. CASE FlushInterval \/ DrainEnds
    BY <2>2 DEF FlushInterval, DrainEnds, Job
  <2>3. CASE SkipWrite
    BY <2>3 DEF SkipWrite, AfterWrite
  <2>4. CASE WriteBatchOk
    BY <2>4 DEF WriteBatchOk, AfterWrite
  <2>5. CASE WriteBatchFails
    <3>1. /\ Failure = "fatal" => ~active'
          /\ ~active' => ~active \/ Failure = "fatal"
      BY <2>5, Zenon DEF WriteBatchFails, SinkFailed
    <3>2. /\ wpc = "write" /\ wrote' = Failure
          /\ job' = job /\ receiver' = receiver
          /\ wpc' = AfterWrite(Failure)
      BY <2>5 DEF WriteBatchFails
    <3>3. CASE Failure = "fatal"
      <4>1. wpc' = IF job.kind \in {"flush", "shutdown", "final"} THEN "flush"
                   ELSE "drain"
        BY <3>2, <3>3 DEF AfterWrite
      <4>2. ~active' /\ receiver'
        BY <3>1, <3>2, <3>3
      <4> QED BY <3>2, <3>3, <4>1, <4>2
    <3>4. CASE Failure # "fatal"
      <4>1. receiver' /\ (~active' => ~active)
        BY <3>1, <3>2, <3>4
      <4>2. wpc' # "drain"
        BY <3>2, <3>4 DEF AfterWrite, Failure
      <4>3. job.kind = "final" => wpc' = "flush"
        BY <3>2 DEF AfterWrite
      <4> QED BY <3>2, <3>4, <4>1, <4>2, <4>3
    <3> QED BY <3>3, <3>4
  <2>6. CASE FlushSinkOk
    <3>1. active' = active /\ wrote' = wrote /\ AfterFlush("ok") /\ wpc = "flush"
      BY <2>6 DEF FlushSinkOk
    <3> QED BY <3>1 DEF AfterFlush, Fatal
  <2>7. CASE FlushSinkFails
    <3>1. /\ Failure = "fatal" => ~active'
          /\ ~active' => ~active \/ Failure = "fatal"
          /\ ~active => ~active'
      BY <2>7, Zenon DEF FlushSinkFails, SinkFailed
    <3>2. wrote' = wrote /\ AfterFlush(Failure) /\ wpc = "flush"
      BY <2>7 DEF FlushSinkFails
    <3>3. CASE job.kind \in {"shutdown", "final"}
      <4>1. wrote' = "fatal" => ~active'
        BY <3>1, <3>2, Zenon DEF StopInv
      <4>2. wpc' = "done" /\ ~receiver'
        BY <3>2, <3>3 DEF AfterFlush
      <4> QED BY <4>1, <4>2
    <3>4. CASE job.kind \in {"record", "timeout", "flush"}
      <4>1. receiver' = receiver /\ receiver
        BY <3>2, <3>4 DEF AfterFlush
      <4>2. wpc' = "drain" => ~active'
        BY <3>1, <3>2, <3>4 DEF AfterFlush, Fatal
      <4>3. wrote' = "fatal" => ~active'
        BY <3>1, <3>2, Zenon DEF StopInv
      <4>4. ~active' => wpc' = "drain"
        BY <3>1, <3>2, <3>4 DEF AfterFlush, Fatal
      <4> QED BY <4>1, <4>2, <4>3, <4>4
    <3> QED BY <3>2, <3>3, <3>4 DEF AfterFlush
  <2>8. CASE Drain
    BY <2>8 DEF Drain, workerVars
  <2> QED
    BY <1>4, <2>1, <2>2, <2>3, <2>4, <2>5, <2>6, <2>7, <2>8 DEF Worker
<1> QED
  BY <1>1, <1>2, <1>3, <1>4 DEF Next, Finished

\* Once the writer has disabled itself its worker takes no further message as
\* if nothing had happened.
THEOREM DisabledStops == Spec => []DisabledWriterStops
<1>1. TypeOK /\ StopInv /\ [Next]_vars => (TypeOK /\ StopInv)'
  BY TypeStep, StopStep
<1>2. StopInv => DisabledWriterStops
  BY DEF StopInv, Leaving, DisabledWriterStops
<1> QED
  BY TypeInit, StopInit, <1>1, <1>2, PTL DEF Spec

-----------------------------------------------------------------------------
(* The counters balance.  The balance is inductive given that only a worker*)
(* of a disabled writer drains.                                            *)

Placed == stats.queued + Len(batch) + stats.written + stats.dropped

\* A step of an active writer admits a record or moves one along; a disabled
\* one may also lose some; none brings a disabled writer back.
LEMMA BalanceKept ==
    ASSUME TypeOK, StatsBalance, stats'.written = Len(sink'),
           \/ Placed' = Placed /\ stats'.attempted = stats.attempted
                /\ (active' => active)
           \/ Placed' = Placed + 1 /\ stats'.attempted = stats.attempted + 1
                /\ (active' => active)
           \/ Placed' = Placed - 1 /\ stats'.attempted = stats.attempted /\ ~active'
    PROVE  StatsBalance'
<1>1. stats.attempted \in Nat /\ Placed \in Int
  BY DEF Placed, TypeOK, LossTypes, WriterStats, WorkerTypes
<1>2. Placed <= stats.attempted /\ (active => Placed = stats.attempted)
  BY Zenon DEF StatsBalance, Placed
<1>3. Placed' <= stats'.attempted
  BY <1>1, <1>2
<1>4. ASSUME active' PROVE Placed' = stats'.attempted
  <2>1. \/ Placed' = Placed /\ stats'.attempted = stats.attempted
        \/ Placed' = Placed + 1 /\ stats'.attempted = stats.attempted + 1
    BY <1>4, Zenon
  <2>2. Placed = stats.attempted
    BY <1>2, <1>4, Zenon
  <2> QED BY <2>1, <2>2
<1> QED BY <1>3, <1>4, Zenon DEF StatsBalance, Placed

LEMMA BalanceStays ==
    ASSUME StatsBalance, UNCHANGED <<stats, sink, batch>>, active' => active
    PROVE  StatsBalance'
BY Zenon DEF StatsBalance

LEMMA BalanceInit == Init => StatsBalance
BY DEF Init, StatsBalance

LEMMA BalanceClient ==
    ASSUME TypeOK, StatsBalance, NEW c \in Clients, Client(c)
    PROVE  StatsBalance'
<1> DEFINE queued == stats.queued - 1
           lost   == stats.dropped + 1
<1>1. stats \in WriterStats /\ stats.attempted \in Nat /\ stats.queued \in Int
      /\ stats.dropped \in Nat /\ stats.written \in Nat /\ stats.inactive \in Nat
  BY DEF TypeOK, LossTypes, WriterStats
<1>2. Len(batch) \in Nat /\ Placed = stats.queued + Len(batch) + stats.written + stats.dropped
  BY DEF TypeOK, WorkerTypes, Placed
<1>3. stats.written = Len(sink)
  BY DEF StatsBalance
<1>4. UNCHANGED <<sink, batch>>
  BY DEF Client, DrawSequence, RecordGate, TrySend, BlockedSend, LedgerPush,
         BeginFlush, SendFlush, FlushReturns, FlushTimesOut, RequestFlush,
         workerVars, sinkVars
<1>5. Placed' = stats'.queued + Len(batch) + stats'.written + stats'.dropped
  BY <1>4 DEF Placed
<1>6. CASE RecordGate(c)
  <2> DEFINE attempted == stats.attempted + 1
             more      == stats.queued + 1
             inactive  == stats.inactive + 1
  <2>1. active' = active
    BY <1>6 DEF RecordGate
  <2>2. \/ stats' = [stats EXCEPT !.attempted = attempted, !.queued = more]
        \/ stats' = [stats EXCEPT !.inactive = inactive]
    BY <1>6, Zenon DEF RecordGate
  <2>3. \/ stats'.attempted = attempted /\ stats'.queued = more
             /\ stats'.written = stats.written /\ stats'.dropped = stats.dropped
        \/ stats'.attempted = stats.attempted /\ stats'.queued = stats.queued
             /\ stats'.written = stats.written /\ stats'.dropped = stats.dropped
    <3> HIDE DEF attempted, more, inactive
    <3> QED BY <2>2, <1>1 DEF WriterStats
  <2>4. stats'.written = Len(sink')
    BY <1>3, <1>4, <2>3
  <2>5. more + Len(batch) + stats.written + stats.dropped = Placed + 1
    BY <1>1, <1>2
  <2>6. \/ Placed' = Placed /\ stats'.attempted = stats.attempted
        \/ Placed' = Placed + 1 /\ stats'.attempted = stats.attempted + 1
    <3> HIDE DEF more
    <3> QED BY <1>2, <1>5, <2>3, <2>5
  <2> QED BY <2>1, <2>4, <2>6, BalanceKept, Zenon
<1>7. CASE TrySend(c) \/ BlockedSend(c)
  <2>1. \/ stats' = stats /\ active' = active
        \/ stats' = [stats EXCEPT !.queued = queued] /\ ~active'
        \/ stats' = [stats EXCEPT !.queued = queued, !.dropped = lost]
             /\ active' = active
    BY <1>7, Zenon DEF TrySend, BlockedSend, Enqueue, FindDisconnected, FindFull
  <2>2. CASE stats' = stats /\ active' = active
    BY <2>2, <1>4, BalanceStays
  <2>3. CASE stats' = [stats EXCEPT !.queued = queued] /\ ~active'
    <3>1. /\ stats'.attempted = stats.attempted /\ stats'.queued = queued
          /\ stats'.written = stats.written /\ stats'.dropped = stats.dropped
      <4> HIDE DEF queued
      <4> QED BY <2>3, <1>1 DEF WriterStats
    <3>2. /\ stats'.written = Len(sink')
          /\ Placed' = Placed - 1 /\ stats'.attempted = stats.attempted
      BY <1>1, <1>2, <1>3, <1>4, <1>5, <3>1
    <3> QED BY <2>3, <3>2, BalanceKept, Zenon
  <2>4. CASE stats' = [stats EXCEPT !.queued = queued, !.dropped = lost]
               /\ active' = active
    <3>1. /\ stats'.attempted = stats.attempted /\ stats'.queued = queued
          /\ stats'.written = stats.written /\ stats'.dropped = lost
      <4> HIDE DEF queued, lost
      <4> QED BY <2>4, <1>1 DEF WriterStats
    <3>2. queued + Len(batch) + stats.written + lost = Placed
      <4>1. queued + lost = stats.queued + stats.dropped
        BY <1>1
      <4> HIDE DEF queued, lost
      <4>2. queued \in Int /\ lost \in Int
        BY <1>1 DEF queued, lost
      <4> QED BY <1>1, <1>2, <4>1, <4>2
    <3>3. Placed' = queued + Len(batch) + stats.written + lost
      BY <1>5, <3>1
    <3>4. stats'.written = Len(sink') /\ Placed' = Placed
      BY <1>3, <1>4, <3>1, <3>2, <3>3
    <3> QED BY <2>4, <3>1, <3>4, BalanceKept, Zenon
  <2> QED BY <2>1, <2>2, <2>3, <2>4, Zenon
<1>8. CASE ~(RecordGate(c) \/ TrySend(c) \/ BlockedSend(c))
  <2>1. UNCHANGED <<stats, active>>
    BY <1>8 DEF Client, DrawSequence, LedgerPush, BeginFlush, SendFlush,
                FlushReturns, FlushTimesOut, RequestFlush
  <2> QED BY <2>1, <1>4, BalanceStays, Zenon
<1> QED BY <1>6, <1>7, <1>8

LEMMA BalanceWorker ==
    ASSUME TypeOK, StopInv, StatsBalance, Worker
    PROVE  StatsBalance'
<1>1. stats \in WriterStats /\ stats.attempted \in Nat /\ stats.queued \in Int
      /\ stats.dropped \in Nat /\ stats.written \in Nat /\ stats.inactive \in Nat
  BY DEF TypeOK, LossTypes, WriterStats
<1>2. /\ batch \in Seq(Record) /\ sink \in Seq(Record) /\ Len(batch) \in Nat
      /\ Placed = stats.queued + Len(batch) + stats.written + stats.dropped
  BY DEF TypeOK, WorkerTypes, SinkTypes, Placed
<1>3. stats.written = Len(sink)
  BY DEF StatsBalance
<1>4. Placed' = stats'.queued + Len(batch') + stats'.written + stats'.dropped
  BY DEF Placed
<1>5. CASE Receive
  <2> DEFINE queued == stats.queued - 1
  <2>1. UNCHANGED <<sink, active>>
    BY <1>5 DEF Receive, sinkVars
  <2>2. \/ UNCHANGED <<stats, batch>>
        \/ stats' = [stats EXCEPT !.queued = queued]
             /\ batch' = Append(batch, Head(queue).rec)
    BY <1>5, Zenon DEF Receive
  <2>3. CASE UNCHANGED <<stats, batch>>
    BY <2>1, <2>3, BalanceStays
  <2>4. CASE stats' = [stats EXCEPT !.queued = queued]
               /\ batch' = Append(batch, Head(queue).rec)
    <3>1. /\ stats'.attempted = stats.attempted /\ stats'.queued = queued
          /\ stats'.written = stats.written /\ stats'.dropped = stats.dropped
      <4> HIDE DEF queued
      <4> QED BY <2>4, <1>1 DEF WriterStats
    <3>2. Len(batch') = Len(batch) + 1
      BY <1>2, <2>4
    <3>3. /\ stats'.written = Len(sink')
          /\ Placed' = Placed /\ stats'.attempted = stats.attempted
      BY <1>1, <1>2, <1>3, <1>4, <2>1, <3>1, <3>2
    <3> QED BY <2>1, <3>3, BalanceKept, Zenon
  <2> QED BY <2>2, <2>3, <2>4, Zenon
<1>6. CASE WriteBatchOk
  <2> DEFINE written == stats.written + Len(batch)
  <2>1. active' = active /\ sink' = sink \o batch /\ batch' = <<>>
        /\ stats' = [stats EXCEPT !.written = written]
    BY <1>6, Zenon DEF WriteBatchOk
  <2>2. /\ stats'.attempted = stats.attempted /\ stats'.queued = stats.queued
        /\ stats'.written = written /\ stats'.dropped = stats.dropped
    <3> HIDE DEF written
    <3> QED BY <2>1, <1>1 DEF WriterStats
  <2>3. Len(sink') = Len(sink) + Len(batch) /\ Len(batch') = 0
    BY <1>2, <2>1
  <2>4. /\ stats'.written = Len(sink')
        /\ Placed' = Placed /\ stats'.attempted = stats.attempted
    BY <1>1, <1>2, <1>3, <1>4, <2>2, <2>3
  <2> QED BY <2>1, <2>4, BalanceKept, Zenon
<1>7. CASE WriteBatchFails
  <2> DEFINE lost == stats.dropped + Len(batch)
  <2>1. sink' = sink /\ batch' = <<>> /\ stats' = [stats EXCEPT !.dropped = lost]
        /\ (active' => active)
    BY <1>7, Zenon DEF WriteBatchFails, sinkVars, SinkFailed
  <2>2. /\ stats'.attempted = stats.attempted /\ stats'.queued = stats.queued
        /\ stats'.written = stats.written /\ stats'.dropped = lost
    <3> HIDE DEF lost
    <3> QED BY <2>1, <1>1 DEF WriterStats
  <2>3. Len(batch') = 0
    BY <2>1
  <2>4. stats.queued + 0 + stats.written + lost = Placed
    BY <1>1, <1>2
  <2>5. Placed' = stats.queued + 0 + stats.written + lost
    BY <1>4, <2>2, <2>3
  <2>6. stats'.written = Len(sink') /\ Placed' = Placed
    BY <1>3, <2>1, <2>2, <2>4, <2>5
  <2> QED BY <2>1, <2>2, <2>6, BalanceKept, Zenon
<1>8. CASE Drain
  <2> DEFINE queued   == stats.queued - 1
             inactive == stats.inactive + 1
  <2>1. /\ UNCHANGED <<sink, active, batch>> /\ wpc = "drain"
        /\ stats' = stats \/ stats' = [stats EXCEPT !.queued = queued,
                                                    !.inactive = inactive]
    BY <1>8, Zenon DEF Drain, sinkVars, workerVars
  <2>2. ~active'
    BY <2>1, Zenon DEF StopInv
  <2>3. CASE stats' = stats
    BY <2>1, <2>3, BalanceStays
  <2>4. CASE stats' = [stats EXCEPT !.queued = queued, !.inactive = inactive]
    <3>1. /\ stats'.attempted = stats.attempted /\ stats'.queued = queued
          /\ stats'.written = stats.written /\ stats'.dropped = stats.dropped
      <4> HIDE DEF queued, inactive
      <4> QED BY <2>4, <1>1 DEF WriterStats
    <3>2. /\ stats'.written = Len(sink')
          /\ Placed' = Placed - 1 /\ stats'.attempted = stats.attempted
      BY <1>1, <1>2, <1>3, <1>4, <2>1, <3>1
    <3> QED BY <2>2, <3>2, BalanceKept, Zenon
  <2> QED BY <2>1, <2>3, <2>4, Zenon
<1>9. CASE FlushInterval \/ SkipWrite \/ FlushSinkOk \/ FlushSinkFails \/ DrainEnds
  <2>1. UNCHANGED <<stats, sink, batch>>
    BY <1>9 DEF FlushInterval, SkipWrite, FlushSinkOk, FlushSinkFails, DrainEnds,
                sinkVars
  <2>2. active' => active
    BY <1>9, Zenon DEF FlushInterval, SkipWrite, FlushSinkOk, FlushSinkFails,
                       DrainEnds, SinkFailed
  <2> QED BY <2>1, <2>2, BalanceStays, Zenon
<1> QED BY <1>5, <1>6, <1>7, <1>8, <1>9, Zenon DEF Worker

LEMMA BalanceStep ==
    ASSUME TypeOK, StopInv, StatsBalance, [Next]_vars
    PROVE  StatsBalance'
<1>1. CASE Owner \/ Finished \/ UNCHANGED vars
  <2>1. UNCHANGED <<stats, sink, batch, active>>
    BY <1>1 DEF Owner, BeginDrop, SendShutdown, Join, ShutdownTimesOut, Finished,
                vars, workerVars, sinkVars
  <2> QED BY <2>1, BalanceStays, Zenon
<1> QED
  BY <1>1, BalanceClient, BalanceWorker, Zenon DEF Next

\* record(), write_batch, drain_after_sink_failure: the health counters account
\* for every attempted record, whatever the policy and whichever calls fail.
THEOREM StatsBalanced == Spec => []StatsBalance
<1>1. TypeOK /\ StopInv /\ StatsBalance /\ [Next]_vars
        => (TypeOK /\ StopInv /\ StatsBalance)'
  BY TypeStep, StopStep, BalanceStep
<1> QED
  BY TypeInit, StopInit, BalanceInit, <1>1, PTL DEF Spec

-----------------------------------------------------------------------------
(* A live writer loses nothing in silence.  A message may leave the channel*)
(* unread only with the worker, and a worker that leaves a live writer was *)
(* told to by the shutdown, which is the last message there is.            *)

\* What the elements of sequences are.
LEMMA ElementsGrow ==
    /\ Elements(<<>>) = {}
    /\ \A S : \A s \in Seq(S), t \in Seq(S) : Elements(s \o t) = Elements(s) \cup Elements(t)
    /\ \A S : \A s \in Seq(S), x \in S : Elements(Append(s, x)) = Elements(s) \cup {x}
<1>1. Elements(<<>>) = {}
  BY DEF Elements
<1>2. ASSUME NEW S, NEW s \in Seq(S), NEW t \in Seq(S)
      PROVE  Elements(s \o t) = Elements(s) \cup Elements(t)
  <2>1. \A i \in DOMAIN s : i \in DOMAIN (s \o t) /\ (s \o t)[i] = s[i]
    OBVIOUS
  <2>2. \A i \in DOMAIN t : i + Len(s) \in DOMAIN (s \o t) /\ (s \o t)[i + Len(s)] = t[i]
    OBVIOUS
  <2>3. \A i \in DOMAIN (s \o t) : i \in DOMAIN s \/ i - Len(s) \in DOMAIN t
    OBVIOUS
  <2>4. \A i \in DOMAIN (s \o t) : (s \o t)[i] \in Elements(s) \cup Elements(t)
    <3> SUFFICES ASSUME NEW i \in DOMAIN (s \o t)
                 PROVE  (s \o t)[i] \in Elements(s) \cup Elements(t)
      OBVIOUS
    <3>1. CASE i \in DOMAIN s
      BY <2>1, <3>1 DEF Elements
    <3>2. CASE i - Len(s) \in DOMAIN t
      <4>1. (s \o t)[i] = t[i - Len(s)]
        BY <3>2
      <4> QED BY <3>2, <4>1 DEF Elements
    <3> QED BY <2>3, <3>1, <3>2
  <2>5. Elements(s) \subseteq Elements(s \o t)
    BY <2>1 DEF Elements
  <2>6. Elements(t) \subseteq Elements(s \o t)
    <3> SUFFICES ASSUME NEW i \in DOMAIN t PROVE t[i] \in Elements(s \o t)
      BY DEF Elements
    <3> DEFINE n == i + Len(s)
    <3>1. n \in DOMAIN (s \o t) /\ (s \o t)[n] = t[i]
      BY <2>2
    <3> HIDE DEF n
    <3> QED BY <3>1 DEF Elements
  <2> QED BY <2>4, <2>5, <2>6 DEF Elements
<1>3. ASSUME NEW S, NEW s \in Seq(S), NEW x \in S
      PROVE  Elements(Append(s, x)) = Elements(s) \cup {x}
  <2>1. /\ DOMAIN Append(s, x) = DOMAIN s \cup {Len(s) + 1}
        /\ \A i \in DOMAIN s : Append(s, x)[i] = s[i]
        /\ Append(s, x)[Len(s) + 1] = x
    OBVIOUS
  <2> QED BY <2>1 DEF Elements
<1> QED BY <1>1, <1>2, <1>3

\* The records in the channel when a message joins them or the oldest leaves.
LEMMA QueuedAppend ==
    ASSUME TypeOK, NEW m \in Message, queue' = Append(queue, m)
    PROVE  /\ Queued \subseteq Queued'
           /\ \A r \in Queued' : r \in Queued \/ (m.kind = "record" /\ r = m.rec)
           /\ m.kind = "record" => m.rec \in Queued'
<1>1. queue \in Seq(Message)
  BY DEF TypeOK, ChannelTypes
<1>2. /\ DOMAIN queue' = DOMAIN queue \cup {Len(queue) + 1}
      /\ \A i \in DOMAIN queue : queue'[i] = queue[i]
      /\ queue'[Len(queue) + 1] = m
  BY <1>1
<1> QED BY <1>2 DEF Queued

LEMMA QueuedTail ==
    ASSUME TypeOK, queue # <<>>, queue' = Tail(queue)
    PROVE  /\ Queued' \subseteq Queued
           /\ \A r \in Queued : \/ r \in Queued'
                                \/ Head(queue).kind = "record" /\ r = Head(queue).rec
           /\ Head(queue).kind = "record" => Head(queue).rec \in Queued
<1>1. queue \in Seq(Message)
  BY DEF TypeOK, ChannelTypes
<1>2. /\ DOMAIN queue = 1 .. Len(queue) /\ Len(queue) \in Nat \ {0}
      /\ DOMAIN queue' = 1 .. (Len(queue) - 1)
      /\ \A i \in DOMAIN queue' : queue'[i] = queue[i + 1]
      /\ Head(queue) = queue[1]
  BY <1>1
<1>3. ASSUME NEW i \in DOMAIN queue', queue'[i].kind = "record"
      PROVE  queue'[i].rec \in Queued
  <2> DEFINE n == i + 1
  <2>1. n \in DOMAIN queue /\ queue'[i] = queue[n]
    BY <1>2
  <2> HIDE DEF n
  <2> QED BY <1>3, <2>1 DEF Queued
<1>4. ASSUME NEW i \in DOMAIN queue, queue[i].kind = "record"
      PROVE  \/ queue[i].rec \in Queued'
             \/ Head(queue).kind = "record" /\ queue[i].rec = Head(queue).rec
  <2>1. CASE i = 1
    BY <1>2, <1>4, <2>1
  <2>2. CASE i # 1
    <3> DEFINE n == i - 1
    <3>1. n \in DOMAIN queue' /\ queue'[n] = queue[i]
      BY <1>2, <2>2
    <3> HIDE DEF n
    <3> QED BY <1>4, <3>1 DEF Queued
  <2> QED BY <2>1, <2>2
<1>5. Head(queue).kind = "record" => Head(queue).rec \in Queued
  BY <1>2 DEF Queued
<1> QED BY <1>3, <1>4, <1>5 DEF Queued

\* The shutdown is sent when no caller is left and is the last message there
\* is; only the worker of a disabled writer does the final job.
ShutdownIsLast ==
    /\ owner # "serving" => \A c \in Clients : pc[c] = "idle"
    /\ owner \in {"serving", "closing"} =>
         /\ job.kind # "shutdown"
         /\ \A i \in DOMAIN queue : queue[i].kind # "shutdown"
    /\ \A i \in DOMAIN queue : queue[i].kind = "shutdown" => i = Len(queue)
    /\ job.kind = "shutdown" => queue = <<>>
    /\ job.kind = "final" => ~active

\* A caller holds a record from the draw until it is handed over, turned away
\* or, once counted as dropped, in the ledger.
Hands ==
    \A c \in Clients :
        /\ pc[c] \notin {"holding", "sending", "blocked", "dropping"} => rec[c] = Nobody
        /\ rec[c] # Nobody => rec[c].by = c
        /\ pc[c] = "dropping" => rec[c] \in dropped

LEMMA HandsStep ==
    ASSUME TypeOK, Hands, [Next]_vars
    PROVE  Hands'
<1> USE DEF Hands
<1>0. /\ pc \in [Clients -> {"idle", "holding", "sending", "blocked",
                             "dropping", "flushing", "awaiting"}]
      /\ rec \in [Clients -> Record \cup {Nobody}]
  BY DEF TypeOK, ClientTypes
<1>1. CASE Owner \/ Finished \/ UNCHANGED vars
  <2>1. UNCHANGED <<pc, rec, dropped>>
    BY <1>1 DEF Owner, BeginDrop, SendShutdown, Join, ShutdownTimesOut, Finished,
                vars, clientVars
  <2> QED BY <2>1
<1>2. CASE Worker
  <2>1. UNCHANGED <<pc, rec>> /\ dropped \subseteq dropped'
    BY <1>2 DEF Worker, Receive, FlushInterval, SkipWrite, WriteBatchOk,
       WriteBatchFails, FlushSinkOk, FlushSinkFails, Drain, DrainEnds, clientVars
  <2> QED BY <2>1
<1>3. ASSUME NEW c \in Clients, Client(c) PROVE Hands'
  <2>1. CASE \E s \in Streams : DrawSequence(c, s)
    BY <1>0, <2>1 DEF DrawSequence
  <2>2. CASE RecordGate(c)
    BY <1>0, <2>2 DEF RecordGate
  <2>3. CASE TrySend(c) \/ BlockedSend(c)
    BY <1>0, <2>3 DEF TrySend, BlockedSend, Enqueue, FindDisconnected, FindFull
  <2>4. CASE LedgerPush(c)
    BY <1>0, <2>4 DEF LedgerPush
  <2>5. CASE BeginFlush(c) \/ SendFlush(c) \/ FlushReturns(c) \/ FlushTimesOut(c)
             \/ RequestFlush(c)
    BY <1>0, <2>5 DEF BeginFlush, SendFlush, FlushReturns, FlushTimesOut,
                      RequestFlush, clientVars
  <2> QED BY <1>3, <2>1, <2>2, <2>3, <2>4, <2>5 DEF Client
<1> QED BY <1>1, <1>2, <1>3 DEF Next

\* The messages of the channel, as far as shutdowns go.
LEMMA ShutdownAppend ==
    ASSUME TypeOK, ShutdownIsLast, NEW m \in Message, queue' = Append(queue, m),
           owner \in {"serving", "closing"}
    PROVE  /\ m.kind # "shutdown" => \A i \in DOMAIN queue' : queue'[i].kind # "shutdown"
           /\ \A i \in DOMAIN queue' : queue'[i].kind = "shutdown" => i = Len(queue')
<1>1. queue \in Seq(Message)
  BY DEF TypeOK, ChannelTypes
<1>2. \A i \in DOMAIN queue : queue[i].kind # "shutdown"
  BY DEF ShutdownIsLast
<1>3. /\ DOMAIN queue' = DOMAIN queue \cup {Len(queue) + 1}
      /\ \A i \in DOMAIN queue : queue'[i] = queue[i]
      /\ queue'[Len(queue) + 1] = m /\ Len(queue') = Len(queue) + 1
  BY <1>1
<1> QED BY <1>2, <1>3

LEMMA ShutdownTail ==
    ASSUME TypeOK, ShutdownIsLast, queue # <<>>, queue' = Tail(queue)
    PROVE  /\ owner \in {"serving", "closing"} =>
                /\ Head(queue).kind # "shutdown"
                /\ \A i \in DOMAIN queue' : queue'[i].kind # "shutdown"
           /\ \A i \in DOMAIN queue' : queue'[i].kind = "shutdown" => i = Len(queue')
           /\ Head(queue).kind = "shutdown" => queue' = <<>>
<1>1. queue \in Seq(Message)
  BY DEF TypeOK, ChannelTypes
<1>2. /\ DOMAIN queue = 1 .. Len(queue) /\ Len(queue) \in Nat \ {0}
      /\ DOMAIN queue' = 1 .. (Len(queue) - 1) /\ Len(queue') = Len(queue) - 1
      /\ \A i \in DOMAIN queue' : queue'[i] = queue[i + 1]
      /\ Head(queue) = queue[1]
  BY <1>1
<1>3. owner \in {"serving", "closing"} => \A i \in DOMAIN queue : queue[i].kind # "shutdown"
  BY DEF ShutdownIsLast
<1>4. \A i \in DOMAIN queue : queue[i].kind = "shutdown" => i = Len(queue)
  BY DEF ShutdownIsLast
<1>5. ASSUME NEW i \in DOMAIN queue'
      PROVE  i + 1 \in DOMAIN queue /\ queue'[i] = queue[i + 1]
  BY <1>2
<1>6. Head(queue).kind = "shutdown" => queue' = <<>>
  <2> SUFFICES ASSUME Head(queue).kind = "shutdown" PROVE queue' = <<>>
    OBVIOUS
  <2>1. Len(queue) = 1
    BY <1>2, <1>4
  <2> QED BY <1>1, <2>1
<1>7. \A i \in DOMAIN queue' : queue'[i].kind = "shutdown" => i = Len(queue')
  <2> SUFFICES ASSUME NEW i \in DOMAIN queue', queue'[i].kind = "shutdown"
               PROVE  i = Len(queue')
    OBVIOUS
  <2>1. i + 1 = Len(queue)
    BY <1>4, <1>5
  <2> QED BY <1>2, <2>1
<1>8. owner \in {"serving", "closing"} => /\ Head(queue).kind # "shutdown"
                                        /\ \A i \in DOMAIN queue' : queue'[i].kind # "shutdown"
  BY <1>2, <1>3, <1>5
<1> QED BY <1>6, <1>7, <1>8

LEMMA ShutdownInit == Init => ShutdownIsLast /\ Hands /\ NothingVanishes
BY DEF Init, ShutdownIsLast, Hands, NothingVanishes, NoJob, Job, Seqs

\* A caller that acts does so before the drop.
LEMMA ShutdownClient ==
    ASSUME TypeOK, ShutdownIsLast, NEW c \in Clients, Client(c)
    PROVE  ShutdownIsLast'
<1>1. owner = "serving"
  BY DEF ShutdownIsLast, Client, DrawSequence, RecordGate, TrySend, BlockedSend,
         LedgerPush, BeginFlush, SendFlush, FlushReturns, FlushTimesOut, RequestFlush
<1>2. owner' = owner /\ job'.kind = job.kind /\ (active' => active)
  <2>1. CASE FlushTimesOut(c)
    BY <2>1 DEF FlushTimesOut, TypeOK, WorkerTypes
  <2>2. CASE ~FlushTimesOut(c)
    <3>1. UNCHANGED <<owner, job>>
      BY <2>2 DEF Client, DrawSequence, RecordGate, TrySend, BlockedSend, LedgerPush,
         BeginFlush, SendFlush, FlushReturns, RequestFlush, workerVars
    <3>2. active' => active
      BY <2>2, Zenon DEF Client, DrawSequence, RecordGate, TrySend, BlockedSend,
         LedgerPush, BeginFlush, SendFlush, FlushReturns, RequestFlush, Enqueue,
         FindDisconnected, FindFull
    <3> QED BY <3>1, <3>2
  <2> QED BY <2>1, <2>2
<1>3. \A i \in DOMAIN queue' : queue'[i].kind # "shutdown"
  <2>1. CASE UNCHANGED queue
    BY <1>1, <2>1 DEF ShutdownIsLast
  <2>2. CASE \E m \in Message : m.kind # "shutdown" /\ queue' = Append(queue, m)
    BY <1>1, <2>2, ShutdownAppend
  <2>3. CASE FlushTimesOut(c)
    BY <1>1, <2>3 DEF ShutdownIsLast, FlushTimesOut, FlushMsg
  <2>4. \/ UNCHANGED queue
        \/ FlushTimesOut(c)
        \/ \E m \in Message : m.kind # "shutdown" /\ queue' = Append(queue, m)
    <3>1. CASE (TrySend(c) \/ BlockedSend(c)) /\ Enqueue(c)
      <4>1. rec[c] \in Record
        BY <3>1 DEF TrySend, BlockedSend, TypeOK, ClientTypes
      <4>2. RecordMsg(rec[c]) \in Message /\ RecordMsg(rec[c]).kind # "shutdown"
        BY <4>1, MessageTypes DEF RecordMsg
      <4> QED BY <3>1, <4>2 DEF Enqueue
    <3>2. CASE SendFlush(c) \/ RequestFlush(c)
      <4>1. \A to \in Clients \cup {Nobody} :
              FlushMsg(to) \in Message /\ FlushMsg(to).kind # "shutdown"
        BY MessageTypes DEF FlushMsg
      <4> QED BY <3>2, <4>1, Zenon DEF SendFlush, RequestFlush
    <3>3. CASE ~((TrySend(c) \/ BlockedSend(c)) /\ Enqueue(c)) /\ ~SendFlush(c)
               /\ ~RequestFlush(c) /\ ~FlushTimesOut(c)
      BY <3>3, Zenon DEF Client, DrawSequence, RecordGate, TrySend, BlockedSend, LedgerPush,
         BeginFlush, FlushReturns, FindDisconnected, FindFull
    <3> QED BY <3>1, <3>2, <3>3
  <2> QED BY <2>1, <2>2, <2>3, <2>4
<1> QED
  BY <1>1, <1>2, <1>3 DEF ShutdownIsLast

LEMMA ShutdownOwner ==
    ASSUME TypeOK, ShutdownIsLast, Owner
    PROVE  ShutdownIsLast'
<1>1. UNCHANGED <<pc, job, active>>
  BY DEF Owner, BeginDrop, SendShutdown, Join, ShutdownTimesOut, clientVars, workerVars
<1>2. CASE BeginDrop
  BY <1>1, <1>2 DEF BeginDrop, ShutdownIsLast
<1>3. CASE SendShutdown /\ owner' = "gave up" /\ UNCHANGED queue
  <2>1. owner = "closing" /\ owner' = "gave up" /\ UNCHANGED <<queue, pc, job, active>>
    BY <1>1, <1>3 DEF SendShutdown
  <2> QED BY <2>1 DEF ShutdownIsLast
<1>4. CASE SendShutdown /\ queue' = Append(queue, ShutdownMsg)
  <2>1. owner = "closing" /\ owner' \in {"awaiting", "gave up"}
    BY <1>4 DEF SendShutdown
  <2>2. \A i \in DOMAIN queue' : queue'[i].kind = "shutdown" => i = Len(queue')
    BY <1>4, <2>1, MessageTypes, ShutdownAppend
  <2> QED BY <1>1, <2>1, <2>2 DEF ShutdownIsLast
<1>5. CASE Join \/ ShutdownTimesOut
  BY <1>1, <1>5 DEF Join, ShutdownTimesOut, ShutdownIsLast
<1> QED BY <1>2, <1>3, <1>4, <1>5 DEF Owner, SendShutdown

\* Nothing brings a disabled writer back.
LEMMA ActiveFalls == ASSUME Worker PROVE active' => active
BY Zenon DEF Worker, Receive, FlushInterval, SkipWrite, WriteBatchOk,
   WriteBatchFails, FlushSinkOk, FlushSinkFails, Drain, DrainEnds, SinkFailed

LEMMA ShutdownWorker ==
    ASSUME TypeOK, StopInv, ShutdownIsLast, Worker
    PROVE  ShutdownIsLast'
<1>1. UNCHANGED pc /\ (active' => active)
  <2>1. UNCHANGED pc
    BY DEF Worker, Receive, FlushInterval, SkipWrite, WriteBatchOk,
       WriteBatchFails, FlushSinkOk, FlushSinkFails, Drain, DrainEnds, clientVars
  <2>2. active' => active
    BY ActiveFalls
  <2> QED BY <2>1, <2>2, Zenon
<1>2. CASE Receive
  <2>1. /\ queue # <<>> /\ queue' = Tail(queue) /\ owner' = owner
        /\ job'.kind = Head(queue).kind
    BY <1>2 DEF Receive, Job
  <2>2. Head(queue).kind # "final"
    <3>1. Head(queue) \in Message
      BY <2>1, TailTypes DEF TypeOK, ChannelTypes
    <3> QED BY <3>1 DEF Message
  <2> QED BY <1>1, <2>1, <2>2, ShutdownTail DEF ShutdownIsLast
<1>3. CASE FlushInterval
  BY <1>1, <1>3 DEF FlushInterval, ShutdownIsLast, Job
<1>4. CASE SkipWrite \/ WriteBatchOk \/ WriteBatchFails
  BY <1>1, <1>4 DEF SkipWrite, WriteBatchOk, WriteBatchFails, ShutdownIsLast
<1>5. CASE FlushSinkOk \/ FlushSinkFails
  <2>1. job'.kind = "none"
    BY <1>5 DEF FlushSinkOk, FlushSinkFails, NoJob, Job
  <2>2. PICK outcome : AfterFlush(outcome)
    BY <1>5 DEF FlushSinkOk, FlushSinkFails
  <2>3. queue' = queue \/ queue' = <<>>
    BY <2>2 DEF AfterFlush
  <2>4. owner' = owner \/ (owner = "awaiting" /\ owner' = "answered")
    BY <2>2 DEF AfterFlush
  <2> QED BY <1>1, <2>1, <2>3, <2>4 DEF ShutdownIsLast
<1>6. CASE Drain
  <2>1. /\ queue # <<>> /\ queue' = Tail(queue) /\ UNCHANGED job
        /\ owner' = owner \/ (owner = "awaiting" /\ owner' = "answered")
    BY <1>6 DEF Drain, workerVars
  <2> QED BY <1>1, <2>1, ShutdownTail DEF ShutdownIsLast
<1>7. CASE DrainEnds
  BY <1>1, <1>7 DEF DrainEnds, ShutdownIsLast, Job, StopInv
<1> QED BY <1>2, <1>3, <1>4, <1>5, <1>6, <1>7 DEF Worker

LEMMA ShutdownStep ==
    ASSUME TypeOK, StopInv, ShutdownIsLast, [Next]_vars
    PROVE  ShutdownIsLast'
<1>1. CASE Finished \/ UNCHANGED vars
  <2>1. UNCHANGED <<queue, pc, job, active, owner>>
    BY <1>1 DEF Finished, vars, clientVars, workerVars
  <2> QED BY <2>1 DEF ShutdownIsLast
<1> QED BY <1>1, ShutdownClient, ShutdownOwner, ShutdownWorker DEF Next

-----------------------------------------------------------------------------
\* Where a record may be.
Located == InHand \cup Queued \cup Elements(batch) \cup Elements(sink) \cup dropped

LEMMA VanishKept ==
    ASSUME TypeOK, NothingVanishes, UNCHANGED next,
           active' => active /\ Located \subseteq Located'
    PROVE  NothingVanishes'
BY DEF NothingVanishes, Located

LEMMA VanishClient ==
    ASSUME TypeOK, Hands, NothingVanishes, NEW c \in Clients, Client(c)
    PROVE  NothingVanishes'
<1>0. /\ pc \in [Clients -> {"idle", "holding", "sending", "blocked",
                             "dropping", "flushing", "awaiting"}]
      /\ rec \in [Clients -> Record \cup {Nobody}]
      /\ Nobody \notin Record
  BY NobodyIsNoRecord DEF TypeOK, ClientTypes
<1>1. UNCHANGED <<sink, batch>>
  BY DEF Client, DrawSequence, RecordGate, TrySend, BlockedSend, LedgerPush,
         BeginFlush, SendFlush, FlushReturns, FlushTimesOut, RequestFlush,
         workerVars, sinkVars
<1>2. CASE \E s \in Streams : DrawSequence(c, s)
  <2>1. PICK s \in Streams : DrawSequence(c, s)
    BY <1>2
  <2> DEFINE new == [stream |-> s, seq |-> next[s], by |-> c]
  <2>2. /\ pc[c] = "idle" /\ rec' = [rec EXCEPT ![c] = new]
        /\ next' = [next EXCEPT ![s] = @ + 1]
        /\ next \in [Streams -> 0 .. MaxSeq]
        /\ UNCHANGED <<queue, dropped, active>>
    BY <2>1 DEF DrawSequence, TypeOK, ClientTypes
  <2>3. new \in Record
    BY <2>1 DEF DrawSequence, TypeOK, ClientTypes, Record, Seqs
  <2>4. new.stream = s /\ new.seq = next[s]
    OBVIOUS
  <2> HIDE DEF new
  <2>5. rec[c] = Nobody
    BY <2>2 DEF Hands
  <2>6. Located \cup {new} \subseteq Located'
    <3>1. InHand \cup {new} \subseteq InHand'
      BY <1>0, <2>2, <2>3, <2>5 DEF InHand
    <3> QED BY <1>1, <2>2, <3>1 DEF Located, Queued
  <2>7. ASSUME active', NEW t \in Streams, NEW n \in Seqs, n < next'[t]
        PROVE  \E r \in Located' : r.stream = t /\ r.seq = n
    <3>1. CASE n < next[t]
      <4>1. PICK r \in Located : r.stream = t /\ r.seq = n
        BY <2>2, <2>7, <3>1 DEF NothingVanishes, Located
      <4> QED BY <2>6, <4>1
    <3>2. CASE ~(n < next[t])
      <4>1. t = s /\ n = next[s]
        BY <2>2, <2>7, <3>2 DEF Seqs
      <4> QED BY <2>4, <2>6, <4>1
    <3> QED BY <3>1, <3>2
  <2> QED BY <2>7 DEF NothingVanishes, Located
<1>3. CASE RecordGate(c)
  <2>1. active' => UNCHANGED <<queue, dropped, rec>> /\ active
    BY <1>3, Zenon DEF RecordGate
  <2>2. active' => active /\ Located \subseteq Located'
    BY <1>1, <2>1 DEF Located, Queued, InHand
  <2>3. UNCHANGED next
    BY <1>3 DEF RecordGate
  <2> QED BY <2>2, <2>3, VanishKept
<1>4. CASE TrySend(c) \/ BlockedSend(c)
  <2>0. UNCHANGED next /\ rec[c] \in Record /\ pc[c] \in {"sending", "blocked"}
    BY <1>4 DEF TrySend, BlockedSend, TypeOK, ClientTypes
  <2>1. CASE Enqueue(c)
    <3>1. /\ queue' = Append(queue, RecordMsg(rec[c])) /\ UNCHANGED <<active, dropped>>
          /\ rec' = [rec EXCEPT ![c] = Nobody]
      BY <2>1 DEF Enqueue
    <3>2. /\ RecordMsg(rec[c]) \in Message /\ RecordMsg(rec[c]).kind = "record"
          /\ RecordMsg(rec[c]).rec = rec[c]
      BY <2>0, MessageTypes DEF RecordMsg
    <3>3. Queued \cup {rec[c]} \subseteq Queued'
      BY <3>1, <3>2, QueuedAppend
    <3>4. InHand \subseteq InHand' \cup {rec[c]}
      BY <1>0, <3>1 DEF InHand
    <3>5. Located \subseteq Located'
      BY <1>1, <3>1, <3>3, <3>4 DEF Located
    <3> QED BY <2>0, <3>1, <3>5, VanishKept
  <2>2. CASE FindDisconnected(c)
    <3>1. ~active'
      BY <2>2, Zenon DEF FindDisconnected
    <3> QED BY <2>0, <3>1, VanishKept
  <2>3. CASE FindFull(c)
    <3>1. UNCHANGED <<queue, active, rec>> /\ dropped \subseteq dropped'
      BY <2>3 DEF FindFull
    <3>2. Located \subseteq Located'
      BY <1>1, <3>1 DEF Located, Queued, InHand
    <3> QED BY <2>0, <3>1, <3>2, VanishKept
  <2> QED BY <1>4, <2>1, <2>2, <2>3 DEF TrySend, BlockedSend
<1>5. CASE LedgerPush(c)
  <2>1. /\ UNCHANGED <<queue, active, next, dropped>> /\ pc[c] = "dropping"
        /\ rec' = [rec EXCEPT ![c] = Nobody]
    BY <1>5 DEF LedgerPush
  <2>2. rec[c] \in dropped /\ InHand \subseteq InHand' \cup {rec[c]}
    BY <1>0, <2>1 DEF InHand, Hands
  <2>3. Located \subseteq Located'
    BY <1>1, <2>1, <2>2 DEF Located, Queued
  <2> QED BY <2>1, <2>3, VanishKept
<1>6. CASE BeginFlush(c) \/ SendFlush(c) \/ FlushReturns(c) \/ FlushTimesOut(c)
           \/ RequestFlush(c)
  <2>1. UNCHANGED <<active, next, dropped, rec>>
    BY <1>6 DEF BeginFlush, SendFlush, FlushReturns, FlushTimesOut, RequestFlush,
                clientVars
  <2>2. Queued \subseteq Queued'
    <3>1. CASE UNCHANGED queue
      BY <3>1 DEF Queued
    <3>2. CASE SendFlush(c) \/ RequestFlush(c)
      <4>1. \E to \in Clients \cup {Nobody} : queue' = Append(queue, FlushMsg(to))
              \/ UNCHANGED queue
        BY <3>2, Zenon DEF SendFlush, RequestFlush
      <4> QED BY <3>1, <4>1, MessageTypes, QueuedAppend
    <3>3. CASE FlushTimesOut(c)
      <4>1. \A i \in DOMAIN queue : queue[i].kind = "record" =>
              i \in DOMAIN queue' /\ queue'[i] = queue[i]
        BY <3>3 DEF FlushTimesOut, FlushMsg
      <4> QED BY <4>1 DEF Queued
    <3> QED BY <1>6, <3>1, <3>2, <3>3 DEF BeginFlush, FlushReturns
  <2>3. Located \subseteq Located'
    BY <1>1, <2>1, <2>2 DEF Located, InHand
  <2> QED BY <2>1, <2>3, VanishKept
<1> QED BY <1>2, <1>3, <1>4, <1>5, <1>6 DEF Client

LEMMA VanishWorker ==
    ASSUME TypeOK, StopInv, ShutdownIsLast, NothingVanishes, Worker
    PROVE  NothingVanishes'
<1>1. UNCHANGED <<rec, next>> /\ (active' => active)
  <2>1. UNCHANGED <<rec, next>>
    BY DEF Worker, Receive, FlushInterval, SkipWrite, WriteBatchOk,
       WriteBatchFails, FlushSinkOk, FlushSinkFails, Drain, DrainEnds, clientVars
  <2> QED BY <2>1, ActiveFalls, Zenon
<1>2. InHand' = InHand
  BY <1>1 DEF InHand
<1>3. batch \in Seq(Record) /\ sink \in Seq(Record) /\ queue \in Seq(Message)
  BY DEF TypeOK, WorkerTypes, SinkTypes, ChannelTypes
<1>4. CASE Receive
  <2>1. /\ queue # <<>> /\ queue' = Tail(queue) /\ UNCHANGED <<sink, dropped>>
        /\ \/ /\ Head(queue).kind = "record"
              /\ batch' = Append(batch, Head(queue).rec)
           \/ /\ Head(queue).kind # "record" /\ batch' = batch
    BY <1>4 DEF Receive, sinkVars
  <2>2. Head(queue).kind = "record" => Head(queue).rec \in Record
    BY <1>3, <2>1, TailTypes, MessageTypes DEF TypeOK, ChannelTypes
  <2>3. /\ Elements(batch) \subseteq Elements(batch')
        /\ Head(queue).kind = "record" => Head(queue).rec \in Elements(batch')
    <3>1. CASE Head(queue).kind = "record"
      <4> DEFINE r == Head(queue).rec
      <4>1. r \in Record /\ batch' = Append(batch, r)
        BY <2>1, <2>2, <3>1
      <4> HIDE DEF r
      <4>2. Elements(Append(batch, r)) = Elements(batch) \cup {r}
        BY <1>3, <4>1, ElementsGrow
      <4>3. Elements(batch') = Elements(batch) \cup {r}
        BY <4>1, <4>2
      <4> QED BY <4>3 DEF r
    <3>2. CASE Head(queue).kind # "record"
      BY <2>1, <3>2
    <3> QED BY <3>1, <3>2
  <2>4. Queued \subseteq Queued' \cup Elements(batch')
    BY <2>1, <2>3, QueuedTail
  <2>5. Located \subseteq Located'
    BY <1>2, <2>1, <2>3, <2>4 DEF Located
  <2> QED BY <1>1, <2>5, VanishKept
<1>5. CASE WriteBatchOk
  <2>1. /\ sink' = sink \o batch /\ UNCHANGED <<queue, dropped>>
    BY <1>5 DEF WriteBatchOk
  <2>2. Elements(sink') = Elements(sink) \cup Elements(batch)
    BY <1>3, <2>1, ElementsGrow
  <2>3. Located \subseteq Located'
    BY <1>2, <2>1, <2>2 DEF Located, Queued
  <2> QED BY <1>1, <2>3, VanishKept
<1>6. CASE WriteBatchFails
  <2>1. dropped' = dropped \cup Elements(batch) /\ UNCHANGED <<queue, sink>>
    BY <1>6 DEF WriteBatchFails, sinkVars
  <2>2. Located \subseteq Located'
    BY <1>2, <2>1 DEF Located, Queued
  <2> QED BY <1>1, <2>2, VanishKept
<1>7. CASE FlushSinkOk \/ FlushSinkFails
  <2>1. UNCHANGED <<batch, sink, dropped>>
    BY <1>7 DEF FlushSinkOk, FlushSinkFails
  <2>2. PICK outcome : AfterFlush(outcome)
    BY <1>7 DEF FlushSinkOk, FlushSinkFails
  <2>3. active' => UNCHANGED queue
    BY <1>1, <2>2 DEF AfterFlush, ShutdownIsLast
  <2>4. active' => active /\ Located \subseteq Located'
    BY <1>1, <1>2, <2>1, <2>3 DEF Located, Queued
  <2> QED BY <1>1, <2>4, VanishKept
<1>8. CASE Drain
  <2>1. ~active'
    BY <1>1, <1>8, Zenon DEF Drain, StopInv
  <2> QED BY <1>1, <2>1, VanishKept
<1>9. CASE FlushInterval \/ SkipWrite \/ DrainEnds
  <2>1. UNCHANGED <<queue, batch, sink, dropped>>
    BY <1>9 DEF FlushInterval, SkipWrite, DrainEnds, sinkVars
  <2>2. Located \subseteq Located'
    BY <1>2, <2>1 DEF Located, Queued
  <2> QED BY <1>1, <2>2, VanishKept
<1> QED BY <1>4, <1>5, <1>6, <1>7, <1>8, <1>9 DEF Worker

LEMMA VanishStep ==
    ASSUME TypeOK, StopInv, ShutdownIsLast, Hands, NothingVanishes, [Next]_vars
    PROVE  NothingVanishes'
<1>1. CASE Owner \/ Finished \/ UNCHANGED vars
  <2>1. UNCHANGED <<rec, next, batch, sink, dropped, active>>
    BY <1>1 DEF Owner, BeginDrop, SendShutdown, Join, ShutdownTimesOut, Finished,
                vars, clientVars, workerVars, sinkVars
  <2>2. Queued \subseteq Queued'
    <3>1. queue' = queue \/ queue' = Append(queue, ShutdownMsg)
      BY <1>1 DEF Owner, BeginDrop, SendShutdown, Join, ShutdownTimesOut, Finished, vars
    <3> QED BY <3>1, MessageTypes, QueuedAppend DEF Queued
  <2>3. Located \subseteq Located'
    BY <2>1, <2>2 DEF Located, InHand
  <2> QED BY <2>1, <2>3, VanishKept
<1> QED BY <1>1, VanishClient, VanishWorker DEF Next

\* record(), write_batch: a live writer loses nothing without saying so.
THEOREM NothingLost == Spec => []NothingVanishes
<1>1. TypeOK /\ StopInv /\ ShutdownIsLast /\ Hands /\ NothingVanishes /\ [Next]_vars
        => (TypeOK /\ StopInv /\ ShutdownIsLast /\ Hands /\ NothingVanishes)'
  BY TypeStep, StopStep, ShutdownStep, HandsStep, VanishStep
<1> QED
  BY TypeInit, StopInit, ShutdownInit, <1>1, PTL DEF Spec
-----------------------------------------------------------------------------
(* A flush that says ok has settled what its caller handed over.  The      *)
(* channel is in order and a caller that waits for its answer hands nothing*)
(* over, so behind its message and in the job that answers it there is no  *)
(* record of its own.                                                      *)

From(m, d)   == m.kind = "record" /\ m.rec.by = d
NoneOf(d)    == \A i \in DOMAIN queue : ~From(queue[i], d)
Addressed(d) == \E i \in DOMAIN queue : queue[i] = FlushMsg(d)
InOrder(d)   == \A i, j \in DOMAIN queue : queue[i] = FlushMsg(d) /\ j # i =>
                    queue[j] # FlushMsg(d) /\ (j > i => ~From(queue[j], d))
Waiting(d)   == pc[d] = "awaiting" /\ reply[d] = "none"

Settled(d) ==
    /\ NoneOf(d)
    /\ \A i \in DOMAIN batch : batch[i].by # d
    /\ \A i \in DOMAIN sink : i > durable => sink[i].by # d

Answers(d) ==
    job.to = d => /\ Waiting(d) /\ NoneOf(d)
                  /\ job.kind = "flush" /\ wpc \in {"write", "flush"}
                  /\ wpc = "flush" => batch = <<>>

FlushInv ==
    \A d \in Clients :
        /\ Addressed(d) => Waiting(d) /\ job.to # d
        /\ InOrder(d)
        /\ Answers(d)
        /\ reply[d] # "none" => pc[d] = "awaiting"
        /\ active /\ reply[d] = "ok" => Settled(d)

LEMMA FlushAppend ==
    ASSUME TypeOK, NEW d \in Clients, InOrder(d),
           NEW m \in Message, queue' = Append(queue, m),
           m = FlushMsg(d) \/ From(m, d) => ~Addressed(d)
    PROVE  /\ InOrder(d)'
           /\ Addressed(d)' => Addressed(d) \/ m = FlushMsg(d)
           /\ NoneOf(d) /\ ~From(m, d) => NoneOf(d)'
<1>1. queue \in Seq(Message)
  BY DEF TypeOK, ChannelTypes
<1>2. /\ DOMAIN queue' = DOMAIN queue \cup {Len(queue) + 1}
      /\ DOMAIN queue = 1 .. Len(queue) /\ Len(queue) \in Nat
      /\ \A i \in DOMAIN queue : queue'[i] = queue[i]
      /\ queue'[Len(queue) + 1] = m
  BY <1>1
<1>3. Addressed(d)' => Addressed(d) \/ m = FlushMsg(d)
  BY <1>2 DEF Addressed
<1>4. NoneOf(d) /\ ~From(m, d) => NoneOf(d)'
  BY <1>2 DEF NoneOf
<1>5. InOrder(d)'
  <2> SUFFICES ASSUME NEW i \in DOMAIN queue', NEW j \in DOMAIN queue',
                      queue'[i] = FlushMsg(d), j # i
               PROVE  queue'[j] # FlushMsg(d) /\ (j > i => ~From(queue'[j], d))
    BY DEF InOrder
  <2>1. CASE i \in DOMAIN queue /\ j \in DOMAIN queue
    BY <1>2, <2>1 DEF InOrder
  <2>2. CASE i \in DOMAIN queue /\ j = Len(queue) + 1
    <3>1. queue[i] = FlushMsg(d) /\ queue'[j] = m
      BY <1>2, <2>2
    <3>2. Addressed(d)
      BY <2>2, <3>1 DEF Addressed
    <3> QED BY <3>1, <3>2
  <2>3. CASE i = Len(queue) + 1
    <3>1. m = FlushMsg(d) /\ j \in DOMAIN queue /\ queue'[j] = queue[j] /\ ~(j > i)
      BY <1>2, <2>3
    <3>2. queue[j] # FlushMsg(d)
      BY <3>1 DEF Addressed
    <3> QED BY <3>1, <3>2
  <2> QED BY <1>2, <2>1, <2>2, <2>3
<1> QED BY <1>3, <1>4, <1>5

LEMMA FlushTail ==
    ASSUME TypeOK, NEW d \in Clients, InOrder(d),
           queue # <<>>, queue' = Tail(queue)
    PROVE  /\ InOrder(d)'
           /\ Addressed(d)' => Addressed(d) /\ Head(queue) # FlushMsg(d)
           /\ NoneOf(d) => NoneOf(d)' /\ ~From(Head(queue), d)
           /\ Head(queue) = FlushMsg(d) => Addressed(d) /\ NoneOf(d)'
<1>1. queue \in Seq(Message)
  BY DEF TypeOK, ChannelTypes
<1>2. /\ DOMAIN queue = 1 .. Len(queue) /\ Len(queue) \in Nat \ {0}
      /\ DOMAIN queue' = 1 .. (Len(queue) - 1)
      /\ Head(queue) = queue[1] /\ 1 \in DOMAIN queue
  BY <1>1
<1>3. ASSUME NEW i \in DOMAIN queue'
      PROVE  /\ i \in Nat \ {0} /\ i + 1 \in DOMAIN queue /\ queue'[i] = queue[i + 1]
  BY <1>1, <1>2
<1>4. InOrder(d)'
  <2> SUFFICES ASSUME NEW i \in DOMAIN queue', NEW j \in DOMAIN queue',
                      queue'[i] = FlushMsg(d), j # i
               PROVE  queue'[j] # FlushMsg(d) /\ (j > i => ~From(queue'[j], d))
    BY DEF InOrder
  <2>1. /\ i + 1 \in DOMAIN queue /\ j + 1 \in DOMAIN queue /\ j + 1 # i + 1
        /\ queue[i + 1] = FlushMsg(d) /\ queue'[j] = queue[j + 1]
        /\ j > i => j + 1 > i + 1
    BY <1>3
  <2> QED BY <2>1 DEF InOrder
<1>5. ASSUME NEW i \in DOMAIN queue', Head(queue) = FlushMsg(d)
      PROVE  queue'[i] # FlushMsg(d) /\ ~From(queue'[i], d)
  <2>1. /\ i + 1 \in DOMAIN queue /\ i + 1 # 1 /\ i + 1 > 1 /\ queue'[i] = queue[i + 1]
        /\ queue[1] = FlushMsg(d)
    BY <1>2, <1>3, <1>5
  <2> QED BY <1>2, <2>1 DEF InOrder
<1>6. Addressed(d)' => Addressed(d) /\ Head(queue) # FlushMsg(d)
  BY <1>3, <1>5 DEF Addressed
<1>7. NoneOf(d) => NoneOf(d)' /\ ~From(Head(queue), d)
  BY <1>2, <1>3 DEF NoneOf
<1>8. Head(queue) = FlushMsg(d) => Addressed(d) /\ NoneOf(d)'
  BY <1>2, <1>5 DEF Addressed, NoneOf
<1> QED BY <1>4, <1>6, <1>7, <1>8

\* The queue's part of a state in which the channel is as it was.
LEMMA FlushSame ==
    ASSUME UNCHANGED queue, NEW d
    PROVE  /\ InOrder(d) => InOrder(d)' 
           /\ Addressed(d)' => Addressed(d)
           /\ NoneOf(d) => NoneOf(d)'
BY DEF InOrder, Addressed, NoneOf

\* Which message is whose.
LEMMA FlushMsgs ==
    /\ \A a, b : FlushMsg(a) = FlushMsg(b) => a = b
    /\ \A a, d : ~From(FlushMsg(a), d)
    /\ \A d : ~From(ShutdownMsg, d) /\ ShutdownMsg # FlushMsg(d)
    /\ \A r, d : /\ RecordMsg(r) # FlushMsg(d)
                 /\ From(RecordMsg(r), d) <=> r.by = d
    /\ \A m \in Message : m.kind = "flush" => m = FlushMsg(m.to)
<1>1. \A a : FlushMsg(a).kind = "flush" /\ FlushMsg(a).to = a
  BY DEF FlushMsg
<1>2. ShutdownMsg.kind = "shutdown" /\ \A r : RecordMsg(r).kind = "record" /\ RecordMsg(r).rec = r
  BY DEF ShutdownMsg, RecordMsg
<1>3. \A m \in Message : m.kind = "flush" => m = FlushMsg(m.to)
  BY DEF Message, FlushMsg
<1>4. \A a, b : FlushMsg(a) = FlushMsg(b) => a = b
  BY <1>1, Zenon
<1>5. \A a, d : ~From(FlushMsg(a), d)
  BY <1>1 DEF From
<1>6. \A d : ~From(ShutdownMsg, d) /\ ShutdownMsg # FlushMsg(d)
  BY <1>1, <1>2 DEF From
<1>7. \A r, d : /\ RecordMsg(r) # FlushMsg(d)
                /\ From(RecordMsg(r), d) <=> r.by = d
  BY <1>1, <1>2 DEF From
<1> QED BY <1>3, <1>4, <1>5, <1>6, <1>7

LEMMA FlushInit == Init => FlushInv
BY DEF Init, FlushInv, InOrder, Addressed, Answers, NoJob, Job

\* A caller that waits hands nothing over; what another hands over is its own.
LEMMA FlushClient ==
    ASSUME TypeOK, Hands, FlushInv, NEW c \in Clients, Client(c)
    PROVE  FlushInv'
<1>0. /\ pc \in [Clients -> {"idle", "holding", "sending", "blocked",
                             "dropping", "flushing", "awaiting"}]
      /\ reply \in [Clients -> {"none", "ok", "err"}]
      /\ Nobody \notin Record /\ Nobody \notin Clients
  BY NobodyIsNoRecord DEF TypeOK, ClientTypes, ChannelTypes
<1>1. UNCHANGED <<sink, batch, durable, wpc>>
  BY DEF Client, DrawSequence, RecordGate, TrySend, BlockedSend, LedgerPush,
         BeginFlush, SendFlush, FlushReturns, FlushTimesOut, RequestFlush,
         workerVars, sinkVars
<1>2. active' => active
  BY Zenon DEF Client, DrawSequence, RecordGate, TrySend, BlockedSend, LedgerPush,
         BeginFlush, SendFlush, FlushReturns, FlushTimesOut, RequestFlush,
         Enqueue, FindDisconnected, FindFull
<1>3. SUFFICES ASSUME NEW d \in Clients
               PROVE  /\ Addressed(d)' => Waiting(d)' /\ job'.to # d
                      /\ InOrder(d)'
                      /\ Answers(d)'
                      /\ reply'[d] # "none" => pc'[d] = "awaiting"
                      /\ active' /\ reply'[d] = "ok" => Settled(d)'
  BY DEF FlushInv
<1>4. /\ Addressed(d) => Waiting(d) /\ job.to # d
      /\ InOrder(d) /\ Answers(d)
      /\ reply[d] # "none" => pc[d] = "awaiting"
      /\ active /\ reply[d] = "ok" => Settled(d)
  BY DEF FlushInv
<1>5. CASE /\ UNCHANGED <<queue, job, reply>>
           /\ d = c => pc[c] # "awaiting" /\ pc'[c] # "awaiting"
           /\ d # c => pc'[d] = pc[d]
  BY <1>1, <1>2, <1>4, <1>5, FlushSame DEF Waiting, Answers, Settled
<1>6. CASE \/ \E s \in Streams : DrawSequence(c, s)
           \/ RecordGate(c) \/ LedgerPush(c)
  <2>1. /\ UNCHANGED <<queue, job, reply>>
        /\ \E to \in {"holding", "sending", "idle"} : pc' = [pc EXCEPT ![c] = to]
        /\ pc[c] \in {"idle", "holding", "dropping"}
    BY <1>6 DEF DrawSequence, RecordGate, LedgerPush, workerVars
  <2> QED BY <1>0, <1>5, <2>1
<1>7. CASE BeginFlush(c)
  <2>1. /\ UNCHANGED <<queue, job, reply>>
        /\ pc' = [pc EXCEPT ![c] = "flushing"] /\ pc[c] = "idle"
    BY <1>7 DEF BeginFlush, workerVars
  <2> QED BY <1>0, <1>5, <2>1
<1>8. CASE TrySend(c) \/ BlockedSend(c)
  <2>0. UNCHANGED <<job, reply>> /\ pc[c] \in {"sending", "blocked"}
    BY <1>8 DEF TrySend, BlockedSend, workerVars
  <2>1. CASE FindDisconnected(c) \/ FindFull(c)
    <3>1. /\ UNCHANGED queue
          /\ \E to \in {"idle", "blocked", "dropping"} : pc' = [pc EXCEPT ![c] = to]
      BY <2>1, Zenon DEF FindDisconnected, FindFull
    <3> QED BY <1>0, <1>5, <2>0, <3>1
  <2>2. CASE Enqueue(c)
    <3>1. /\ queue' = Append(queue, RecordMsg(rec[c]))
          /\ pc' = [pc EXCEPT ![c] = "idle"]
          /\ rec[c] \in Record
      BY <2>0, <2>2 DEF Enqueue, TypeOK, ClientTypes
    <3>2. rec[c].by = c
      BY <1>0, <3>1 DEF Hands
    <3>3. RecordMsg(rec[c]) \in Message
      BY <3>1, MessageTypes
    <3>4. /\ RecordMsg(rec[c]) # FlushMsg(d)
          /\ From(RecordMsg(rec[c]), d) => d = c
      BY <3>2, FlushMsgs
    <3>5. d = c => ~Addressed(d) /\ reply[d] = "none" /\ job.to # d
      BY <1>0, <1>4, <2>0 DEF Waiting, Answers
    <3>6. /\ InOrder(d)'
          /\ Addressed(d)' => Addressed(d)
          /\ NoneOf(d) /\ d # c => NoneOf(d)'
      BY <1>4, <3>1, <3>3, <3>4, <3>5, FlushAppend
    <3>7. d # c => pc'[d] = pc[d]
      BY <1>0, <3>1
    <3> QED
      BY <1>1, <1>2, <1>4, <2>0, <3>5, <3>6, <3>7 DEF Waiting, Answers, Settled
  <2> QED BY <1>8, <2>1, <2>2 DEF TrySend, BlockedSend
<1>9. CASE SendFlush(c)
  <2>0. UNCHANGED <<job, reply>> /\ pc[c] = "flushing"
    BY <1>9 DEF SendFlush, workerVars
  <2>1. CASE UNCHANGED queue /\ pc' = [pc EXCEPT ![c] = "idle"]
    BY <1>0, <1>5, <2>0, <2>1
  <2>2. CASE queue' = Append(queue, FlushMsg(c)) /\ pc' = [pc EXCEPT ![c] = "awaiting"]
    <3>1. FlushMsg(c) \in Message /\ ~From(FlushMsg(c), d)
          /\ (FlushMsg(c) = FlushMsg(d) => d = c)
      BY MessageTypes, FlushMsgs
    <3>2. d = c => ~Addressed(d) /\ reply[d] = "none" /\ job.to # d
      BY <1>0, <1>4, <2>0 DEF Waiting, Answers
    <3>3. /\ InOrder(d)'
          /\ Addressed(d)' => Addressed(d) \/ d = c
          /\ NoneOf(d) => NoneOf(d)'
      BY <1>4, <2>2, <3>1, <3>2, FlushAppend
    <3>4. /\ d # c => pc'[d] = pc[d]
          /\ d = c => pc'[d] = "awaiting"
      BY <1>0, <2>2
    <3> QED
      BY <1>1, <1>2, <1>4, <2>0, <3>2, <3>3, <3>4 DEF Waiting, Answers, Settled
  <2> QED BY <1>9, <2>1, <2>2, Zenon DEF SendFlush
<1>10. CASE FlushReturns(c)
  <2>1. /\ UNCHANGED <<queue, job>>
        /\ pc' = [pc EXCEPT ![c] = "idle"] /\ reply' = [reply EXCEPT ![c] = "none"]
        /\ reply[c] # "none"
    BY <1>10 DEF FlushReturns, workerVars
  <2>2. d = c => ~Addressed(d) /\ job.to # d
    BY <1>4, <2>1 DEF Waiting, Answers
  <2>3. /\ d # c => pc'[d] = pc[d] /\ reply'[d] = reply[d]
        /\ d = c => reply'[d] = "none"
    BY <1>0, <2>1
  <2>4. /\ InOrder(d)'
        /\ Addressed(d)' => Addressed(d)
        /\ NoneOf(d) => NoneOf(d)'
    BY <1>4, <2>1, FlushSame
  <2> QED
    BY <1>1, <1>2, <1>4, <2>1, <2>2, <2>3, <2>4 DEF Waiting, Answers, Settled
<1>11. CASE FlushTimesOut(c)
  <2>1. /\ UNCHANGED reply /\ reply[c] = "none"
        /\ pc' = [pc EXCEPT ![c] = "idle"]
        /\ queue' = [i \in DOMAIN queue |->
                      IF queue[i] = FlushMsg(c) THEN FlushMsg(Nobody) ELSE queue[i]]
        /\ job' = IF job.to = c THEN [job EXCEPT !.to = Nobody] ELSE job
    BY <1>11 DEF FlushTimesOut
  <2>2. /\ job'.kind = job.kind
        /\ job'.to = IF job.to = c THEN Nobody ELSE job.to
    BY <2>1 DEF TypeOK, WorkerTypes
  <2>3. /\ d # c => pc'[d] = pc[d]
        /\ d = c => pc'[d] = "idle"
    BY <1>0, <2>1
  <2>4. DOMAIN queue' = DOMAIN queue
    BY <2>1
  <2>5. \A i \in DOMAIN queue :
          /\ queue'[i] = FlushMsg(d) <=> d # c /\ queue[i] = FlushMsg(d)
          /\ From(queue'[i], d) <=> From(queue[i], d)
    BY <1>0, <2>1, FlushMsgs
  <2>6. /\ InOrder(d)'
        /\ Addressed(d)' => Addressed(d) /\ d # c
        /\ NoneOf(d) => NoneOf(d)'
    BY <1>4, <2>4, <2>5 DEF InOrder, Addressed, NoneOf
  <2> QED
    BY <1>0, <1>1, <1>2, <1>4, <2>1, <2>2, <2>3, <2>6 DEF Waiting, Answers, Settled
<1>12. CASE RequestFlush(c)
  <2>1. UNCHANGED <<job, reply, pc>> /\ queue' = Append(queue, FlushMsg(Nobody))
    BY <1>12 DEF RequestFlush, workerVars, clientVars
  <2>2. /\ FlushMsg(Nobody) \in Message /\ ~From(FlushMsg(Nobody), d)
        /\ FlushMsg(Nobody) # FlushMsg(d)
    BY <1>0, MessageTypes, FlushMsgs
  <2>3. /\ InOrder(d)'
        /\ Addressed(d)' => Addressed(d)
        /\ NoneOf(d) => NoneOf(d)'
    BY <1>4, <2>1, <2>2, FlushAppend
  <2> QED
    BY <1>1, <1>2, <1>4, <2>1, <2>3 DEF Waiting, Answers, Settled
<1> QED
  BY <1>6, <1>7, <1>8, <1>9, <1>10, <1>11, <1>12 DEF Client

LEMMA FlushOwner ==
    ASSUME TypeOK, FlushInv, Owner
    PROVE  FlushInv'
<1>1. UNCHANGED <<pc, job, reply, active, batch, sink, durable, wpc>>
  BY DEF Owner, BeginDrop, SendShutdown, Join, ShutdownTimesOut, clientVars,
         workerVars, sinkVars
<1>2. queue' = queue \/ queue' = Append(queue, ShutdownMsg)
  BY DEF Owner, BeginDrop, SendShutdown, Join, ShutdownTimesOut
<1>3. ASSUME NEW d \in Clients
      PROVE  /\ InOrder(d)'
             /\ Addressed(d)' => Addressed(d)
             /\ NoneOf(d) => NoneOf(d)'
  <2>1. InOrder(d)
    BY DEF FlushInv
  <2>2. ShutdownMsg \in Message /\ ~From(ShutdownMsg, d) /\ ShutdownMsg # FlushMsg(d)
    BY MessageTypes, FlushMsgs
  <2> QED BY <1>2, <2>1, <2>2, FlushAppend, FlushSame
<1> QED
  BY <1>1, <1>3 DEF FlushInv, Waiting, Answers, Settled

LEMMA FlushWorker ==
    ASSUME TypeOK, StopInv, FlushInv, Worker
    PROVE  FlushInv'
<1>0. /\ batch \in Seq(Record) /\ sink \in Seq(Record) /\ durable \in Nat
      /\ queue \in Seq(Message) /\ Nobody \notin Clients
  BY DEF TypeOK, WorkerTypes, SinkTypes, ChannelTypes
<1>1. UNCHANGED pc /\ (active' => active)
  <2>1. UNCHANGED pc
    BY DEF Worker, Receive, FlushInterval, SkipWrite, WriteBatchOk,
       WriteBatchFails, FlushSinkOk, FlushSinkFails, Drain, DrainEnds, clientVars
  <2> QED BY <2>1, ActiveFalls, Zenon
<1>2. SUFFICES ASSUME NEW d \in Clients
               PROVE  /\ Addressed(d)' => Waiting(d)' /\ job'.to # d
                      /\ InOrder(d)'
                      /\ Answers(d)'
                      /\ reply'[d] # "none" => pc'[d] = "awaiting"
                      /\ active' /\ reply'[d] = "ok" => Settled(d)'
  BY DEF FlushInv
<1>3. /\ Addressed(d) => Waiting(d) /\ job.to # d
      /\ InOrder(d) /\ Answers(d)
      /\ reply[d] # "none" => pc[d] = "awaiting"
      /\ active /\ reply[d] = "ok" => Settled(d)
  BY DEF FlushInv
<1>4. CASE Receive
  <2>1. /\ queue # <<>> /\ queue' = Tail(queue) /\ wpc = "receive"
        /\ UNCHANGED <<sink, durable, reply>>
    BY <1>4 DEF Receive, sinkVars
  <2>2. /\ InOrder(d)'
        /\ Addressed(d)' => Addressed(d) /\ Head(queue) # FlushMsg(d)
        /\ NoneOf(d) => NoneOf(d)' /\ ~From(Head(queue), d)
        /\ Head(queue) = FlushMsg(d) => Addressed(d) /\ NoneOf(d)'
    BY <1>3, <2>1, FlushTail
  <2>3. Head(queue) \in Message
    BY <1>0, <2>1, TailTypes DEF TypeOK, ChannelTypes
  <2>4. /\ job'.to = d => /\ Head(queue) = FlushMsg(d)
                          /\ job'.kind = "flush" /\ wpc' = "write"
    <3>1. CASE Head(queue).kind = "flush"
      <4>1. job' = [kind |-> "flush", to |-> Head(queue).to] /\ wpc' = "write"
        BY <1>4, <3>1 DEF Receive
      <4> QED BY <2>3, <3>1, <4>1, FlushMsgs
    <3>2. CASE Head(queue).kind # "flush"
      <4>1. job'.to = Nobody
        BY <1>4, <3>2 DEF Receive, Job
      <4> QED BY <1>0, <4>1
    <3> QED BY <3>1, <3>2
  <2>5. Settled(d) => Settled(d)'
    <3>1. CASE Head(queue).kind = "record"
      <4> DEFINE r == Head(queue).rec
      <4>1. batch' = Append(batch, r) /\ r \in Record
        BY <1>4, <2>3, <3>1, MessageTypes DEF Receive
      <4>2. NoneOf(d) => r.by # d
        BY <2>2, <3>1 DEF From
      <4> HIDE DEF r
      <4>3. /\ DOMAIN batch' = DOMAIN batch \cup {Len(batch) + 1}
            /\ \A i \in DOMAIN batch : batch'[i] = batch[i]
            /\ batch'[Len(batch) + 1] = r
        BY <1>0, <4>1
      <4> QED BY <2>1, <2>2, <4>2, <4>3 DEF Settled
    <3>2. CASE Head(queue).kind # "record"
      <4>1. UNCHANGED batch
        BY <1>4, <3>2 DEF Receive
      <4> QED BY <2>1, <2>2, <4>1 DEF Settled
    <3> QED BY <3>1, <3>2
  <2> QED
    BY <1>1, <1>3, <2>1, <2>2, <2>4, <2>5 DEF Waiting, Answers
<1>5. CASE FlushInterval \/ DrainEnds
  <2>1. /\ UNCHANGED <<queue, reply, batch, sink, durable>> /\ job'.to = Nobody
    BY <1>5 DEF FlushInterval, DrainEnds, Job, sinkVars
  <2> QED
    BY <1>0, <1>1, <1>3, <2>1, FlushSame DEF Waiting, Answers, Settled
<1>6. CASE SkipWrite \/ WriteBatchOk \/ WriteBatchFails
  <2>1. /\ UNCHANGED <<queue, job, reply, durable>> /\ wpc = "write"
        /\ batch' = <<>>
        /\ \E outcome : wpc' = AfterWrite(outcome)
        /\ sink' = sink \/ sink' = sink \o batch
    BY <1>6 DEF SkipWrite, WriteBatchOk, WriteBatchFails, sinkVars
  <2>2. job.kind = "flush" => wpc' = "flush"
    BY <2>1 DEF AfterWrite
  <2>3. Settled(d) => Settled(d)'
    <3> SUFFICES ASSUME Settled(d) PROVE Settled(d)'
      OBVIOUS
    <3>1. NoneOf(d)' /\ \A i \in DOMAIN batch' : batch'[i].by # d
      BY <2>1, FlushSame DEF Settled
    <3>2. ASSUME NEW i \in DOMAIN sink', i > durable'
          PROVE  sink'[i].by # d
      <4>1. CASE i \in DOMAIN sink /\ sink'[i] = sink[i]
        BY <2>1, <3>2, <4>1 DEF Settled
      <4>2. CASE i - Len(sink) \in DOMAIN batch /\ sink'[i] = batch[i - Len(sink)]
        BY <4>2 DEF Settled
      <4>3. \/ i \in DOMAIN sink /\ sink'[i] = sink[i]
            \/ i - Len(sink) \in DOMAIN batch /\ sink'[i] = batch[i - Len(sink)]
        <5>1. CASE sink' = sink
          BY <5>1
        <5>2. CASE sink' = sink \o batch
          BY <1>0, <5>2
        <5> QED BY <2>1, <5>1, <5>2
      <4> QED BY <4>1, <4>2, <4>3
    <3> QED BY <3>1, <3>2 DEF Settled
  <2> QED
    BY <1>1, <1>3, <2>1, <2>2, <2>3, FlushSame DEF Waiting, Answers
<1>7. CASE FlushSinkOk \/ FlushSinkFails
  <2>0. PICK outcome : /\ AfterFlush(outcome) /\ UNCHANGED <<batch, sink>> /\ job' = NoJob
                       /\ wpc = "flush"
                       /\ \/ outcome = "ok" /\ durable' = Len(sink)
                          \/ outcome # "ok" /\ durable' = durable
    <3>1. Failure # "ok"
      BY DEF Failure
    <3> QED BY <1>7, <3>1 DEF FlushSinkOk, FlushSinkFails
  <2>1. job'.to = Nobody
    BY <2>0 DEF NoJob, Job
  <2>2. queue' = queue \/ queue' = <<>>
    BY <2>0 DEF AfterFlush
  <2>3. /\ InOrder(d)'
        /\ Addressed(d)' => Addressed(d)
        /\ NoneOf(d) => NoneOf(d)'
    <3>1. CASE queue' = <<>>
      BY <3>1 DEF InOrder, Addressed, NoneOf
    <3> QED BY <1>3, <2>2, <3>1, FlushSame
  <2>4. /\ reply'[d] # reply[d] => job.to = d /\ (reply'[d] = "ok" => outcome = "ok")
    <3>1. CASE job.kind = "flush"
      <4>1. reply' = [e \in Clients |-> IF e = job.to THEN Answer(outcome) ELSE reply[e]]
        BY <2>0, <3>1 DEF AfterFlush
      <4> QED BY <4>1 DEF Answer
    <3>2. CASE job.kind # "flush"
      BY <2>0, <3>2 DEF AfterFlush
    <3> QED BY <3>1, <3>2
  <2>5. Settled(d) => Settled(d)'
    BY <1>0, <2>0, <2>3 DEF Settled
  <2>6. job.to = d /\ outcome = "ok" => Settled(d)'
    <3> SUFFICES ASSUME job.to = d, outcome = "ok" PROVE Settled(d)'
      OBVIOUS
    <3>1. NoneOf(d)' /\ batch' = <<>> /\ durable' = Len(sink')
      BY <1>3, <2>0, <2>3 DEF Answers
    <3>2. \A i \in DOMAIN sink' : ~(i > durable')
      BY <1>0, <2>0, <3>1
    <3> QED BY <3>1, <3>2 DEF Settled
  <2>7. Addressed(d)' => Waiting(d)'
    BY <1>1, <1>3, <2>3, <2>4 DEF Waiting
  <2>8. reply'[d] # "none" => pc'[d] = "awaiting"
    BY <1>1, <1>3, <2>4 DEF Waiting, Answers
  <2>9. active' /\ reply'[d] = "ok" => Settled(d)'
    BY <1>1, <1>3, <2>4, <2>5, <2>6
  <2> QED
    BY <1>0, <2>1, <2>3, <2>7, <2>8, <2>9 DEF Answers
<1>8. CASE Drain
  <2>1. /\ queue # <<>> /\ queue' = Tail(queue) /\ wpc = "drain" /\ UNCHANGED <<job, wpc>>
    BY <1>8 DEF Drain, workerVars
  <2>2. /\ InOrder(d)'
        /\ Addressed(d)' => Addressed(d) /\ Head(queue) # FlushMsg(d)
        /\ Head(queue) = FlushMsg(d) => Addressed(d)
    BY <1>3, <2>1, FlushTail
  <2>3. ~active' /\ job.to # d
    BY <1>1, <1>3, <2>1 DEF StopInv, Answers
  <2>4. Head(queue) \in Message
    BY <1>0, <2>1, TailTypes DEF TypeOK, ChannelTypes
  <2>5. reply'[d] # reply[d] => Head(queue) = FlushMsg(d)
    <3>1. CASE Head(queue).kind = "flush"
      <4>1. reply' = [e \in Clients |-> IF e = Head(queue).to THEN "ok" ELSE reply[e]]
        BY <1>8, <3>1 DEF Drain
      <4> QED BY <2>4, <3>1, <4>1, FlushMsgs
    <3>2. CASE Head(queue).kind # "flush"
      BY <1>8, <3>2 DEF Drain
    <3> QED BY <3>1, <3>2
  <2>6. Answers(d)'
    BY <2>1, <2>3 DEF Answers
  <2> QED
    BY <1>1, <1>3, <2>1, <2>2, <2>3, <2>5, <2>6 DEF Waiting
<1> QED BY <1>4, <1>5, <1>6, <1>7, <1>8 DEF Worker

LEMMA FlushStep ==
    ASSUME TypeOK, StopInv, Hands, FlushInv, [Next]_vars
    PROVE  FlushInv'
<1>1. CASE Finished \/ UNCHANGED vars
  <2>1. UNCHANGED <<queue, pc, job, reply, active, batch, sink, durable, wpc>>
    BY <1>1 DEF Finished, vars, clientVars, workerVars, sinkVars
  <2> QED
    BY <2>1, FlushSame DEF FlushInv, Waiting, Answers, Settled
<1> QED BY <1>1, FlushClient, FlushOwner, FlushWorker DEF Next

\* flush(): when a live writer answers ok, nothing the caller handed over is on
\* its way or without a flush of the sink, whatever others record meanwhile.
THEOREM FlushSettles == Spec => []FlushOkMeansSettled
<1>1. FlushInv /\ TypeOK => FlushOkMeansSettled
  <2> SUFFICES ASSUME FlushInv, TypeOK, NEW c \in Clients, active, reply[c] = "ok"
               PROVE  /\ \A r \in Queued \cup Elements(batch) : r.by # c
                      /\ \A i \in (durable + 1) .. Len(sink) : sink[i].by # c
    BY DEF FlushOkMeansSettled
  <2>1. Settled(c)
    BY DEF FlushInv
  <2>2. \A r \in Queued \cup Elements(batch) : r.by # c
    BY <2>1 DEF Settled, NoneOf, From, Queued, Elements
  <2>3. \A i \in (durable + 1) .. Len(sink) : i \in DOMAIN sink /\ i > durable
    BY DEF TypeOK, SinkTypes
  <2> QED BY <2>1, <2>2, <2>3 DEF Settled
<1>2. TypeOK /\ StopInv /\ Hands /\ FlushInv /\ [Next]_vars
        => (TypeOK /\ StopInv /\ Hands /\ FlushInv)'
  BY TypeStep, StopStep, HandsStep, FlushStep
<1> QED
  BY TypeInit, StopInit, ShutdownInit, FlushInit, <1>1, <1>2, PTL DEF Spec

-----------------------------------------------------------------------------
(* The order of the records on their way, and how each step changes it.    *)

\* Which elements of a sequence follow which.
LEMMA FollowsGrow ==
    ASSUME NEW S, NEW s \in Seq(S), NEW x \in S, NEW q, NEW r
    PROVE  Follows(Append(s, x), q, r) <=> Follows(s, q, r) \/ (q \in Elements(s) /\ r = x)
<1> DEFINE t == Append(s, x)
<1>1. /\ DOMAIN s = 1 .. Len(s) /\ DOMAIN t = 1 .. Len(s) + 1 /\ Len(s) \in Nat
      /\ \A i \in DOMAIN s : t[i] = s[i]
      /\ t[Len(s) + 1] = x
  OBVIOUS
<1> HIDE DEF t
<1>2. ASSUME Follows(t, q, r) PROVE Follows(s, q, r) \/ (q \in Elements(s) /\ r = x)
  <2>1. PICK i, j \in DOMAIN t : i < j /\ t[i] = q /\ t[j] = r
    BY <1>2 DEF Follows
  <2>2. i \in DOMAIN s
    BY <1>1, <2>1
  <2>3. CASE j \in DOMAIN s
    BY <1>1, <2>1, <2>2, <2>3 DEF Follows
  <2>4. CASE j = Len(s) + 1
    BY <1>1, <2>1, <2>2, <2>4 DEF Elements
  <2> QED BY <1>1, <2>1, <2>3, <2>4
<1>3. ASSUME Follows(s, q, r) PROVE Follows(t, q, r)
  <2>1. PICK i, j \in DOMAIN s : i < j /\ s[i] = q /\ s[j] = r
    BY <1>3 DEF Follows
  <2> QED BY <1>1, <2>1 DEF Follows
<1>4. ASSUME q \in Elements(s), r = x PROVE Follows(t, q, r)
  <2>1. PICK i \in DOMAIN s : s[i] = q
    BY <1>4 DEF Elements
  <2> DEFINE n == Len(s) + 1
  <2>2. n \in DOMAIN t /\ i \in DOMAIN t /\ i < n /\ t[i] = q /\ t[n] = x
    BY <1>1, <2>1
  <2> HIDE DEF n
  <2> QED BY <1>4, <2>2 DEF Follows
<1> QED BY <1>2, <1>3, <1>4 DEF t

LEMMA FollowsShrink ==
    ASSUME NEW S, NEW s \in Seq(S), s # <<>>, NEW q, NEW r
    PROVE  /\ Elements(s) = Elements(Tail(s)) \cup {Head(s)} /\ Head(s) \in S
           /\ Follows(s, q, r) <=>
                Follows(Tail(s), q, r) \/ (q = Head(s) /\ r \in Elements(Tail(s)))
<1> DEFINE t == Tail(s)
<1>1. /\ DOMAIN s = 1 .. Len(s) /\ DOMAIN t = 1 .. Len(s) - 1 /\ Len(s) \in Nat \ {0}
      /\ \A i \in DOMAIN t : t[i] = s[i + 1]
      /\ Head(s) = s[1] /\ s[1] \in S
  OBVIOUS
<1> HIDE DEF t
<1>2. \A i \in DOMAIN s : i # 1 => i - 1 \in DOMAIN t /\ t[i - 1] = s[i]
  BY <1>1
<1>3. Elements(s) = Elements(t) \cup {Head(s)}
  <2>1. ASSUME NEW i \in DOMAIN s PROVE s[i] \in Elements(t) \cup {Head(s)}
    <3>1. CASE i = 1
      BY <1>1, <3>1
    <3>2. CASE i # 1
      <4> DEFINE n == i - 1
      <4>1. n \in DOMAIN t /\ t[n] = s[i]
        BY <1>2, <3>2
      <4> HIDE DEF n
      <4> QED BY <4>1 DEF Elements
    <3> QED BY <3>1, <3>2
  <2>2. ASSUME NEW i \in DOMAIN t PROVE t[i] \in Elements(s)
    <3> DEFINE n == i + 1
    <3>1. n \in DOMAIN s /\ s[n] = t[i]
      BY <1>1
    <3> HIDE DEF n
    <3> QED BY <3>1 DEF Elements
  <2>3. Head(s) \in Elements(s)
    BY <1>1 DEF Elements
  <2> QED BY <2>1, <2>2, <2>3 DEF Elements
<1>4. ASSUME Follows(s, q, r)
      PROVE  Follows(t, q, r) \/ (q = Head(s) /\ r \in Elements(t))
  <2>1. PICK i, j \in DOMAIN s : i < j /\ s[i] = q /\ s[j] = r
    BY <1>4 DEF Follows
  <2> DEFINE m == i - 1  n == j - 1
  <2>2. n \in DOMAIN t /\ t[n] = r
    BY <1>1, <1>2, <2>1
  <2>3. i # 1 => m \in DOMAIN t /\ t[m] = q /\ m < n
    BY <1>1, <1>2, <2>1
  <2>4. i = 1 => q = Head(s)
    BY <1>1, <2>1
  <2> HIDE DEF m, n
  <2> QED BY <2>2, <2>3, <2>4 DEF Follows, Elements
<1>5. ASSUME Follows(t, q, r) PROVE Follows(s, q, r)
  <2>1. PICK i, j \in DOMAIN t : i < j /\ t[i] = q /\ t[j] = r
    BY <1>5 DEF Follows
  <2> DEFINE m == i + 1  n == j + 1
  <2>2. m \in DOMAIN s /\ n \in DOMAIN s /\ m < n /\ s[m] = q /\ s[n] = r
    BY <1>1, <2>1
  <2> HIDE DEF m, n
  <2> QED BY <2>2 DEF Follows
<1>6. ASSUME q = Head(s), r \in Elements(t) PROVE Follows(s, q, r)
  <2>1. PICK j \in DOMAIN t : t[j] = r
    BY <1>6 DEF Elements
  <2> DEFINE n == j + 1
  <2>2. n \in DOMAIN s /\ 1 \in DOMAIN s /\ 1 < n /\ s[1] = q /\ s[n] = r
    BY <1>1, <1>6, <2>1
  <2> HIDE DEF n
  <2> QED BY <2>2 DEF Follows
<1> QED BY <1>1, <1>3, <1>4, <1>5, <1>6 DEF t

\* The records of the channel, in both states of a step.
LEMMA QueuedAre ==
    ASSUME TypeOK, TypeOK'
    PROVE  /\ \A r : r \in Queued <=> r \in Record /\ RecordMsg(r) \in Elements(queue)
           /\ \A r : r \in Queued' <=> r \in Record /\ RecordMsg(r) \in Elements(queue')
<1>1. ASSUME NEW s \in Seq(Message), NEW r
      PROVE  r \in {s[i].rec : i \in {j \in DOMAIN s : s[j].kind = "record"}}
               <=> r \in Record /\ RecordMsg(r) \in Elements(s)
  <2>1. \A i \in DOMAIN s : /\ s[i] \in Message
                            /\ s[i].kind = "record" =>
                                 s[i].rec \in Record /\ s[i] = RecordMsg(s[i].rec)
    BY <1>1 DEF Message, RecordMsg
  <2> QED BY <2>1 DEF Elements, RecordMsg
<1>2. queue \in Seq(Message) /\ queue' \in Seq(Message)
  BY DEF TypeOK, ChannelTypes
<1> QED BY <1>1, <1>2 DEF Queued

LEMMA RecordMsgs ==
    /\ \A r : RecordMsg(r).kind = "record" /\ RecordMsg(r).rec = r
    /\ \A q, r : RecordMsg(q) = RecordMsg(r) => q = r
    /\ \A m \in Message : m.kind = "record" => m = RecordMsg(m.rec) /\ m.rec \in Record
BY DEF RecordMsg, Message

-----------------------------------------------------------------------------
(* What a step does to the records, in nine kinds.                         *)

Up     == {"holding", "sending", "blocked"}
UpSame == \A c \in Clients : pc'[c] \in Up => pc[c] \in Up

SameRecords ==
    /\ Queued' = Queued
    /\ \A q, r : Follows(queue, RecordMsg(q), RecordMsg(r))'
                   <=> Follows(queue, RecordMsg(q), RecordMsg(r))

Stays == SameRecords /\ UpSame /\ UNCHANGED <<rec, next, batch, sink, dropped>>

LetsGo(c) ==
    /\ SameRecords /\ UpSame /\ UNCHANGED <<next, batch, sink, dropped>>
    /\ rec' = [rec EXCEPT ![c] = Nobody]

HandsOver(c) ==
    /\ pc[c] \in Up /\ UpSame /\ UNCHANGED <<next, batch, sink, dropped>>
    /\ queue' = Append(queue, RecordMsg(rec[c]))
    /\ rec' = [rec EXCEPT ![c] = Nobody]

GivesUp(c) ==
    /\ pc[c] \in Up /\ pc' = [pc EXCEPT ![c] = "dropping"]
    /\ UNCHANGED <<queue, rec, next, batch, sink>>
    /\ dropped' = dropped \cup {rec[c]}

Takes ==
    /\ queue # <<>> /\ queue' = Tail(queue) /\ Head(queue).kind = "record"
    /\ batch' = Append(batch, Head(queue).rec)
    /\ wpc = "receive" /\ UNCHANGED <<pc, rec, next, sink, dropped, ledger, claimed>>

Writes ==
    /\ sink' = sink \o batch /\ batch' = <<>>
    /\ UNCHANGED <<queue, pc, rec, next, dropped, ledger, claimed>>

FailsBatch ==
    /\ dropped' = dropped \cup Elements(batch) /\ batch' = <<>> /\ batch # <<>>
    /\ ledger' = Append(ledger, BatchRange) /\ failed' = failed \cup {Elements(batch)}
    /\ UNCHANGED <<queue, pc, rec, next, sink, claimed, forgone>>

Forgets ==
    /\ queue' = <<>> \/ (queue # <<>> /\ queue' = Tail(queue))
    /\ UNCHANGED <<pc, rec, next, batch, sink, dropped>>

\* A message that is no record joins or leaves the channel.
LEMMA OthersPass ==
    ASSUME TypeOK, TypeOK',
           \/ queue' = queue
           \/ \E m \in Message : m.kind # "record" /\ queue' = Append(queue, m)
           \/ queue # <<>> /\ Head(queue).kind # "record" /\ queue' = Tail(queue)
    PROVE  SameRecords
<1>0. queue \in Seq(Message)
  BY DEF TypeOK, ChannelTypes
<1>1. CASE queue' = queue
  BY <1>1 DEF SameRecords, Queued
<1>2. ASSUME NEW m \in Message, m.kind # "record", queue' = Append(queue, m)
      PROVE  SameRecords
  <2>1. \A r : RecordMsg(r) # m
    BY <1>2, RecordMsgs
  <2>2. Elements(queue') = Elements(queue) \cup {m}
    BY <1>0, <1>2, ElementsGrow
  <2>3. Queued' = Queued
    BY <2>1, <2>2, QueuedAre
  <2>4. ASSUME NEW q, NEW r
        PROVE  Follows(queue', RecordMsg(q), RecordMsg(r))
                 <=> Follows(queue, RecordMsg(q), RecordMsg(r))
    BY <1>0, <1>2, <2>1, FollowsGrow
  <2> QED BY <2>3, <2>4 DEF SameRecords
<1>3. CASE queue # <<>> /\ Head(queue).kind # "record" /\ queue' = Tail(queue)
  <2>1. \A r : RecordMsg(r) # Head(queue)
    BY <1>3, RecordMsgs
  <2>2. Elements(queue) = Elements(queue') \cup {Head(queue)}
    BY <1>0, <1>3, FollowsShrink
  <2>3. Queued' = Queued
    BY <2>1, <2>2, QueuedAre
  <2>4. ASSUME NEW q, NEW r
        PROVE  Follows(queue', RecordMsg(q), RecordMsg(r))
                 <=> Follows(queue, RecordMsg(q), RecordMsg(r))
    BY <1>0, <1>3, <2>1, FollowsShrink
  <2> QED BY <2>3, <2>4 DEF SameRecords
<1> QED BY <1>1, <1>2, <1>3

LEMMA FlowClient ==
    ASSUME TypeOK, TypeOK', NEW c \in Clients, Client(c)
    PROVE  \/ Stays \/ LetsGo(c) \/ HandsOver(c) \/ GivesUp(c)
           \/ \E s \in Streams : DrawSequence(c, s)
<1>0. pc \in [Clients -> {"idle", "holding", "sending", "blocked",
                          "dropping", "flushing", "awaiting"}]
  BY DEF TypeOK, ClientTypes
<1>1. CASE RecordGate(c)
  <2>1. UNCHANGED <<queue, next, batch, sink, dropped>> /\ UpSame
    BY <1>0, <1>1 DEF RecordGate, UpSame, Up, workerVars, sinkVars
  <2>2. rec' = rec \/ rec' = [rec EXCEPT ![c] = Nobody]
    BY <1>1, Zenon DEF RecordGate
  <2> QED BY <2>1, <2>2, OthersPass DEF Stays, LetsGo
<1>2. CASE TrySend(c) \/ BlockedSend(c)
  <2>1. UNCHANGED <<next, batch, sink>> /\ pc[c] \in Up
    BY <1>2 DEF TrySend, BlockedSend, Up, workerVars, sinkVars
  <2>2. CASE Enqueue(c)
    <3>1. UpSame
      BY <1>0, <2>2 DEF Enqueue, UpSame, Up
    <3> QED BY <2>1, <2>2, <3>1 DEF Enqueue, HandsOver
  <2>3. CASE FindDisconnected(c)
    <3>1. UpSame /\ UNCHANGED <<queue, dropped>> /\ rec' = [rec EXCEPT ![c] = Nobody]
      BY <1>0, <2>3 DEF FindDisconnected, UpSame, Up
    <3> QED BY <2>1, <3>1, OthersPass DEF LetsGo
  <2>4. CASE FindFull(c)
    <3>1. UNCHANGED <<queue, rec>>
      BY <2>4 DEF FindFull
    <3>2. CASE pc' = [pc EXCEPT ![c] = "blocked"] /\ UNCHANGED dropped
      <4>1. UpSame
        BY <1>0, <2>1, <3>2 DEF UpSame, Up
      <4> QED BY <2>1, <3>1, <3>2, <4>1, OthersPass DEF Stays
    <3>3. CASE pc' = [pc EXCEPT ![c] = "dropping"] /\ dropped' = dropped \cup {rec[c]}
      BY <2>1, <3>1, <3>3 DEF GivesUp
    <3> QED BY <2>4, <3>2, <3>3 DEF FindFull
  <2> QED BY <1>2, <2>2, <2>3, <2>4 DEF TrySend, BlockedSend
<1>3. CASE LedgerPush(c)
  <2>1. /\ UNCHANGED <<queue, next, batch, sink, dropped>>
        /\ pc' = [pc EXCEPT ![c] = "idle"] /\ rec' = [rec EXCEPT ![c] = Nobody]
    BY <1>3 DEF LedgerPush, workerVars, sinkVars
  <2>2. UpSame
    BY <1>0, <2>1 DEF UpSame, Up
  <2> QED BY <2>1, <2>2, OthersPass DEF LetsGo
<1>4. CASE BeginFlush(c) \/ SendFlush(c) \/ FlushReturns(c) \/ RequestFlush(c)
  <2>1. UNCHANGED <<rec, next, batch, sink, dropped>>
    BY <1>4 DEF BeginFlush, SendFlush, FlushReturns, RequestFlush, clientVars,
                workerVars, sinkVars
  <2>2. UpSame
    BY <1>0, <1>4 DEF BeginFlush, SendFlush, FlushReturns, RequestFlush, clientVars,
                      UpSame, Up
  <2>3. \/ queue' = queue
        \/ \E to \in Clients \cup {Nobody} : queue' = Append(queue, FlushMsg(to))
    BY <1>4, Zenon DEF BeginFlush, SendFlush, FlushReturns, RequestFlush
  <2>4. \A to : FlushMsg(to).kind # "record"
    BY DEF FlushMsg
  <2>5. SameRecords
    BY <2>3, <2>4, MessageTypes, OthersPass
  <2> QED BY <2>1, <2>2, <2>5 DEF Stays
<1>5. CASE FlushTimesOut(c)
  <2>1. UNCHANGED <<rec, next, batch, sink, dropped>>
    BY <1>5 DEF FlushTimesOut, sinkVars
  <2>2. UpSame
    BY <1>0, <1>5 DEF FlushTimesOut, UpSame, Up
  <2>3. /\ queue' = [i \in DOMAIN queue |->
                       IF queue[i] = FlushMsg(c) THEN FlushMsg(Nobody) ELSE queue[i]]
        /\ \A r : RecordMsg(r) # FlushMsg(c) /\ RecordMsg(r) # FlushMsg(Nobody)
    BY <1>5 DEF FlushTimesOut, RecordMsg, FlushMsg
  <2>4. /\ DOMAIN queue' = DOMAIN queue
        /\ \A i \in DOMAIN queue : \A r : queue'[i] = RecordMsg(r) <=> queue[i] = RecordMsg(r)
    BY <2>3
  <2>5. \A r : RecordMsg(r) \in Elements(queue') <=> RecordMsg(r) \in Elements(queue)
    BY <2>4 DEF Elements
  <2>6. Queued' = Queued
    BY <2>5, QueuedAre
  <2>7. SameRecords
    BY <2>4, <2>6 DEF SameRecords, Follows
  <2> QED BY <2>1, <2>2, <2>7 DEF Stays
<1> QED BY <1>1, <1>2, <1>3, <1>4, <1>5 DEF Client

LEMMA FlowWorker ==
    ASSUME TypeOK, TypeOK', Worker
    PROVE  Stays \/ Takes \/ Writes \/ FailsBatch \/ Forgets
<1>1. UNCHANGED <<pc, rec, next>> /\ UpSame
  BY DEF Worker, Receive, FlushInterval, SkipWrite, WriteBatchOk, WriteBatchFails,
     FlushSinkOk, FlushSinkFails, Drain, DrainEnds, clientVars, UpSame
<1>2. CASE Receive
  <2>1. /\ queue # <<>> /\ queue' = Tail(queue) /\ wpc = "receive"
        /\ UNCHANGED <<sink, dropped, ledger, claimed>>
        /\ \/ /\ Head(queue).kind = "record"
              /\ batch' = Append(batch, Head(queue).rec)
           \/ /\ Head(queue).kind # "record" /\ batch' = batch
    BY <1>2 DEF Receive, sinkVars
  <2>2. Head(queue).kind # "record" => SameRecords
    BY <2>1, OthersPass
  <2> QED BY <1>1, <2>1, <2>2 DEF Takes, Stays
<1>3. CASE WriteBatchOk
  BY <1>1, <1>3 DEF WriteBatchOk, Writes
<1>4. CASE WriteBatchFails
  BY <1>1, <1>4 DEF WriteBatchFails, FailsBatch, sinkVars
<1>5. CASE FlushSinkOk \/ FlushSinkFails
  <2>1. UNCHANGED <<batch, sink, dropped>>
    BY <1>5 DEF FlushSinkOk, FlushSinkFails
  <2>2. PICK outcome : AfterFlush(outcome)
    BY <1>5 DEF FlushSinkOk, FlushSinkFails
  <2>3. queue' = queue \/ queue' = <<>>
    BY <2>2 DEF AfterFlush
  <2> QED BY <1>1, <2>1, <2>3, OthersPass DEF Stays, Forgets
<1>6. CASE Drain
  <2>1. queue # <<>> /\ queue' = Tail(queue) /\ UNCHANGED <<batch, sink, dropped>>
    BY <1>6 DEF Drain, workerVars, sinkVars
  <2> QED BY <1>1, <2>1 DEF Forgets
<1>7. CASE FlushInterval \/ SkipWrite \/ DrainEnds
  <2>1. UNCHANGED <<queue, batch, sink, dropped>>
    BY <1>7 DEF FlushInterval, SkipWrite, DrainEnds, sinkVars
  <2> QED BY <1>1, <2>1, OthersPass DEF Stays
<1> QED BY <1>2, <1>3, <1>4, <1>5, <1>6, <1>7 DEF Worker

LEMMA FlowOf ==
    ASSUME TypeOK, TypeOK', [Next]_vars
    PROVE  \/ Stays \/ Takes \/ Writes \/ FailsBatch \/ Forgets
           \/ \E c \in Clients : \/ LetsGo(c) \/ HandsOver(c) \/ GivesUp(c)
                                 \/ \E s \in Streams : DrawSequence(c, s)
<1>1. CASE Owner \/ Finished \/ UNCHANGED vars
  <2>1. UNCHANGED <<pc, rec, next, batch, sink, dropped>>
    BY <1>1 DEF Owner, BeginDrop, SendShutdown, Join, ShutdownTimesOut, Finished,
                vars, clientVars, workerVars, sinkVars
  <2>2. queue' = queue \/ queue' = Append(queue, ShutdownMsg)
    BY <1>1 DEF Owner, BeginDrop, SendShutdown, Join, ShutdownTimesOut, Finished, vars
  <2>3. ShutdownMsg.kind # "record"
    BY DEF ShutdownMsg
  <2>4. SameRecords
    BY <2>2, <2>3, MessageTypes, OthersPass
  <2> QED BY <2>1, <2>4 DEF Stays, UpSame
<1> QED BY <1>1, FlowClient, FlowWorker DEF Next

-----------------------------------------------------------------------------
(* The records of one caller in one stream are in the order it drew them,  *)
(* from the sink back to its hand; what was dropped is nowhere else.       *)

OnTheWay == Elements(batch) \cup Queued \cup InHand
Earlier(q, r) == q.by = r.by /\ q.stream = r.stream => q.seq < r.seq

OrderInv ==
    /\ \A q \in OnTheWay, r \in OnTheWay : Ahead(q, r) => Earlier(q, r)
    /\ \A q \in Elements(sink), r \in OnTheWay : Earlier(q, r)
    /\ \A r \in Located : r.seq < next[r.stream]
    /\ \A r \in dropped : r \notin Elements(batch) \cup Queued \cup Elements(sink)
    /\ \A c \in Clients : pc[c] \in Up => rec[c] \notin dropped

LEMMA OrderInit == Init => OrderInv
<1> SUFFICES ASSUME Init PROVE OrderInv
  OBVIOUS
<1>1. Elements(batch) = {} /\ Elements(sink) = {} /\ Queued = {} /\ InHand = {}
  BY ElementsGrow DEF Init, Queued, InHand
<1> QED BY <1>1 DEF Init, OrderInv, OnTheWay, Located, Up

\* What an unprimed action says of the records, as sets.
LEMMA Held ==
    ASSUME TypeOK, Hands
    PROVE  /\ Elements(batch) \subseteq Record /\ Elements(sink) \subseteq Record
           /\ Queued \subseteq Record /\ InHand \subseteq Record
           /\ dropped \subseteq Record
           /\ \A r : r \in InHand <=> r.by \in Clients /\ r = rec[r.by] /\ r \in Record
           /\ \A c \in Clients : rec[c] # Nobody => rec[c] \in InHand /\ rec[c].by = c
           /\ \A c \in Clients : pc[c] \in Up => rec[c] \in Record /\ rec[c] # Nobody
<1>1. rec \in [Clients -> Record \cup {Nobody}] /\ Nobody \notin Record
  BY NobodyIsNoRecord DEF TypeOK, ClientTypes
<1>2. batch \in Seq(Record) /\ sink \in Seq(Record) /\ dropped \subseteq Record
      /\ queue \in Seq(Message)
  BY DEF TypeOK, WorkerTypes, SinkTypes, LossTypes, ChannelTypes
<1>3. Queued \subseteq Record
  BY <1>2, MessageTypes DEF Queued
<1>4. \A c \in Clients : pc[c] \in Up => rec[c] \in Record /\ rec[c] # Nobody
  BY <1>1 DEF Up, TypeOK, ClientTypes
<1>5. \A c \in Clients : rec[c] # Nobody => rec[c] \in InHand /\ rec[c].by = c
  BY DEF InHand, Hands
<1>6. \A r \in Record : r.by \in Clients
  BY DEF Record
<1>7. \A r : r \in InHand <=> r.by \in Clients /\ r = rec[r.by] /\ r \in Record
  BY <1>1, <1>5, <1>6 DEF InHand
<1> QED BY <1>1, <1>2, <1>3, <1>4, <1>5, <1>7 DEF Elements, InHand

\* How the sets and the order change, for each kind of step.
LEMMA StaysEffect ==
    ASSUME Stays
    PROVE  /\ Elements(batch)' = Elements(batch) /\ Elements(sink)' = Elements(sink)
           /\ Queued' = Queued /\ InHand' = InHand
           /\ \A q, r : Ahead(q, r)' <=> Ahead(q, r)
BY DEF Stays, SameRecords, Ahead, InHand, Elements, Follows

\* Nothing is in two places.
LEMMA Apart ==
    ASSUME TypeOK, Hands, OrderInv
    PROVE  /\ \A r \in OnTheWay : ~Ahead(r, r)
           /\ \A r \in Elements(batch) : r \notin Queued \cup InHand \cup Elements(sink)
           /\ \A r \in Queued : r \notin InHand \cup Elements(sink)
           /\ \A r \in InHand : r \notin Elements(sink)
<1>1. ASSUME NEW r \in OnTheWay PROVE ~Earlier(r, r)
  <2>1. r \in Record
    BY Held DEF OnTheWay
  <2>2. r.seq \in Int
    BY <2>1 DEF Record, Seqs
  <2> QED BY <2>2 DEF Earlier
<1>2. \A r \in OnTheWay : ~Ahead(r, r) /\ r \notin Elements(sink)
  BY <1>1 DEF OrderInv
<1> QED BY <1>2 DEF OnTheWay, Ahead

LEMMA LetsGoEffect ==
    ASSUME TypeOK, TypeOK', Hands, Hands', NEW c \in Clients, LetsGo(c)
    PROVE  /\ Elements(batch)' = Elements(batch) /\ Elements(sink)' = Elements(sink)
           /\ Queued' = Queued /\ InHand' = InHand \ {rec[c]}
           /\ \A d \in Clients : pc'[d] \in Up => d # c /\ rec'[d] = rec[d]
           /\ \A q, r : r # rec[c] => (Ahead(q, r)' <=> Ahead(q, r))
<1>1. UNCHANGED <<batch, sink>> /\ SameRecords
  BY DEF LetsGo
<1>2. /\ rec \in [Clients -> Record \cup {Nobody}] /\ Nobody \notin Record
      /\ rec' = [rec EXCEPT ![c] = Nobody]
  BY NobodyIsNoRecord DEF TypeOK, ClientTypes, LetsGo
<1>3. \A d \in Clients : pc'[d] \in Up => d # c /\ rec'[d] = rec[d]
  <2>1. \A d \in Clients : pc'[d] \in Up => rec'[d] # Nobody
    BY <1>2 DEF Up, TypeOK, ClientTypes
  <2> QED BY <1>2, <2>1
<1>4. InHand' = InHand \ {rec[c]}
  BY <1>2 DEF InHand, Hands
<1>5. \A q, r : r # rec[c] => (Ahead(q, r)' <=> Ahead(q, r))
  BY <1>1, <1>4 DEF Ahead, SameRecords, Follows, Elements
<1> QED BY <1>1, <1>3, <1>4, <1>5 DEF SameRecords, Elements

LEMMA HandsOverEffect ==
    ASSUME TypeOK, TypeOK', Hands, Hands', NEW c \in Clients, HandsOver(c)
    PROVE  /\ Elements(batch)' = Elements(batch) /\ Elements(sink)' = Elements(sink)
           /\ Queued' = Queued \cup {rec[c]} /\ InHand' = InHand \ {rec[c]}
           /\ \A d \in Clients : pc'[d] \in Up => d # c /\ rec'[d] = rec[d]
           /\ rec[c] \in InHand
           /\ \A q \in Record, r \in Record :
                  q.by = r.by => (Ahead(q, r)' <=> Ahead(q, r))
<1>1. /\ UNCHANGED <<batch, sink>> /\ rec[c] \in Record /\ rec[c] \in InHand
      /\ rec[c].by = c
  BY Held DEF HandsOver
<1>2. /\ rec \in [Clients -> Record \cup {Nobody}] /\ Nobody \notin Record
      /\ rec' = [rec EXCEPT ![c] = Nobody]
  BY NobodyIsNoRecord DEF TypeOK, ClientTypes, HandsOver
<1>3. \A d \in Clients : pc'[d] \in Up => d # c /\ rec'[d] = rec[d]
  <2>1. \A d \in Clients : pc'[d] \in Up => rec'[d] # Nobody
    BY <1>2 DEF Up, TypeOK, ClientTypes
  <2> QED BY <1>2, <2>1
<1>4. InHand' = InHand \ {rec[c]}
  BY <1>2 DEF InHand, Hands
<1>5. queue \in Seq(Message) /\ queue' = Append(queue, RecordMsg(rec[c]))
      /\ RecordMsg(rec[c]) \in Message
  BY <1>1, MessageTypes DEF TypeOK, ChannelTypes, HandsOver
<1>6. Queued' = Queued \cup {rec[c]}
  <2>1. Elements(queue') = Elements(queue) \cup {RecordMsg(rec[c])}
    BY <1>5, ElementsGrow
  <2> QED BY <1>1, <2>1, QueuedAre, RecordMsgs
<1>7. ASSUME NEW q \in Record, NEW r \in Record, q.by = r.by
      PROVE  Ahead(q, r)' <=> Ahead(q, r)
  <2>1. Follows(queue', RecordMsg(q), RecordMsg(r)) <=>
          Follows(queue, RecordMsg(q), RecordMsg(r)) \/ (q \in Queued /\ r = rec[c])
    <3>1. Follows(queue', RecordMsg(q), RecordMsg(r)) <=>
            \/ Follows(queue, RecordMsg(q), RecordMsg(r))
            \/ RecordMsg(q) \in Elements(queue) /\ RecordMsg(r) = RecordMsg(rec[c])
      BY <1>5, FollowsGrow
    <3> QED BY <3>1, QueuedAre, RecordMsgs
  <2>2. q = rec[c] => r \notin InHand'
    BY <1>1, <1>4, <1>7, Held
  <2>3. Elements(batch)' = Elements(batch) /\ Follows(batch', q, r) = Follows(batch, q, r)
    BY <1>1
  <2>4. Ahead(q, r)' <=> \/ Follows(batch, q, r)
                         \/ q \in Elements(batch) /\ r \in Queued'
                         \/ Follows(queue', RecordMsg(q), RecordMsg(r))
                         \/ q \in Elements(batch) \cup Queued' /\ r \in InHand'
    BY <2>3 DEF Ahead
  <2> QED BY <1>1, <1>4, <1>6, <2>1, <2>2, <2>4 DEF Ahead
<1> QED BY <1>1, <1>3, <1>4, <1>6, <1>7 DEF Elements

LEMMA TakesEffect ==
    ASSUME TypeOK, TypeOK', Takes
    PROVE  \E head \in Queued :
             /\ head = Head(queue).rec
             /\ Elements(batch)' = Elements(batch) \cup {head}
             /\ Elements(sink)' = Elements(sink) /\ InHand' = InHand
             /\ Queued = Queued' \cup {head}
             /\ \A q, r : Ahead(q, r)' <=> Ahead(q, r)
<1> DEFINE head == Head(queue).rec
<1>1. /\ queue \in Seq(Message) /\ queue # <<>> /\ queue' = Tail(queue)
      /\ batch \in Seq(Record) /\ batch' = Append(batch, head)
      /\ Head(queue) = RecordMsg(head) /\ head \in Record
      /\ UNCHANGED <<rec, sink>>
  <2>1. Head(queue) \in Message
    BY TailTypes DEF Takes, TypeOK, ChannelTypes
  <2> QED BY <2>1, RecordMsgs DEF Takes, TypeOK, ChannelTypes, WorkerTypes
<1> HIDE DEF head
<1>2. Elements(batch') = Elements(batch) \cup {head}
  BY <1>1, ElementsGrow
<1>3. Elements(queue) = Elements(queue') \cup {RecordMsg(head)}
  BY <1>1, FollowsShrink
<1>4. Queued = Queued' \cup {head}
  BY <1>1, <1>3, QueuedAre, RecordMsgs
<1>5. InHand' = InHand
  BY <1>1 DEF InHand
<1>6. ASSUME NEW q, NEW r PROVE Ahead(q, r)' <=> Ahead(q, r)
  <2>1. Follows(queue, RecordMsg(q), RecordMsg(r)) <=>
          \/ Follows(queue', RecordMsg(q), RecordMsg(r))
          \/ q = head /\ RecordMsg(r) \in Elements(queue')
    BY <1>1, FollowsShrink, RecordMsgs
  <2>2. RecordMsg(r) \in Elements(queue') => r \in Queued'
    <3>1. ASSUME RecordMsg(r) \in Elements(queue') PROVE r \in Record
      <4>1. Elements(queue') \subseteq Message
        <5>1. queue' \in Seq(Message)
          BY DEF TypeOK, ChannelTypes
        <5> QED BY <5>1 DEF Elements
      <4>2. RecordMsg(r) \in Message
        BY <3>1, <4>1
      <4> QED BY <4>2, MessageTypes, RecordMsgs
    <3> QED BY <3>1, QueuedAre
  <2>3. r \in Queued' => RecordMsg(r) \in Elements(queue')
    BY QueuedAre
  <2>4. Follows(batch', q, r) <=> Follows(batch, q, r) \/ (q \in Elements(batch) /\ r = head)
    BY <1>1, FollowsGrow
  <2>5. Ahead(q, r)' <=> \/ Follows(batch', q, r)
                         \/ q \in Elements(batch') /\ r \in Queued'
                         \/ Follows(queue', RecordMsg(q), RecordMsg(r))
                         \/ q \in Elements(batch') \cup Queued' /\ r \in InHand'
    BY DEF Ahead
  <2> QED BY <1>2, <1>4, <1>5, <2>1, <2>2, <2>3, <2>4, <2>5 DEF Ahead
<1> QED BY <1>1, <1>2, <1>4, <1>5, <1>6 DEF head

\* The batch leaves, to the sink or for good.
LEMMA BatchLeaves ==
    ASSUME TypeOK, UNCHANGED <<queue, rec>>, batch' = <<>>
    PROVE  /\ Elements(batch)' = {} /\ Queued' = Queued /\ InHand' = InHand
           /\ \A q, r : q \notin Elements(batch) => (Ahead(q, r)' <=> Ahead(q, r))
<1>1. Elements(batch') = {} /\ \A q, r : ~Follows(batch', q, r)
  BY ElementsGrow DEF Follows
<1>2. Queued' = Queued /\ InHand' = InHand
  BY DEF Queued, InHand
<1>3. ASSUME NEW q, NEW r, q \notin Elements(batch)
      PROVE  Ahead(q, r)' <=> Ahead(q, r)
  <2>1. ~Follows(batch, q, r)
    BY <1>3 DEF Follows, Elements
  <2>2. Follows(queue', RecordMsg(q), RecordMsg(r))
          <=> Follows(queue, RecordMsg(q), RecordMsg(r))
    OBVIOUS
  <2>3. Ahead(q, r)' <=> \/ Follows(batch', q, r)
                         \/ q \in Elements(batch') /\ r \in Queued'
                         \/ Follows(queue', RecordMsg(q), RecordMsg(r))
                         \/ q \in Elements(batch') \cup Queued' /\ r \in InHand'
    BY DEF Ahead
  <2> QED BY <1>1, <1>2, <1>3, <2>1, <2>2, <2>3 DEF Ahead
<1> QED BY <1>1, <1>2, <1>3

\* What the channel loses is gone, and the others keep their order.
LEMMA ForgetsEffect ==
    ASSUME TypeOK, TypeOK', Hands, OrderInv, Forgets
    PROVE  /\ Elements(batch)' = Elements(batch) /\ Elements(sink)' = Elements(sink)
           /\ Queued' \subseteq Queued /\ InHand' = InHand
           /\ \A q \in OnTheWay', r \in OnTheWay' : Ahead(q, r)' <=> Ahead(q, r)
<1>1. /\ UNCHANGED <<batch, sink, rec>> /\ queue \in Seq(Message)
      /\ queue' = <<>> \/ (queue # <<>> /\ queue' = Tail(queue))
  BY DEF Forgets, TypeOK, ChannelTypes
<1>2. InHand' = InHand
  BY <1>1 DEF InHand
<1>3. Elements(batch)' = Elements(batch) /\ Elements(sink)' = Elements(sink)
  BY <1>1
<1>4. ASSUME queue # <<>>, queue' = Tail(queue)
      PROVE  /\ Elements(queue') \subseteq Elements(queue)
             /\ Head(queue) \in Elements(queue) /\ Head(queue) \in Message
             /\ \A q, r : Follows(queue, RecordMsg(q), RecordMsg(r)) <=>
                  \/ Follows(queue', RecordMsg(q), RecordMsg(r))
                  \/ RecordMsg(q) = Head(queue) /\ RecordMsg(r) \in Elements(queue')
  BY <1>1, <1>4, FollowsShrink
<1>5. queue' = <<>> => Elements(queue') = {}
  BY ElementsGrow
<1>6. Queued' \subseteq Queued
  BY <1>1, <1>4, <1>5, QueuedAre
<1>7. ASSUME NEW q \in OnTheWay', NEW r \in OnTheWay'
      PROVE  Follows(queue', RecordMsg(q), RecordMsg(r))
               <=> Follows(queue, RecordMsg(q), RecordMsg(r))
  <2>1. q \in OnTheWay /\ r \in OnTheWay
    BY <1>2, <1>3, <1>6, <1>7 DEF OnTheWay
  <2>2. CASE queue' = <<>>
    <3>1. ~Follows(queue', RecordMsg(q), RecordMsg(r)) /\ q \notin Queued'
      BY <1>5, <2>2, QueuedAre DEF Follows
    <3>2. q \notin Queued
      BY <1>2, <1>3, <1>7, <3>1, Apart DEF OnTheWay
    <3>3. RecordMsg(q) \notin Elements(queue)
      BY <2>1, <3>2, QueuedAre, Held DEF OnTheWay
    <3> QED BY <3>1, <3>3 DEF Follows, Elements
  <2>3. CASE queue # <<>> /\ queue' = Tail(queue)
    <3>1. ASSUME RecordMsg(q) = Head(queue) PROVE RecordMsg(r) \notin Elements(queue')
      <4>1. q \in Queued
        BY <1>4, <2>3, <2>1, <3>1, QueuedAre, Held DEF OnTheWay
      <4>2. q \in Queued'
        BY <1>2, <1>3, <1>7, <4>1, Apart DEF OnTheWay
      <4>3. Follows(queue, RecordMsg(q), RecordMsg(q))
        BY <1>4, <2>3, <3>1, <4>2, QueuedAre
      <4> QED BY <2>1, <4>3, Apart DEF Ahead
    <3> QED BY <1>4, <2>3, <3>1
  <2> QED BY <1>1, <2>2, <2>3
<1>8. ASSUME NEW q \in OnTheWay', NEW r \in OnTheWay'
      PROVE  Ahead(q, r)' <=> Ahead(q, r)
  <2>1. (q \in Queued' <=> q \in Queued) /\ (r \in Queued' <=> r \in Queued)
    BY <1>2, <1>3, <1>6, <1>8, Apart DEF OnTheWay
  <2>2. Follows(batch', q, r) <=> Follows(batch, q, r)
    BY <1>1
  <2>3. Ahead(q, r)' <=> \/ Follows(batch', q, r)
                         \/ q \in Elements(batch') /\ r \in Queued'
                         \/ Follows(queue', RecordMsg(q), RecordMsg(r))
                         \/ q \in Elements(batch') \cup Queued' /\ r \in InHand'
    BY DEF Ahead
  <2> QED BY <1>2, <1>3, <1>7, <2>1, <2>2, <2>3 DEF Ahead
<1> QED BY <1>2, <1>3, <1>6, <1>8

LEMMA DrawEffect ==
    ASSUME TypeOK, TypeOK', Hands, Hands', OrderInv,
           NEW c \in Clients, NEW s \in Streams, DrawSequence(c, s)
    PROVE  \E new \in Record :
             /\ new.by = c /\ new.stream = s /\ new.seq = next[s]
             /\ next'[s] = next[s] + 1 /\ next[s] \in Nat
             /\ \A t \in Streams : t # s => next'[t] = next[t]
             /\ new \notin Located
             /\ Elements(batch)' = Elements(batch) /\ Elements(sink)' = Elements(sink)
             /\ Queued' = Queued /\ InHand' = InHand \cup {new} /\ dropped' = dropped
             /\ rec' = [rec EXCEPT ![c] = new] /\ pc' = [pc EXCEPT ![c] = "holding"]
             /\ \A q \in InHand : q.by # c
             /\ \A q, r : Ahead(q, r)' <=>
                  Ahead(q, r) \/ (q \in Elements(batch) \cup Queued /\ r = new)
<1> DEFINE new == [stream |-> s, seq |-> next[s], by |-> c]
<1>1. /\ pc[c] = "idle" /\ rec' = [rec EXCEPT ![c] = new]
      /\ next' = [next EXCEPT ![s] = @ + 1] /\ pc' = [pc EXCEPT ![c] = "holding"]
      /\ next \in [Streams -> 0 .. MaxSeq] /\ next[s] < MaxSeq
      /\ UNCHANGED <<queue, dropped, batch, sink>>
  BY DEF DrawSequence, TypeOK, ClientTypes, workerVars, sinkVars
<1>2. new \in Record /\ new.stream = s /\ new.seq = next[s] /\ new.by = c
  BY <1>1 DEF Record, Seqs
<1>3. /\ rec[c] = Nobody /\ rec \in [Clients -> Record \cup {Nobody}]
      /\ Nobody \notin Record /\ next[s] \in Nat
  BY <1>1, NobodyIsNoRecord DEF Hands, TypeOK, ClientTypes
<1>4. new \notin Located
  BY <1>2, <1>3 DEF OrderInv
<1>5. /\ next'[s] = next[s] + 1 /\ \A t \in Streams : t # s => next'[t] = next[t]
  BY <1>1
<1> HIDE DEF new
<1>6. InHand' = InHand \cup {new}
  BY <1>1, <1>2, <1>3 DEF InHand
<1>7. \A q \in InHand : q.by # c
  BY <1>3, Held
<1>8. Queued' = Queued /\ Elements(batch)' = Elements(batch)
      /\ Elements(sink)' = Elements(sink)
  BY <1>1 DEF Queued
<1>9. ASSUME NEW q, NEW r
      PROVE  Ahead(q, r)' <=>
               Ahead(q, r) \/ (q \in Elements(batch) \cup Queued /\ r = new)
  <2>1. /\ Follows(batch', q, r) <=> Follows(batch, q, r)
        /\ Follows(queue', RecordMsg(q), RecordMsg(r))
             <=> Follows(queue, RecordMsg(q), RecordMsg(r))
    BY <1>1
  <2>2. Ahead(q, r)' <=> \/ Follows(batch', q, r)
                         \/ q \in Elements(batch') /\ r \in Queued'
                         \/ Follows(queue', RecordMsg(q), RecordMsg(r))
                         \/ q \in Elements(batch') \cup Queued' /\ r \in InHand'
    BY DEF Ahead
  <2> QED BY <1>6, <1>8, <2>1, <2>2 DEF Ahead
<1> QED BY <1>1, <1>2, <1>3, <1>4, <1>5, <1>6, <1>7, <1>8, <1>9

LEMMA OrderStep ==
    ASSUME TypeOK, TypeOK', Hands, Hands', OrderInv, [Next]_vars
    PROVE  OrderInv'
<1> USE DEF OrderInv, OnTheWay, Located
<1>0. /\ Elements(batch) \subseteq Record /\ Elements(sink) \subseteq Record
      /\ Queued \subseteq Record /\ InHand \subseteq Record /\ dropped \subseteq Record
  BY Held
<1>1. CASE Stays
  <2>1. UNCHANGED <<rec, next, dropped>> /\ UpSame
    BY <1>1 DEF Stays
  <2> QED BY <1>1, <2>1, StaysEffect DEF UpSame
<1>2. CASE Takes
  <2>1. UNCHANGED <<pc, rec, next, dropped>>
    BY <1>2 DEF Takes
  <2> QED BY <1>2, <2>1, TakesEffect
<1>3. CASE Writes
  <2>1. /\ UNCHANGED <<queue, pc, rec, next, dropped>> /\ batch' = <<>>
        /\ sink' = sink \o batch /\ sink \in Seq(Record) /\ batch \in Seq(Record)
    BY <1>3 DEF Writes, TypeOK, WorkerTypes, SinkTypes
  <2>2. Elements(sink') = Elements(sink) \cup Elements(batch)
    BY <2>1, ElementsGrow
  <2>3. \A q \in Elements(batch), r \in Queued \cup InHand : Earlier(q, r)
    BY DEF Ahead
  <2> QED BY <2>1, <2>2, <2>3, BatchLeaves, Apart
<1>4. CASE FailsBatch
  <2>1. /\ UNCHANGED <<queue, pc, rec, next, sink>> /\ batch' = <<>>
        /\ dropped' = dropped \cup Elements(batch)
    BY <1>4 DEF FailsBatch
  <2>2. Elements(sink') = Elements(sink)
    BY <2>1
  <2>3. \A c \in Clients : pc[c] \in Up => rec[c] \notin Elements(batch)
    BY Held, Apart
  <2> QED BY <2>1, <2>2, <2>3, BatchLeaves, Apart
<1>5. CASE Forgets
  <2>1. UNCHANGED <<pc, rec, next, dropped>>
    BY <1>5 DEF Forgets
  <2> QED BY <1>5, <2>1, ForgetsEffect
<1>6. ASSUME NEW c \in Clients, LetsGo(c) PROVE OrderInv'
  <2>1. UNCHANGED <<next, dropped>> /\ UpSame
    BY <1>6 DEF LetsGo
  <2>2. \A r \in OnTheWay' : r \in OnTheWay /\ r # rec[c]
    <3>1. rec[c] \notin Elements(batch) \cup Queued
      <4>1. CASE rec[c] = Nobody
        BY <1>0, <4>1, NobodyIsNoRecord
      <4>2. CASE rec[c] # Nobody
        BY <4>2, Held, Apart
      <4> QED BY <4>1, <4>2
    <3> QED BY <1>6, <3>1, LetsGoEffect
  <2> QED BY <1>6, <2>1, <2>2, LetsGoEffect DEF UpSame
<1>7. ASSUME NEW c \in Clients, HandsOver(c) PROVE OrderInv'
  <2>1. UNCHANGED <<next, dropped>> /\ UpSame /\ rec[c] \notin dropped
    BY <1>7 DEF HandsOver
  <2>2. \A q \in OnTheWay', r \in OnTheWay' :
            q \in OnTheWay /\ r \in OnTheWay /\ q \in Record /\ r \in Record
    BY <1>0, <1>7, HandsOverEffect
  <2>3. \A q \in OnTheWay', r \in OnTheWay' : Ahead(q, r)' => Earlier(q, r)
    <3> SUFFICES ASSUME NEW q \in OnTheWay', NEW r \in OnTheWay', Ahead(q, r)'
                 PROVE  Earlier(q, r)
      OBVIOUS
    <3>1. CASE q.by = r.by
      BY <1>7, <2>2, <3>1, HandsOverEffect
    <3>2. CASE q.by # r.by
      BY <3>2 DEF Earlier
    <3> QED BY <3>1, <3>2
  <2>4. rec[c] \notin Elements(sink)
    BY <1>7, HandsOverEffect, Apart
  <2> QED BY <1>7, <2>1, <2>2, <2>3, <2>4, HandsOverEffect DEF UpSame
<1>8. ASSUME NEW c \in Clients, GivesUp(c) PROVE OrderInv'
  <2>1. /\ UNCHANGED <<queue, rec, next, batch, sink>>
        /\ pc[c] \in Up /\ pc' = [pc EXCEPT ![c] = "dropping"]
        /\ dropped' = dropped \cup {rec[c]}
    BY <1>8 DEF GivesUp
  <2>2. /\ Queued' = Queued /\ InHand' = InHand /\ \A q, r : Ahead(q, r)' <=> Ahead(q, r)
        /\ Elements(batch') = Elements(batch) /\ Elements(sink') = Elements(sink)
    BY <2>1 DEF Queued, InHand, Ahead
  <2>3. rec[c] \in InHand /\ rec[c].by = c
    BY <2>1, Held
  <2>4. \A d \in Clients : pc'[d] \in Up => d # c /\ pc[d] \in Up
    BY <2>1 DEF Up, TypeOK, ClientTypes
  <2>5. \A d \in Clients : pc'[d] \in Up => rec'[d] \notin dropped'
    BY <2>1, <2>3, <2>4, Held
  <2> QED BY <2>1, <2>2, <2>3, <2>5, Apart
<1>9. ASSUME NEW c \in Clients, NEW s \in Streams, DrawSequence(c, s) PROVE OrderInv'
  <2>1. PICK new \in Record :
             /\ new.by = c /\ new.stream = s /\ new.seq = next[s]
             /\ next'[s] = next[s] + 1 /\ next[s] \in Nat
             /\ \A t \in Streams : t # s => next'[t] = next[t]
             /\ new \notin Located
             /\ Elements(batch)' = Elements(batch) /\ Elements(sink)' = Elements(sink)
             /\ Queued' = Queued /\ InHand' = InHand \cup {new} /\ dropped' = dropped
             /\ rec' = [rec EXCEPT ![c] = new] /\ pc' = [pc EXCEPT ![c] = "holding"]
             /\ \A q \in InHand : q.by # c
             /\ \A q, r : Ahead(q, r)' <=>
                  Ahead(q, r) \/ (q \in Elements(batch) \cup Queued /\ r = new)
    BY <1>9, DrawEffect
  <2>2. \A r \in Record : r.seq \in Int /\ r.stream \in Streams
    BY DEF Record, Seqs
  <2>3. \A r \in Located : r \in Record /\ Earlier(r, new)
    BY <1>0, <2>1 DEF Earlier
  <2>4. \A r : ~Ahead(new, r)
    <3>1. RecordMsg(new) \notin Elements(queue)
      BY <2>1, QueuedAre
    <3>2. \A r : ~Follows(batch, new, r) /\ ~Follows(queue, RecordMsg(new), RecordMsg(r))
      BY <2>1, <3>1 DEF Follows, Elements
    <3> QED BY <2>1, <3>2 DEF Ahead
  <2>5. \A q \in OnTheWay', r \in OnTheWay' : Ahead(q, r)' => Earlier(q, r)
    <3> SUFFICES ASSUME NEW q \in OnTheWay', NEW r \in OnTheWay', Ahead(q, r)'
                 PROVE  Earlier(q, r)
      OBVIOUS
    <3>1. q # new
      BY <2>1, <2>4
    <3> QED BY <2>1, <2>3, <3>1
  <2>6. \A q \in Elements(sink)', r \in OnTheWay' : Earlier(q, r)
    BY <2>1, <2>3
  <2>7. \A r \in Located' : r.seq < next'[r.stream]
    <3> SUFFICES ASSUME NEW r \in Located' PROVE r.seq < next'[r.stream]
      OBVIOUS
    <3>1. CASE r = new
      BY <2>1, <3>1
    <3>2. CASE r # new
      <4>1. r \in Located /\ r.seq \in Int /\ r.stream \in Streams
        BY <2>1, <2>2, <2>3, <3>2
      <4>2. r.seq < next[r.stream]
        BY <4>1
      <4> QED BY <2>1, <4>1, <4>2
    <3> QED BY <3>1, <3>2
  <2>8. \A d \in Clients : pc'[d] \in Up => rec'[d] \notin dropped'
    <3>1. \A d \in Clients : d # c => pc'[d] = pc[d] /\ rec'[d] = rec[d]
      BY <2>1 DEF TypeOK, ClientTypes
    <3>2. rec'[c] = new
      BY <2>1 DEF TypeOK, ClientTypes
    <3> QED BY <2>1, <3>1, <3>2
  <2> QED BY <2>1, <2>5, <2>6, <2>7, <2>8
<1> QED BY <1>1, <1>2, <1>3, <1>4, <1>5, <1>6, <1>7, <1>8, <1>9, FlowOf

-----------------------------------------------------------------------------
(* The writer implements RecordLog: a draw submits, a write delivers, what *)
(* is turned away, dropped or forgotten is lost, and the rest of the steps *)
(* only carry records along.                                               *)

Before == {p \in InFlight \X InFlight : p[1].by = p[2].by /\ Ahead(p[1], p[2])}

LEMMA TapeInit == Init => Tape!LogInit
<1> SUFFICES ASSUME Init PROVE Tape!LogInit
  OBVIOUS
<1>1. Elements(batch) = {} /\ Queued = {} /\ InHand = {}
  BY ElementsGrow DEF Init, Queued, InHand
<1> QED BY <1>1 DEF Init, Tape!LogInit, InFlight

\* What is on its way in the log's sense is on its way in the writer's.
LEMMA InFlightIs ==
    ASSUME TypeOK, Hands, OrderInv
    PROVE  InFlight = OnTheWay \ dropped
BY DEF InFlight, OnTheWay, OrderInv

LEMMA TapeCarries ==
    ASSUME sink' = sink, InFlight' = InFlight,
           \A q \in InFlight, r \in InFlight :
               q.by = r.by => (Ahead(q, r)' <=> Ahead(q, r))
    PROVE  UNCHANGED Tape!logVars
<1>1. Before' = Before
  BY DEF Before
<1> QED BY <1>1 DEF Tape!logVars, Before

LEMMA TapeLoses ==
    ASSUME sink' = sink, InFlight' \subseteq InFlight,
           \A q \in InFlight', r \in InFlight' : Ahead(q, r)' <=> Ahead(q, r)
    PROVE  Tape!LogNext
<1>1. Before' = Before \cap (InFlight' \X InFlight')
  BY DEF Before
<1>2. Tape!Lose
  BY <1>1 DEF Tape!Lose, Tape!Leave, Before
<1> QED BY <1>2 DEF Tape!LogNext

LEMMA TapeDraw ==
    ASSUME TypeOK, TypeOK', Hands, Hands', OrderInv,
           NEW c \in Clients, NEW s \in Streams, DrawSequence(c, s)
    PROVE  Tape!LogNext
<1>1. PICK new \in Record :
         /\ new.by = c /\ new \notin Located
         /\ Elements(batch)' = Elements(batch)
         /\ Queued' = Queued /\ InHand' = InHand \cup {new} /\ dropped' = dropped
         /\ \A q \in InHand : q.by # c
         /\ \A q, r : Ahead(q, r)' <=>
              Ahead(q, r) \/ (q \in Elements(batch) \cup Queued /\ r = new)
  BY DrawEffect
<1>2. /\ Elements(batch) \subseteq Record /\ Queued \subseteq Record
      /\ InHand \subseteq Record
  BY Held
<1>3. sink' = sink
  BY DEF DrawSequence, sinkVars
<1>4. InFlight' = InFlight \cup {new} /\ InFlight \subseteq Record /\ new \notin InFlight
  BY <1>1, <1>2 DEF InFlight, Located
<1>5. \A r : ~Ahead(new, r) /\ ~Ahead(r, new)
  <2>1. RecordMsg(new) \notin Elements(queue) /\ new \notin Elements(batch)
    BY <1>1, QueuedAre DEF Located
  <2> QED BY <1>1, <2>1 DEF Ahead, Follows, Elements, Located
<1> DEFINE First == {<<q, new>> : q \in {p \in InFlight : p.by = c}}
<1>6. Before' = Before \cup First
  <2>1. \A q \in InFlight' \X InFlight' : q \in Before' <=> q \in Before \cup First
    BY <1>1, <1>4, <1>5 DEF Before, InFlight
  <2> QED BY <1>4, <2>1 DEF Before
<1>7. {p \in InFlight : [r \in Record |-> r.by][p] = [r \in Record |-> r.by][new]}
        = {p \in InFlight : p.by = c}
  BY <1>1, <1>4
<1>8. new \notin Tape!Members(sink)
  BY <1>1 DEF Tape!Members, Located, Elements
<1>9. Tape!Submit(new)
  BY <1>3, <1>4, <1>6, <1>7, <1>8 DEF Tape!Submit, Before
<1> QED BY <1>9 DEF Tape!LogNext

LEMMA Suffix ==
    ASSUME NEW S, NEW s \in Seq(S), NEW t \in Seq(S)
    PROVE  SubSeq(s \o t, Len(s) + 1, Len(s \o t)) = t
<1> DEFINE u == s \o t  v == SubSeq(u, Len(s) + 1, Len(u))
<1>1. u \in Seq(S) /\ Len(u) = Len(s) + Len(t) /\ Len(s) \in Nat /\ Len(t) \in Nat
  OBVIOUS
<1>2. \A i \in 1 .. Len(t) : u[Len(s) + i] = t[i]
  OBVIOUS
<1> HIDE DEF u
<1>3. v \in Seq(S) /\ Len(v) = Len(t)
  BY <1>1
<1>4. \A i \in 1 .. Len(t) : v[i] = t[i]
  <2>1. ASSUME NEW i \in 1 .. Len(t) PROVE v[i] = u[Len(s) + i]
    BY <1>1
  <2> QED BY <1>2, <2>1
<1> HIDE DEF v
<1>5. v = t
  BY <1>3, <1>4
<1> QED BY <1>5 DEF u, v

LEMMA TapeDelivers ==
    ASSUME TypeOK, TypeOK', Hands, OrderInv, Writes
    PROVE  [Tape!LogNext]_(Tape!logVars)
<1>1. /\ batch \in Seq(Record) /\ sink \in Seq(Record) /\ sink' = sink \o batch
      /\ batch' = <<>> /\ UNCHANGED <<queue, rec, dropped>>
  BY DEF TypeOK, WorkerTypes, SinkTypes, Writes
<1>2. /\ Elements(batch)' = {} /\ Queued' = Queued /\ InHand' = InHand
      /\ \A q, r : q \notin Elements(batch) => (Ahead(q, r)' <=> Ahead(q, r))
  BY <1>1, BatchLeaves
<1>3. InFlight' = InFlight \ Elements(batch) /\ Elements(batch) \subseteq InFlight
  BY <1>1, <1>2, Apart DEF InFlight
<1>4. Before' = Before \cap (InFlight' \X InFlight')
  BY <1>2, <1>3 DEF Before
<1>5. CASE batch = <<>>
  <2>1. Elements(batch) = {} /\ sink' = sink
    BY <1>1, <1>5, ElementsGrow
  <2>2. InFlight' = InFlight
    BY <1>3, <2>1
  <2> QED BY <1>2, <2>1, <2>2, TapeCarries
<1>6. CASE batch # <<>>
  <2>1. Len(sink') > Len(sink) /\ SubSeq(sink', Len(sink) + 1, Len(sink')) = batch
    BY <1>1, <1>6, Suffix
  <2>2. \A r \in Elements(batch) : /\ r \in OnTheWay /\ ~Ahead(r, r)
                                   /\ r \notin Queued \cup InHand
    BY Apart DEF OnTheWay
  <2>3. \A r \in Elements(batch) : RecordMsg(r) \notin Elements(queue)
    BY <2>2, QueuedAre, Held
  <2>4. ASSUME NEW q, NEW r \in Elements(batch), Ahead(q, r) PROVE Follows(batch, q, r)
    <3>1. ~Follows(queue, RecordMsg(q), RecordMsg(r))
      BY <2>3 DEF Follows, Elements
    <3> QED BY <2>2, <2>4, <3>1 DEF Ahead
  <2>5. ASSUME NEW i \in DOMAIN batch, NEW j \in DOMAIN batch, i # j
        PROVE  batch[i] # batch[j]
    <3>1. SUFFICES ASSUME batch[i] = batch[j] PROVE FALSE
      OBVIOUS
    <3>2. i \in Int /\ j \in Int /\ batch[i] \in Elements(batch)
      BY <1>1 DEF Elements
    <3>3. Follows(batch, batch[i], batch[i])
      BY <2>5, <3>1, <3>2 DEF Follows
    <3> QED BY <2>2, <3>2, <3>3 DEF Ahead
  <2>6. ASSUME NEW i \in DOMAIN batch, NEW j \in DOMAIN batch, i < j
        PROVE  batch[i] # batch[j] /\ <<batch[j], batch[i]>> \notin Before
    <3>1. i # j /\ batch[i] \in Elements(batch)
      BY <1>1, <2>6 DEF Elements
    <3>2. ~Follows(batch, batch[j], batch[i])
      BY <1>1, <2>5, <2>6 DEF Follows
    <3> QED BY <2>4, <2>5, <3>1, <3>2 DEF Before
  <2>7. ASSUME NEW r \in Elements(batch), NEW q \in InFlight' PROVE <<q, r>> \notin Before
    <3>1. ~Follows(batch, q, r)
      BY <1>3, <2>7 DEF Follows, Elements
    <3> QED BY <2>4, <3>1 DEF Before
  <2>8. Tape!Members(batch) = Elements(batch)
    BY DEF Tape!Members, Elements
  <2>9. Tape!Deliver(batch)
    BY <1>1, <1>3, <1>4, <2>6, <2>7, <2>8 DEF Tape!Deliver, Tape!Leave, Before
  <2> QED BY <2>1, <2>9 DEF Tape!LogNext
<1> QED BY <1>5, <1>6

LEMMA TapeStep ==
    ASSUME TypeOK, TypeOK', Hands, Hands', OrderInv, OrderInv', [Next]_vars
    PROVE  [Tape!LogNext]_(Tape!logVars)
<1>0. /\ Elements(batch) \subseteq Record /\ Queued \subseteq Record
      /\ InHand \subseteq Record
  BY Held
<1>1. CASE Stays
  BY <1>1, StaysEffect, TapeCarries DEF Stays, InFlight
<1>2. CASE Takes
  BY <1>2, TakesEffect, TapeCarries DEF Takes, InFlight
<1>3. CASE FailsBatch
  <2>1. /\ UNCHANGED <<queue, rec, sink>> /\ batch' = <<>>
        /\ dropped' = dropped \cup Elements(batch)
    BY <1>3 DEF FailsBatch
  <2>2. InFlight' \subseteq InFlight \ Elements(batch)
    BY <2>1, BatchLeaves, Apart DEF InFlight
  <2> QED BY <2>1, <2>2, BatchLeaves, TapeLoses
<1>4. CASE Forgets
  <2>1. sink' = sink /\ dropped' = dropped
    BY <1>4 DEF Forgets
  <2>2. InFlight' \subseteq InFlight /\ InFlight' \subseteq OnTheWay'
    BY <1>4, <2>1, ForgetsEffect DEF InFlight, OnTheWay
  <2> QED BY <1>4, <2>1, <2>2, ForgetsEffect, TapeLoses
<1>5. ASSUME NEW c \in Clients, LetsGo(c) PROVE Tape!LogNext
  <2>1. UNCHANGED <<sink, dropped>>
    BY <1>5 DEF LetsGo
  <2>2. rec[c] \notin Elements(batch) \cup Queued
    <3>1. CASE rec[c] = Nobody
      BY <1>0, <3>1, NobodyIsNoRecord
    <3>2. CASE rec[c] # Nobody
      BY <3>2, Held, Apart
    <3> QED BY <3>1, <3>2
  <2>3. InFlight' \subseteq InFlight \ {rec[c]}
    BY <1>5, <2>1, <2>2, LetsGoEffect DEF InFlight
  <2> QED BY <1>5, <2>1, <2>3, LetsGoEffect, TapeLoses
<1>6. ASSUME NEW c \in Clients, HandsOver(c) PROVE UNCHANGED Tape!logVars
  <2>1. UNCHANGED <<sink, dropped>> /\ rec[c] \notin dropped
    BY <1>6 DEF HandsOver, OrderInv
  <2>2. InFlight' = InFlight /\ InFlight \subseteq Record
    BY <1>0, <1>6, <2>1, HandsOverEffect DEF InFlight
  <2> QED BY <1>6, <2>1, <2>2, HandsOverEffect, TapeCarries
<1>7. ASSUME NEW c \in Clients, GivesUp(c) PROVE Tape!LogNext
  <2>1. UNCHANGED <<queue, rec, batch, sink>> /\ dropped' = dropped \cup {rec[c]}
    BY <1>7 DEF GivesUp
  <2>2. InFlight' \subseteq InFlight /\ \A q, r : Ahead(q, r)' <=> Ahead(q, r)
    BY <2>1 DEF InFlight, Queued, InHand, Ahead
  <2> QED BY <2>1, <2>2, TapeLoses
<1> QED BY <1>1, <1>2, <1>3, <1>4, <1>5, <1>6, <1>7, TapeDraw, TapeDelivers, FlowOf

\* The sink is a lossy, ordered, duplicate-free log of each caller's records.
THEOREM TapeIsALog == Spec => ImplementsRecordLog
<1> DEFINE Inv == TypeOK /\ Hands /\ OrderInv
<1>1. Init => Inv /\ Tape!LogInit
  BY TypeInit, ShutdownInit, OrderInit, TapeInit
<1>2. Inv /\ [Next]_vars => Inv'
  BY TypeStep, HandsStep, OrderStep
<1>3. Inv /\ Inv' /\ [Next]_vars => [Tape!LogNext]_(Tape!logVars)
  BY TapeStep
<1> HIDE DEF Inv
<1> QED BY <1>1, <1>2, <1>3, PTL DEF Spec, ImplementsRecordLog, Tape!LogSpec

-----------------------------------------------------------------------------
(* The drop ledger.                                                        *)

\* Which steps touch the ledger, the ranges on the wire and what was dropped.
KeepsLosses ==
    /\ UNCHANGED <<ledger, claimed, dropped, failed, forgone>>
    /\ \A c \in Clients : pc[c] = "dropping" => pc'[c] = "dropping" /\ rec'[c] = rec[c]

MovesLedger ==
    /\ UNCHANGED <<pc, rec, dropped, failed>> /\ ledger' = <<>>
    /\ \/ claimed' = claimed \cup Elements(ledger) /\ forgone' = forgone
       \/ claimed' = claimed /\ forgone' = forgone \cup Elements(ledger)

LEMMA LossFlow ==
    ASSUME TypeOK, TypeOK', [Next]_vars
    PROVE  \/ KeepsLosses \/ FailsBatch \/ MovesLedger
           \/ \E c \in Clients : \/ LedgerPush(c)
                                 \/ GivesUp(c) /\ UNCHANGED <<ledger, claimed, failed, forgone>>
<1>0. /\ pc \in [Clients -> {"idle", "holding", "sending", "blocked",
                             "dropping", "flushing", "awaiting"}]
      /\ rec \in [Clients -> Record \cup {Nobody}]
  BY DEF TypeOK, ClientTypes
<1>1. CASE Owner \/ Finished \/ UNCHANGED vars
  BY <1>1 DEF Owner, BeginDrop, SendShutdown, Join, ShutdownTimesOut, Finished,
              vars, clientVars, workerVars, sinkVars, KeepsLosses
<1>2. ASSUME NEW c \in Clients, Client(c)
      PROVE  KeepsLosses \/ LedgerPush(c) \/ (GivesUp(c) /\ UNCHANGED <<ledger, claimed, failed, forgone>>)
  <2>1. CASE \E s \in Streams : DrawSequence(c, s)
    <3>1. /\ UNCHANGED <<ledger, claimed, dropped, failed, forgone>> /\ pc[c] = "idle"
          /\ \A d \in Clients : d # c => pc'[d] = pc[d] /\ rec'[d] = rec[d]
      BY <1>0, <2>1 DEF DrawSequence, sinkVars
    <3> QED BY <3>1 DEF KeepsLosses
  <2>2. CASE RecordGate(c)
    <3>1. /\ UNCHANGED <<ledger, claimed, dropped, failed, forgone>> /\ pc[c] = "holding"
          /\ \A d \in Clients : d # c => pc'[d] = pc[d] /\ rec'[d] = rec[d]
      BY <1>0, <2>2 DEF RecordGate, sinkVars
    <3> QED BY <3>1 DEF KeepsLosses
  <2>3. CASE TrySend(c) \/ BlockedSend(c)
    <3>1. UNCHANGED <<ledger, claimed, failed, forgone, next, batch, sink>> /\ pc[c] \in {"sending", "blocked"}
      BY <2>3 DEF TrySend, BlockedSend, sinkVars, workerVars
    <3>2. CASE Enqueue(c) \/ FindDisconnected(c)
      <4>1. /\ UNCHANGED dropped
            /\ \A d \in Clients : d # c => pc'[d] = pc[d] /\ rec'[d] = rec[d]
        BY <1>0, <3>2 DEF Enqueue, FindDisconnected
      <4> QED BY <3>1, <4>1 DEF KeepsLosses
    <3>3. CASE FindFull(c)
      <4>1. CASE pc' = [pc EXCEPT ![c] = "blocked"] /\ UNCHANGED dropped
        <5>1. \A d \in Clients : d # c => pc'[d] = pc[d]
          BY <1>0, <4>1
        <5> QED BY <3>1, <3>3, <4>1, <5>1 DEF KeepsLosses, FindFull
      <4>2. CASE pc' = [pc EXCEPT ![c] = "dropping"] /\ dropped' = dropped \cup {rec[c]}
        BY <3>1, <3>3, <4>2 DEF GivesUp, Up, FindFull
      <4> QED BY <3>3, <4>1, <4>2 DEF FindFull
    <3> QED BY <2>3, <3>2, <3>3 DEF TrySend, BlockedSend
  <2>4. CASE BeginFlush(c) \/ SendFlush(c) \/ FlushReturns(c) \/ RequestFlush(c)
               \/ FlushTimesOut(c)
    <3>1. /\ UNCHANGED <<ledger, claimed, dropped, failed, forgone, rec>>
          /\ \A d \in Clients : d # c => pc'[d] = pc[d]
          /\ pc[c] # "dropping"
      BY <1>0, <2>4 DEF BeginFlush, SendFlush, FlushReturns, RequestFlush, FlushTimesOut,
                        clientVars, workerVars, sinkVars
    <3> QED BY <3>1 DEF KeepsLosses
  <2> QED BY <1>2, <2>1, <2>2, <2>3, <2>4 DEF Client
<1>3. ASSUME Worker PROVE KeepsLosses \/ FailsBatch \/ MovesLedger
  <2>1. CASE WriteBatchFails
    BY <2>1 DEF WriteBatchFails, FailsBatch, sinkVars, clientVars
  <2>2. CASE FlushSinkOk
    BY <2>2 DEF FlushSinkOk, Claim, MovesLedger, clientVars
  <2>3. CASE Receive \/ FlushInterval \/ SkipWrite \/ WriteBatchOk \/ FlushSinkFails
               \/ Drain \/ DrainEnds
    <3>1. UNCHANGED <<pc, rec, ledger, claimed, dropped, failed, forgone>>
      BY <2>3 DEF Receive, FlushInterval, SkipWrite, WriteBatchOk, FlushSinkFails,
                  Drain, DrainEnds, clientVars, sinkVars, workerVars
    <3> QED BY <3>1 DEF KeepsLosses
  <2> QED BY <1>3, <2>1, <2>2, <2>3 DEF Worker
<1> QED BY <1>1, <1>2, <1>3 DEF Next

LEMMA NumbersOf ==
    /\ \A s, x : x \in Numbers(s) <=> \E g \in s : x \in g[1] .. g[2]
    /\ \A s, t : Numbers(s \cup t) = Numbers(s) \cup Numbers(t)
    /\ Numbers({}) = {}
BY DEF Numbers

\* DropLedger::push takes no number away and adds none but its own.  Its own
\* number is missing only if the range it extends is upside down.
LEMMA PushNames ==
    ASSUME NEW l \in Seq(Range2), NEW n \in Seqs
    PROVE  /\ Numbers(Elements(l)) \subseteq Numbers(Elements(Push(l, n)))
           /\ Numbers(Elements(Push(l, n))) \subseteq Numbers(Elements(l)) \cup {n}
           /\ \/ n \in Numbers(Elements(Push(l, n)))
              \/ \E h \in Elements(l) : h[2] <= n /\ n < h[1]
           /\ \A g \in Elements(Push(l, n)) :
                 g[1] > g[2] => \E h \in Elements(l) : h[1] = g[1] /\ h[2] <= g[2]
<1>0. /\ Seqs \subseteq Int /\ Len(l) \in Nat /\ DOMAIN l = 1 .. Len(l)
      /\ \A g \in Range2 : g[1] \in Int /\ g[2] \in Int
  BY DEF Seqs, Range2
<1>1. CASE l # <<>> /\ l[Len(l)][2] + 1 = n
  <2> DEFINE k == Len(l)
             old == l[k]
             new == <<old[1], n>>
             m == [l EXCEPT ![k] = new]
  <2>1. k \in DOMAIN l /\ old \in Range2 /\ old \in Elements(l)
    BY <1>0, <1>1 DEF Elements
  <2>2. /\ old[1] \in Int /\ old[2] \in Int /\ old[2] + 1 = n /\ n \in Int
        /\ new[1] = old[1] /\ new[2] = n
    BY <1>0, <1>1, <2>1
  <2>3. /\ Push(l, n) = m /\ DOMAIN m = DOMAIN l
        /\ \A i \in DOMAIN l : m[i] = IF i = k THEN new ELSE l[i]
    BY <1>1, <2>1 DEF Push
  <2> HIDE DEF m, new, k, old
  <2>4. l[k] = old /\ m[k] = new
    BY <2>1, <2>3 DEF old
  <2>5. ASSUME NEW x \in Numbers(Elements(l)) PROVE x \in Numbers(Elements(m))
    <3>1. PICK i \in DOMAIN l : x \in l[i][1] .. l[i][2]
      BY DEF Numbers, Elements
    <3>2. x \in m[i][1] .. m[i][2]
      BY <2>2, <2>3, <2>4, <3>1
    <3> QED BY <2>3, <3>2 DEF Numbers, Elements
  <2>6. ASSUME NEW x \in Numbers(Elements(m)) PROVE x \in Numbers(Elements(l)) \cup {n}
    <3>1. PICK i \in DOMAIN l : x \in m[i][1] .. m[i][2]
      BY <2>3 DEF Numbers, Elements
    <3>2. x \in l[i][1] .. l[i][2] \/ x = n
      BY <2>2, <2>3, <2>4, <3>1
    <3> QED BY <3>1, <3>2 DEF Numbers, Elements
  <2>7. n \in Numbers(Elements(m)) \/ (old[2] <= n /\ n < old[1])
    <3>1. CASE old[1] <= n
      <4>1. n \in new[1] .. new[2] /\ new \in Elements(m)
        BY <2>1, <2>2, <2>3, <2>4, <3>1 DEF Elements
      <4> QED BY <4>1 DEF Numbers
    <3> QED BY <2>2, <3>1
  <2>8. \A g \in Elements(m) : g = new \/ g \in Elements(l)
    BY <2>3, <2>4 DEF Elements
  <2>9. ASSUME NEW g \in Elements(m)
        PROVE  \E h \in Elements(l) : h[1] = g[1] /\ h[2] <= g[2]
    <3>1. CASE g = new
      BY <2>1, <2>2, <3>1
    <3>2. CASE g \in Elements(l)
      <4>1. g[2] \in Int
        BY <1>0, <3>2 DEF Elements
      <4> QED BY <3>2, <4>1
    <3> QED BY <2>8, <3>1, <3>2
  <2> QED BY <2>1, <2>3, <2>5, <2>6, <2>7, <2>9
<1>2. CASE ~(l # <<>> /\ l[Len(l)][2] + 1 = n)
  <2>1. /\ Push(l, n) = Append(l, <<n, n>>) /\ <<n, n>> \in Range2
    BY <1>2 DEF Push, Range2
  <2>2. Elements(Push(l, n)) = Elements(l) \cup {<<n, n>>}
    BY <2>1, ElementsGrow
  <2>3. n .. n = {n} /\ n <= n
    BY <1>0
  <2>4. Numbers(Elements(Push(l, n))) = Numbers(Elements(l)) \cup {n}
    <3>0. \A x : x \in <<n, n>>[1] .. <<n, n>>[2] <=> x = n
      BY <2>3
    <3>1. \A x : x \in Numbers({<<n, n>>}) <=> x = n
      BY <3>0, NumbersOf, Zenon
    <3> QED BY <2>2, <3>1, NumbersOf
  <2>5. ASSUME NEW g \in Elements(Push(l, n)), g[1] > g[2]
        PROVE  \E h \in Elements(l) : h[1] = g[1] /\ h[2] <= g[2]
    <3>1. g \in Elements(l) /\ g[2] \in Int
      BY <1>0, <2>2, <2>3, <2>5 DEF Elements
    <3> QED BY <3>1
  <2> QED BY <2>4, <2>5
<1> QED BY <1>1, <1>2

\* A batch of one source is in the order of its numbers.
LEMMA BatchOrder ==
    ASSUME TypeOK, Hands, OrderInv, ~Mixed(Elements(batch)),
           NEW i \in DOMAIN batch, NEW j \in DOMAIN batch, i < j
    PROVE  batch[i].seq < batch[j].seq
<1>1. batch[i] \in Elements(batch) /\ batch[j] \in Elements(batch)
  BY DEF Elements
<1>2. Ahead(batch[i], batch[j])
  BY DEF Ahead, Follows
<1> QED BY <1>1, <1>2 DEF OrderInv, OnTheWay, Earlier, Mixed, Source

\* What is sure of the range a failed batch leaves behind.
LEMMA FailedRange ==
    ASSUME TypeOK, Hands, OrderInv, FailsBatch
    PROVE  LET b == Elements(batch)  g == BatchRange IN
             /\ b \subseteq Record /\ g \in Range2
             /\ Elements(ledger)' = Elements(ledger) \cup {g}
             /\ \A n \in g[1] .. g[2] : Astride(b, n)
             /\ \A r \in b : Astride(b, r.seq)
             /\ ~Mixed(b) => \A r \in b : r.seq \in g[1] .. g[2]
             /\ \E p, q \in b : p.seq <= g[2] /\ g[1] <= q.seq
<1> DEFINE b == Elements(batch)  first == batch[1]  last == batch[Len(batch)]
<1>1. /\ batch \in Seq(Record) /\ batch # <<>>
      /\ ledger' = Append(ledger, BatchRange) /\ ledger \in Seq(Range2)
  BY DEF TypeOK, WorkerTypes, LossTypes, FailsBatch
<1>2. /\ DOMAIN batch = 1 .. Len(batch) /\ Len(batch) \in Nat \ {0}
      /\ 1 \in DOMAIN batch /\ Len(batch) \in DOMAIN batch
  BY <1>1
<1>3. first \in b /\ last \in b /\ b \subseteq Record
  BY <1>2, Held DEF Elements
<1>4. \A r \in Record : r.seq \in Seqs /\ r.seq \in Int
  BY DEF Record, Seqs
<1>5. /\ BatchRange \in Range2 /\ BatchRange[1] = first.seq /\ BatchRange[2] = last.seq
      /\ first.seq \in Int /\ last.seq \in Int
  BY <1>3, <1>4 DEF BatchRange, Range2
<1>6. Elements(ledger)' = Elements(ledger) \cup {BatchRange}
  BY <1>1, <1>5, ElementsGrow
<1>7. ASSUME NEW r \in b, ~Mixed(b) PROVE r.seq \in first.seq .. last.seq
  <2>1. PICK i \in DOMAIN batch : r = batch[i]
    BY DEF Elements
  <2>2. r.seq \in Int /\ (i = 1 \/ 1 < i) /\ (i = Len(batch) \/ i < Len(batch))
    BY <1>2, <1>3, <1>4
  <2>3. r = first \/ first.seq < r.seq
    BY <1>2, <1>7, <2>1, <2>2, BatchOrder
  <2>4. r = last \/ r.seq < last.seq
    BY <1>2, <1>7, <2>1, <2>2, BatchOrder
  <2> HIDE DEF first, last
  <2> QED BY <1>5, <2>2, <2>3, <2>4
<1> HIDE DEF first, last, b
<1>8. \A n \in BatchRange[1] .. BatchRange[2] : Astride(b, n)
  BY <1>3, <1>5 DEF Astride
<1>9. \A r \in b : Astride(b, r.seq)
  <2>1. \A r \in b : r.seq \in Int
    BY <1>3, <1>4
  <2> QED BY <2>1 DEF Astride
<1>10. \E p, q \in b : p.seq <= BatchRange[2] /\ BatchRange[1] <= q.seq
  BY <1>3, <1>5
<1> QED BY <1>3, <1>5, <1>6, <1>7, <1>8, <1>9, <1>10 DEF b

\* A push touches nothing but the ledger and the hand of the caller that makes it.
LEMMA PushedRange ==
    ASSUME TypeOK, Hands, NEW c \in Clients, LedgerPush(c)
    PROVE  /\ rec[c] \in dropped /\ rec[c].seq \in Seqs
           /\ ledger' = Push(ledger, rec[c].seq) /\ ledger \in Seq(Range2)
           /\ BeingPushed \subseteq BeingPushed' \cup {rec[c]}
           /\ UNCHANGED <<claimed, dropped, failed, forgone>>
<1>1. /\ pc[c] = "dropping" /\ ledger' = Push(ledger, rec[c].seq) /\ ledger \in Seq(Range2)
      /\ UNCHANGED <<claimed, dropped, failed, forgone>> /\ rec[c] \in Record
      /\ \A d \in Clients : d # c => pc'[d] = pc[d] /\ rec'[d] = rec[d]
  BY DEF LedgerPush, TypeOK, LossTypes, ClientTypes, sinkVars
<1>2. rec[c].seq \in Seqs
  BY <1>1 DEF Record
<1>3. BeingPushed \subseteq BeingPushed' \cup {rec[c]}
  BY <1>1 DEF BeingPushed
<1> QED BY <1>1, <1>2, <1>3 DEF Hands

-----------------------------------------------------------------------------
(* The failed batches.  Their records are older than those of the same     *)
(* source that are still on their way, and no record the sink took lies    *)
(* inside a failed batch of its own source alone.                          *)

Once == \A q, r \in Located : q.stream = r.stream /\ q.seq = r.seq => q = r

FailInv ==
    /\ Once
    /\ \A b \in failed : b \subseteq dropped
    /\ \A b \in failed : \A q \in b, r \in OnTheWay : Earlier(q, r)
    /\ \A b \in failed, r \in Elements(sink) :
          (\A p \in b : Source(p) = Source(r)) => ~Astride(b, r.seq)

LEMMA FailInit == Init => FailInv
<1> SUFFICES ASSUME Init PROVE FailInv
  OBVIOUS
<1>1. Elements(batch) = {} /\ Elements(sink) = {} /\ Queued = {} /\ InHand = {}
  BY ElementsGrow DEF Init, Queued, InHand
<1> QED BY <1>1 DEF Init, FailInv, Once, Located

LEMMA SourceOrder ==
    \A q, r : Source(q) = Source(r) /\ Earlier(q, r) => q.seq < r.seq
BY DEF Source, Earlier

\* Only a draw adds a record; the rest of the steps move or forget some.
LEMMA LocatedStep ==
    ASSUME TypeOK, TypeOK', Hands, Hands', OrderInv, [Next]_vars
    PROVE  \/ /\ Located' \subseteq Located /\ OnTheWay' \subseteq OnTheWay
              /\ Elements(sink)' \subseteq Elements(sink) \cup Elements(batch)
           \/ \E c \in Clients, s \in Streams : DrawSequence(c, s)
<1> DEFINE Moves == /\ Located' \subseteq Located /\ OnTheWay' \subseteq OnTheWay
                    /\ Elements(sink)' \subseteq Elements(sink) \cup Elements(batch)
<1> USE DEF Located, OnTheWay
<1>1. CASE Stays
  BY <1>1, StaysEffect DEF Stays
<1>2. CASE Takes
  BY <1>2, TakesEffect DEF Takes
<1>3. CASE Writes
  <2>1. /\ sink' = sink \o batch /\ batch' = <<>> /\ UNCHANGED <<queue, rec, dropped>>
        /\ sink \in Seq(Record) /\ batch \in Seq(Record)
    BY <1>3 DEF Writes, TypeOK, WorkerTypes, SinkTypes
  <2>2. Elements(sink') = Elements(sink) \cup Elements(batch)
    BY <2>1, ElementsGrow
  <2> QED BY <2>1, <2>2, BatchLeaves
<1>4. CASE FailsBatch
  <2>1. /\ UNCHANGED <<queue, rec, sink>> /\ batch' = <<>>
        /\ dropped' = dropped \cup Elements(batch)
    BY <1>4 DEF FailsBatch
  <2>2. Elements(sink)' = Elements(sink)
    BY <2>1
  <2> QED BY <2>1, <2>2, BatchLeaves
<1>5. CASE Forgets
  BY <1>5, ForgetsEffect DEF Forgets
<1>6. ASSUME NEW c \in Clients, LetsGo(c) \/ HandsOver(c) \/ GivesUp(c) PROVE Moves
  <2>1. CASE LetsGo(c)
    BY <2>1, LetsGoEffect DEF LetsGo
  <2>2. CASE HandsOver(c)
    BY <2>2, HandsOverEffect DEF HandsOver
  <2>3. CASE GivesUp(c)
    <3>1. /\ UNCHANGED <<queue, rec, batch, sink>> /\ dropped' = dropped \cup {rec[c]}
          /\ rec[c] \in InHand
      BY <2>3, Held DEF GivesUp
    <3>2. /\ Queued' = Queued /\ InHand' = InHand /\ Elements(batch)' = Elements(batch)
          /\ Elements(sink)' = Elements(sink)
      BY <3>1 DEF Queued, InHand
    <3> QED BY <3>1, <3>2
  <2> QED BY <1>6, <2>1, <2>2, <2>3
<1> QED BY <1>1, <1>2, <1>3, <1>4, <1>5, <1>6, FlowOf

LEMMA FailStep ==
    ASSUME TypeOK, TypeOK', Hands, Hands', OrderInv, FailInv, [Next]_vars
    PROVE  FailInv'
<1> USE DEF FailInv
<1>0. /\ Elements(batch) \subseteq Record /\ Elements(sink) \subseteq Record
      /\ Queued \subseteq Record /\ InHand \subseteq Record /\ dropped \subseteq Record
      /\ Located \subseteq Record
  BY Held DEF Located
<1>1. \A r \in Record : r.seq \in Int /\ r.stream \in Streams
  BY DEF Record, Seqs
<1>2. FailsBatch \/ UNCHANGED failed
  BY LossFlow DEF KeepsLosses, MovesLedger, LedgerPush, sinkVars
<1>3. dropped \subseteq dropped'
  BY LossFlow DEF KeepsLosses, MovesLedger, LedgerPush, FailsBatch, GivesUp
<1>4. CASE \E c \in Clients, s \in Streams : DrawSequence(c, s)
  <2>1. PICK c \in Clients, s \in Streams : DrawSequence(c, s)
    BY <1>4
  <2>2. UNCHANGED <<failed, dropped, sink>>
    BY <2>1 DEF DrawSequence, sinkVars
  <2>3. PICK new \in Record :
             /\ new.stream = s /\ new.seq = next[s] /\ new \notin Located
             /\ Elements(batch)' = Elements(batch) /\ Elements(sink)' = Elements(sink)
             /\ Queued' = Queued /\ InHand' = InHand \cup {new} /\ dropped' = dropped
    BY <2>1, DrawEffect
  <2>4. \A r \in Located : r.seq < next[r.stream]
    BY DEF OrderInv
  <2>5. Located' = Located \cup {new} /\ OnTheWay' = OnTheWay \cup {new}
    BY <2>3 DEF Located, OnTheWay
  <2>6. Once'
    <3>1. \A q \in Located : q.stream = new.stream => q.seq # new.seq
      BY <1>0, <1>1, <2>3, <2>4
    <3> QED BY <2>5, <3>1 DEF Once
  <2>7. ASSUME NEW b \in failed, NEW q \in b, NEW r \in OnTheWay' PROVE Earlier(q, r)
    <3>1. CASE r = new
      <4>1. q \in Located
        BY DEF Located
      <4> QED BY <2>3, <2>4, <3>1, <4>1 DEF Earlier
    <3> QED BY <2>5, <3>1
  <2> QED BY <2>2, <2>6, <2>7
<1>5. CASE /\ Located' \subseteq Located /\ OnTheWay' \subseteq OnTheWay
           /\ Elements(sink)' \subseteq Elements(sink) \cup Elements(batch)
  <2>1. Once'
    BY <1>5 DEF Once
  <2>2. CASE FailsBatch
    <3>1. /\ failed' = failed \cup {Elements(batch)} /\ sink' = sink
          /\ dropped' = dropped \cup Elements(batch)
          /\ batch' = <<>> /\ UNCHANGED <<queue, rec>>
      BY <2>2 DEF FailsBatch
    <3>2. OnTheWay' = Queued \cup InHand /\ Elements(sink)' = Elements(sink)
      BY <3>1, BatchLeaves DEF OnTheWay
    <3>3. \A q \in Elements(batch), r \in OnTheWay' : Earlier(q, r)
      BY <3>2 DEF OrderInv, OnTheWay, Ahead
    <3>4. ASSUME NEW r \in Elements(sink), \A p \in Elements(batch) : Source(p) = Source(r)
          PROVE  ~Astride(Elements(batch), r.seq)
      <4>1. ASSUME NEW p \in Elements(batch) PROVE r.seq < p.seq /\ p.seq \in Int
        <5>1. Earlier(r, p)
          BY DEF OrderInv, OnTheWay
        <5> QED BY <1>0, <1>1, <3>4, <5>1, SourceOrder
      <4>2. r.seq \in Int
        BY <1>0, <1>1
      <4> QED BY <4>1, <4>2 DEF Astride
    <3> QED BY <1>5, <2>1, <3>1, <3>2, <3>3, <3>4
  <2>3. CASE UNCHANGED failed
    <3>1. \A b \in failed' : b \subseteq dropped'
      BY <1>3, <2>3
    <3>2. \A b \in failed' : \A q \in b, r \in OnTheWay' : Earlier(q, r)
      BY <1>5, <2>3
    <3>3. ASSUME NEW b \in failed, NEW r \in Elements(batch),
                 \A p \in b : Source(p) = Source(r)
          PROVE  ~Astride(b, r.seq)
      <4>1. ASSUME NEW q \in b PROVE q.seq < r.seq /\ q.seq \in Int
        <5>1. Earlier(q, r) /\ q \in Record
          BY <1>0 DEF OnTheWay
        <5> QED BY <1>1, <3>3, <5>1, SourceOrder
      <4>2. r.seq \in Int
        BY <1>0, <1>1
      <4> QED BY <4>1, <4>2 DEF Astride
    <3> QED BY <1>5, <2>1, <2>3, <3>1, <3>2, <3>3
  <2> QED BY <1>2, <2>2, <2>3
<1> QED BY <1>4, <1>5, LocatedStep

-----------------------------------------------------------------------------
(* What the ranges name.  A range that is upside down, and so names        *)
(* nothing, lies within a failed batch of several sources.                 *)

Around(b, g) == \E p, q \in b : p.seq <= g[2] /\ g[1] <= q.seq

LedgerInv ==
    /\ \A n \in Covered : \/ \E q \in dropped : q.seq = n
                          \/ \E b \in failed : Astride(b, n)
    /\ \A g \in Elements(ledger) : g[1] > g[2] => \E b \in failed : Mixed(b) /\ Around(b, g)

LEMMA LedgerInit == Init => LedgerInv
<1> SUFFICES ASSUME Init PROVE LedgerInv
  OBVIOUS
<1>1. Elements(ledger) = {} /\ claimed = {}
  BY ElementsGrow DEF Init
<1> QED BY <1>1 DEF LedgerInv, Covered, Numbers

LEMMA LedgerStep ==
    ASSUME TypeOK, TypeOK', Hands, OrderInv, LedgerInv, [Next]_vars
    PROVE  LedgerInv'
<1> USE DEF LedgerInv
<1>1. CASE KeepsLosses
  BY <1>1 DEF KeepsLosses, Covered
<1>2. CASE FailsBatch
  <2> DEFINE b == Elements(batch)  g == BatchRange
  <2>1. /\ g \in Range2 /\ Elements(ledger)' = Elements(ledger) \cup {g}
        /\ \A n \in g[1] .. g[2] : Astride(b, n)
        /\ ~Mixed(b) => \A r \in b : r.seq \in g[1] .. g[2]
        /\ Around(b, g) /\ b \subseteq Record /\ b # {}
    <3>1. b # {}
      BY <1>2 DEF FailsBatch, TypeOK, WorkerTypes, Elements
    <3> QED BY <1>2, <3>1, FailedRange DEF Around
  <2>2. /\ dropped \subseteq dropped' /\ claimed' = claimed
        /\ failed' = failed \cup {b}
    BY <1>2 DEF FailsBatch
  <2> HIDE DEF b, g
  <2>3. Covered' = Covered \cup (g[1] .. g[2])
    BY <2>1, <2>2 DEF Covered, Numbers
  <2>4. \A n \in Covered' : \/ \E q \in dropped' : q.seq = n
                            \/ \E a \in failed' : Astride(a, n)
    BY <2>1, <2>2, <2>3
  <2>5. g[1] > g[2] => Mixed(b)
    <3>1. g[1] \in Int /\ g[2] \in Int
      BY <2>1 DEF Range2, Seqs
    <3> QED BY <2>1, <3>1
  <2> QED BY <2>1, <2>2, <2>4, <2>5
<1>3. CASE MovesLedger
  <2>1. Elements(ledger') = {} /\ UNCHANGED <<dropped, failed>>
    BY <1>3, ElementsGrow DEF MovesLedger
  <2>2. Covered' \subseteq Covered
    BY <1>3, <2>1, NumbersOf DEF MovesLedger, Covered
  <2> QED BY <2>1, <2>2
<1>4. ASSUME NEW c \in Clients, LedgerPush(c) PROVE LedgerInv'
  <2> DEFINE n == rec[c].seq
  <2>1. /\ rec[c] \in dropped /\ n \in Seqs /\ ledger' = Push(ledger, n)
        /\ ledger \in Seq(Range2) /\ UNCHANGED <<claimed, dropped, failed>>
    BY <1>4, PushedRange
  <2>2. Covered' \subseteq Covered \cup {n}
    BY <2>1, PushNames DEF Covered, Numbers
  <2>3. \A m \in Covered' : \/ \E q \in dropped' : q.seq = m
                            \/ \E b \in failed' : Astride(b, m)
    BY <2>1, <2>2
  <2>4. ASSUME NEW g \in Elements(ledger'), g[1] > g[2]
        PROVE  \E b \in failed' : Mixed(b) /\ Around(b, g)
    <3>1. PICK h \in Elements(ledger) : h[1] = g[1] /\ h[2] <= g[2]
      BY <2>1, <2>4, PushNames
    <3>2. /\ ledger' \in Seq(Range2)
          /\ \A r \in Record : r.seq \in Int
      BY DEF TypeOK, LossTypes, Record, Seqs
    <3>3. g[1] \in Int /\ g[2] \in Int /\ h[1] \in Int /\ h[2] \in Int
      BY <2>1, <3>2 DEF Elements, Range2, Seqs
    <3>4. PICK b \in failed : Mixed(b) /\ Around(b, h)
      BY <2>4, <3>1, <3>3
    <3>5. \A p \in b : p.seq \in Int
      BY <3>2 DEF TypeOK, SinkTypes
    <3> QED BY <2>1, <3>1, <3>3, <3>4, <3>5 DEF Around
  <2> QED BY <2>3, <2>4
<1>5. ASSUME NEW c \in Clients, GivesUp(c), UNCHANGED <<ledger, claimed, failed, forgone>>
      PROVE  LedgerInv'
  <2>1. dropped \subseteq dropped' /\ Covered' = Covered
    BY <1>5 DEF GivesUp, Covered
  <2> QED BY <1>5, <2>1
<1> QED BY <1>1, <1>2, <1>3, <1>4, <1>5, LossFlow

\* Everything the ranges rest on.
RecordInv ==
    TypeOK /\ StopInv /\ ShutdownIsLast /\ Hands /\ NothingVanishes /\ OrderInv
      /\ FailInv /\ LedgerInv

LEMMA RecordInvHolds == (Init => RecordInv) /\ (RecordInv /\ [Next]_vars => RecordInv')
BY TypeInit, StopInit, ShutdownInit, OrderInit, FailInit, LedgerInit,
   TypeStep, StopStep, ShutdownStep, HandsStep, VanishStep, OrderStep, FailStep,
   LedgerStep DEF RecordInv

LEMMA OnlyLost == ASSUME RecordInv PROVE RangesNameOnlyLost
<1> SUFFICES ASSUME NEW r \in Elements(sink), r.seq \in Covered
             PROVE  \/ \E q \in dropped : q.seq = r.seq /\ q.stream # r.stream
                    \/ \E b \in failed : /\ Astride(b, r.seq)
                                         /\ \E p \in b : Source(p) # Source(r)
  BY DEF RangesNameOnlyLost
<1>1. CASE \E b \in failed : Astride(b, r.seq)
  BY <1>1 DEF RecordInv, FailInv
<1>2. CASE \E q \in dropped : q.seq = r.seq
  <2>1. PICK q \in dropped : q.seq = r.seq
    BY <1>2
  <2>2. q # r
    BY DEF RecordInv, OrderInv
  <2>3. q.stream # r.stream
    BY <2>1, <2>2 DEF RecordInv, FailInv, Once, Located
  <2> QED BY <2>1, <2>3
<1> QED BY <1>1, <1>2 DEF RecordInv, LedgerInv

\* DropLedger, write_batch: for any callers and streams, a range names the number
\* of a delivered record only if the other stream lost that number, or if a batch
\* failed that held records of another source around it.
THEOREM RangesAreTrue == Spec => []RangesNameOnlyLost
BY RecordInvHolds, OnlyLost, PTL DEF Spec

-----------------------------------------------------------------------------
(* The ranges, those of refused markers included, name every loss outside  *)
(* the failed batches of several sources.                                  *)

LEMMA EveryLossStep ==
    ASSUME RecordInv, TypeOK', RangesNameEveryLoss, [Next]_vars
    PROVE  RangesNameEveryLoss'
<1> USE DEF RangesNameEveryLoss, RecordInv
<1> DEFINE Inside(n) == \E b \in failed : Mixed(b) /\ Astride(b, n)
<1>1. CASE KeepsLosses
  <2>1. /\ UNCHANGED <<ledger, claimed, dropped, failed, forgone>>
        /\ BeingPushed \subseteq BeingPushed'
    BY <1>1 DEF KeepsLosses, BeingPushed
  <2> QED BY <2>1 DEF Covered
<1>2. CASE FailsBatch
  <2> DEFINE b == Elements(batch)  g == BatchRange
  <2>1. /\ Elements(ledger)' = Elements(ledger) \cup {g}
        /\ \A r \in b : Astride(b, r.seq)
        /\ ~Mixed(b) => \A r \in b : r.seq \in g[1] .. g[2]
    BY <1>2, FailedRange
  <2>2. /\ dropped' = dropped \cup b /\ claimed' = claimed /\ forgone' = forgone
        /\ failed' = failed \cup {b} /\ BeingPushed' = BeingPushed
    BY <1>2 DEF FailsBatch, BeingPushed
  <2> HIDE DEF b, g
  <2>3. Covered' = Covered \cup (g[1] .. g[2])
    BY <2>1, <2>2 DEF Covered, Numbers
  <2> QED BY <2>1, <2>2, <2>3
<1>3. CASE MovesLedger
  <2>1. /\ Elements(ledger') = {} /\ UNCHANGED <<dropped, failed>>
        /\ BeingPushed' = BeingPushed
    BY <1>3, ElementsGrow DEF MovesLedger, BeingPushed
  <2>2. Covered' \cup Numbers(forgone') = Covered \cup Numbers(forgone)
    <3>1. Covered = Numbers(claimed) \cup Numbers(Elements(ledger))
      BY NumbersOf DEF Covered
    <3>2. Covered' = Numbers(claimed')
      BY <2>1 DEF Covered
    <3> QED BY <1>3, <3>1, <3>2, NumbersOf DEF MovesLedger
  <2> QED BY <2>1, <2>2
<1>4. ASSUME NEW c \in Clients, LedgerPush(c) PROVE RangesNameEveryLoss'
  <2> DEFINE n == rec[c].seq
  <2>1. /\ rec[c] \in dropped /\ n \in Seqs /\ ledger' = Push(ledger, n)
        /\ ledger \in Seq(Range2) /\ UNCHANGED <<claimed, dropped, failed, forgone>>
        /\ BeingPushed \subseteq BeingPushed' \cup {rec[c]}
    BY <1>4, PushedRange
  <2>2. Covered \subseteq Covered'
    <3>1. Covered = Numbers(claimed) \cup Numbers(Elements(ledger))
      BY NumbersOf DEF Covered
    <3>2. Covered' = Numbers(claimed) \cup Numbers(Elements(ledger'))
      BY <2>1, NumbersOf DEF Covered
    <3> QED BY <2>1, <3>1, <3>2, PushNames
  <2>3. n \in Covered' \cup Numbers(forgone) \/ Inside(n)
    <3>1. CASE n \in Numbers(Elements(ledger'))
      BY <3>1 DEF Covered, Numbers
    <3>2. ASSUME NEW h \in Elements(ledger), h[2] <= n, n < h[1] PROVE Inside(n)
      <4>1. h[1] \in Int /\ h[2] \in Int /\ n \in Int
        BY <2>1 DEF Elements, Range2, Seqs
      <4>2. PICK b \in failed : Mixed(b) /\ Around(b, h)
        BY <3>2, <4>1 DEF LedgerInv
      <4>3. \A p \in b : p.seq \in Int
        BY DEF TypeOK, SinkTypes, Record, Seqs
      <4> QED BY <3>2, <4>1, <4>2, <4>3 DEF Around, Astride
    <3> QED BY <2>1, <3>1, <3>2, PushNames
  <2> HIDE DEF n
  <2>4. Covered \cup Numbers(forgone) \subseteq Covered' \cup Numbers(forgone)
    BY <2>2
  <2>5. ASSUME NEW r \in dropped \ BeingPushed'
        PROVE  r.seq \in Covered' \cup Numbers(forgone) \/ Inside(r.seq)
    <3>1. CASE r = rec[c]
      BY <2>1, <2>3, <3>1 DEF n
    <3>2. CASE r # rec[c]
      BY <2>1, <2>4, <3>2
    <3> QED BY <3>1, <3>2
  <2> QED BY <2>1, <2>5
<1>5. ASSUME NEW c \in Clients, GivesUp(c), UNCHANGED <<ledger, claimed, failed, forgone>>
      PROVE  RangesNameEveryLoss'
  <2>1. pc[c] \in Up /\ pc' = [pc EXCEPT ![c] = "dropping"] /\ rec' = rec
        /\ dropped' = dropped \cup {rec[c]} /\ Covered' = Covered
    BY <1>5 DEF GivesUp, Covered
  <2>2. /\ pc'[c] = "dropping"
        /\ \A d \in Clients : pc[d] = "dropping" => pc'[d] = "dropping"
    BY <2>1 DEF TypeOK, ClientTypes
  <2>3. BeingPushed \cup {rec[c]} \subseteq BeingPushed'
    BY <2>1, <2>2 DEF BeingPushed
  <2> QED BY <1>5, <2>1, <2>3
<1> QED BY <1>1, <1>2, <1>3, <1>4, <1>5, LossFlow

LEMMA EveryLossInit == Init => RangesNameEveryLoss
BY DEF Init, RangesNameEveryLoss

\* DropLedger, flush_sink: for any callers, streams and failures, every record
\* counted as dropped is named by a range, in the ledger, in a marker, or in a
\* marker the sink refused, unless its number lies inside a failed batch of
\* several sources.
THEOREM EveryLossIsNamed == Spec => []RangesNameEveryLoss
<1> DEFINE Inv == RecordInv /\ RangesNameEveryLoss
<1>1. Init => Inv
  BY RecordInvHolds, EveryLossInit
<1>2. Inv /\ [Next]_vars => Inv'
  BY RecordInvHolds, EveryLossStep DEF RecordInv
<1> QED BY <1>1, <1>2, PTL DEF Spec

-----------------------------------------------------------------------------
(* A joined shutdown leaves nothing behind: a worker that is done has      *)
(* emptied its batch and taken the channel with it.                        *)

DoneInv ==
    /\ wpc = "done" => ~receiver /\ queue = <<>> /\ batch = <<>>
    /\ wpc = "flush" /\ job.kind \in {"shutdown", "final"} => batch = <<>>
    /\ owner = "closed" => wpc = "done"

LEMMA DoneInit == Init => DoneInv
BY DEF Init, DoneInv

LEMMA DoneStep ==
    ASSUME TypeOK, DoneInv, [Next]_vars
    PROVE  DoneInv'
<1> USE DEF DoneInv
<1>1. CASE Owner \/ Finished \/ UNCHANGED vars
  <2>1. UNCHANGED <<wpc, receiver, batch, job>>
    BY <1>1 DEF Owner, BeginDrop, SendShutdown, Join, ShutdownTimesOut, Finished,
                vars, workerVars
  <2>2. (queue' = queue \/ receiver) /\ (owner' = "closed" => owner = "closed" \/ wpc = "done")
    BY <1>1, Zenon DEF Owner, BeginDrop, SendShutdown, Join, ShutdownTimesOut, Finished, vars
  <2> QED BY <2>1, <2>2
<1>2. ASSUME NEW c \in Clients, Client(c) PROVE DoneInv'
  <2>1. UNCHANGED <<wpc, receiver, batch, owner>> /\ (~receiver /\ queue = <<>> => queue' = <<>>)
    BY <1>2 DEF Client, DrawSequence, RecordGate, TrySend, BlockedSend, Enqueue,
                FindDisconnected, FindFull, LedgerPush, BeginFlush, SendFlush,
                FlushReturns, FlushTimesOut, RequestFlush, clientVars, workerVars
  <2>2. job'.kind = job.kind
    BY <1>2 DEF Client, DrawSequence, RecordGate, TrySend, BlockedSend, LedgerPush,
                BeginFlush, SendFlush, FlushReturns, FlushTimesOut, RequestFlush,
                workerVars, TypeOK, WorkerTypes
  <2> QED BY <2>1, <2>2
<1>3. CASE Receive \/ FlushInterval \/ Drain \/ DrainEnds
  BY <1>3 DEF Receive, FlushInterval, Drain, DrainEnds, Job, FlushDue, workerVars
<1>4. CASE SkipWrite \/ WriteBatchOk \/ WriteBatchFails
  BY <1>4 DEF SkipWrite, WriteBatchOk, WriteBatchFails, AfterWrite
<1>5. CASE FlushSinkOk \/ FlushSinkFails
  BY <1>5 DEF FlushSinkOk, FlushSinkFails, AfterFlush, NoJob, Job
<1> QED BY <1>1, <1>2, <1>3, <1>4, <1>5 DEF Next, Worker

LEMMA ShutdownLeavesNothing ==
    ASSUME RecordInv, DoneInv, RangesNameEveryLoss
    PROVE  CleanShutdownIsComplete
<1> USE DEF RecordInv
<1> SUFFICES ASSUME owner = "closed", active, durable = Len(sink), ledger = <<>>,
                    NEW s \in Streams, NEW n \in Seqs, n < next[s]
             PROVE  \/ \E i \in 1 .. durable : sink[i].stream = s /\ sink[i].seq = n
                    \/ n \in Numbers(claimed \cup forgone)
                    \/ \E b \in failed : Mixed(b) /\ Astride(b, n)
  BY DEF CleanShutdownIsComplete
<1>1. PICK r \in InHand \cup Queued \cup Elements(batch) \cup Elements(sink) \cup dropped :
            r.stream = s /\ r.seq = n
  BY DEF NothingVanishes
<1>2. \A c \in Clients : pc[c] = "idle" /\ rec[c] = Nobody
  BY DEF ShutdownIsLast, Hands
<1>3. InHand = {} /\ BeingPushed = {}
  BY <1>2 DEF InHand, BeingPushed
<1>4. Queued = {} /\ Elements(batch) = {} /\ Elements(ledger) = {}
  BY ElementsGrow DEF DoneInv, Queued
<1>5. CASE r \in Elements(sink)
  BY <1>1, <1>5 DEF Elements, TypeOK, SinkTypes
<1>6. CASE r \in dropped
  <2>1. \/ n \in Covered \cup Numbers(forgone)
        \/ \E b \in failed : Mixed(b) /\ Astride(b, n)
    BY <1>1, <1>3, <1>6 DEF RangesNameEveryLoss
  <2>2. Covered \cup Numbers(forgone) = Numbers(claimed \cup forgone)
    BY <1>4, NumbersOf DEF Covered
  <2> QED BY <2>1, <2>2
<1> QED BY <1>1, <1>3, <1>4, <1>5, <1>6

\* Drop: for any callers, streams and failures, after a joined shutdown of a live
\* writer whose last flush went through every number drawn is at the sink under a
\* flush or named by a `dropped' marker, but for the markers the sink refused and
\* the failed batches of several sources.
THEOREM ShutdownIsComplete == Spec => []CleanShutdownIsComplete
<1> DEFINE Inv == RecordInv /\ RangesNameEveryLoss /\ DoneInv
<1>1. Init => Inv
  BY RecordInvHolds, EveryLossInit, DoneInit
<1>2. Inv /\ [Next]_vars => Inv'
  BY RecordInvHolds, EveryLossStep, DoneStep DEF RecordInv
<1>3. Inv => CleanShutdownIsComplete
  BY ShutdownLeavesNothing
<1> HIDE DEF Inv
<1> QED BY <1>1, <1>2, <1>3, PTL DEF Spec
=============================================================================
