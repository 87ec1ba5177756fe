------------------------------ MODULE RecordLog ------------------------------
(***************************************************************************)
(* What the record writer promises whoever reads the tape, whatever the    *)
(* sink and the queue do: an append-only log in which every record appears *)
(* at most once and the records of one submitter appear in the order it    *)
(* submitted them.  Records may be lost; nothing else may happen to them.  *)
(***************************************************************************)
EXTENDS Integers, Sequences

CONSTANTS Records, Owner    \* and the submitter of each of them

VARIABLES
    log,       \* the records delivered so far
    pending,   \* the records submitted and not yet delivered or lost
    before     \* of two of one submitter, which it submitted first

logVars == <<log, pending, before>>

LogInit == log = <<>> /\ pending = {} /\ before = {}

Members(s) == {s[i] : i \in DOMAIN s}

Submit(r) ==
    /\ r \notin Members(log) \cup pending
    /\ pending' = pending \cup {r}
    /\ before' = before \cup {<<q, r>> : q \in {p \in pending : Owner[p] = Owner[r]}}
    /\ log' = log

\* The records that stay keep their order.
Leave == before' = before \cap (pending' \X pending')

\* Each submitter's oldest outstanding records leave as one batch, in order.
Deliver(batch) ==
    /\ log' = log \o batch
    /\ Members(batch) \subseteq pending
    /\ pending' = pending \ Members(batch)
    /\ \A i, j \in DOMAIN batch :
          i < j => batch[i] # batch[j] /\ <<batch[j], batch[i]>> \notin before
    /\ \A r \in Members(batch), q \in pending' : <<q, r>> \notin before
    /\ Leave

\* Some outstanding records are lost.
Lose ==
    /\ log' = log
    /\ pending' \subseteq pending
    /\ Leave

LogNext ==
    \/ \E r \in Records : Submit(r)
    \/ Len(log') > Len(log) /\ Deliver(SubSeq(log', Len(log) + 1, Len(log')))
    \/ Lose

LogSpec == LogInit /\ [][LogNext]_logVars
=============================================================================
