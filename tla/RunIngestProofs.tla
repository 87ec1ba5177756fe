-------------------------- MODULE RunIngestProofs ---------------------------
(***************************************************************************)
(* Proofs about RunIngest, for every number of handlers, stages, attempts, *)
(* re-points and faults.                                                   *)
(***************************************************************************)
EXTENDS RunIngest, SequenceTheorems, TLAPS

USE IngestAssumption

-----------------------------------------------------------------------------
(* Type correctness.                                                       *)

Handler == [pc : {"free", "arrived", "read", "storing"},
            ev : Event, read : File, todo : Seq(Statement)]
Runner  == [at : 1 .. Len(Events) + 1, tries : 0 .. Attempts,
            waits : Handlers \cup {"nobody"}]
Stage   == [stage : 1 .. Stages, status : {"running", "ok", "failed"}]

\* An event between two attempts has attempts left, and the runner waits with
\* an event; a handler at the store has
\* something to run; a re-point under way is within its bound.
TypeInv ==
    /\ TypeOK
    /\ runner.waits = "nobody" => runner.tries < Attempts
    /\ runner.waits # "nobody" => runner.at <= Len(Events)
    /\ \A h \in Handlers : handler[h].pc = "storing" => handler[h].todo # <<>>
    /\ repoint.pc = "read" => repoint.read.base < MaxBaseline

\* The runner's events, one by one.
LEMMA EventsType ==
    /\ Events \in Seq(Event)
    /\ Len(Events) = Stages + 2
    /\ \A i \in 1 .. Len(Events) :
          Events[i] = IF i = 1 THEN [kind |-> "stage", n |-> 1]
                      ELSE IF i = 2 THEN [kind |-> "recording", n |-> 0]
                      ELSE IF i = Stages + 2 THEN [kind |-> "finish", n |-> 0]
                      ELSE [kind |-> "stage", n |-> i - 1]
<1> DEFINE first == <<[kind |-> "stage", n |-> 1], [kind |-> "recording", n |-> 0]>>
           middle == [i \in 1 .. Stages - 1 |-> [kind |-> "stage", n |-> i + 1]]
           last == <<[kind |-> "finish", n |-> 0]>>
<1>1. first \in Seq(Event) /\ Len(first) = 2
  BY DEF Event
<1>2. middle \in Seq(Event) /\ Len(middle) = Stages - 1
  BY DEF Event
<1>3. last \in Seq(Event) /\ Len(last) = 1
  BY DEF Event
<1>4. Events = (first \o middle) \o last
  BY DEF Events
<1> HIDE DEF middle
<1>5. /\ first \o middle \in Seq(Event)
      /\ Len(first \o middle) = Stages + 1
      /\ \A i \in 1 .. Stages + 1 :
            (first \o middle)[i] = IF i <= 2 THEN first[i] ELSE middle[i - 2]
  BY <1>1, <1>2, ConcatProperties
<1>6. /\ Events \in Seq(Event)
      /\ Len(Events) = Stages + 2
      /\ \A i \in 1 .. Stages + 2 :
            Events[i] = IF i <= Stages + 1 THEN (first \o middle)[i] ELSE last[i - (Stages + 1)]
  BY <1>3, <1>4, <1>5, ConcatProperties
<1>7. \A i \in 1 .. Stages - 1 : middle[i] = [kind |-> "stage", n |-> i + 1]
  BY DEF middle
<1>8. ASSUME NEW i \in 1 .. Len(Events)
      PROVE  Events[i] = IF i = 1 THEN [kind |-> "stage", n |-> 1]
                         ELSE IF i = 2 THEN [kind |-> "recording", n |-> 0]
                         ELSE IF i = Stages + 2 THEN [kind |-> "finish", n |-> 0]
                         ELSE [kind |-> "stage", n |-> i - 1]
  <2>1. i \in 1 .. Stages + 2
    BY <1>6
  <2>2. CASE i \in {1, 2}
    BY <1>5, <1>6, <2>1, <2>2
  <2>3. CASE i = Stages + 2 /\ i > 2
    BY <1>6, <2>3
  <2>4. CASE i > 2 /\ i < Stages + 2
    <3>1. i \in 1 .. Stages + 1 /\ i - 2 \in 1 .. Stages - 1
      BY <2>1, <2>4
    <3>2. Events[i] = middle[i - 2]
      BY <1>5, <1>6, <2>4, <3>1
    <3>3. middle[i - 2] = [kind |-> "stage", n |-> (i - 2) + 1]
      BY <1>7, <3>1
    <3>4. (i - 2) + 1 = i - 1
      BY <3>1
    <3>5. QED
      BY <2>4, <3>2, <3>3, <3>4
  <2>5. QED
    BY <2>1, <2>2, <2>3, <2>4
<1>9. QED
  BY <1>6, <1>8

LEMMA EventType == ASSUME NEW i \in 1 .. Len(Events) PROVE Events[i] \in Event
BY EventsType

\* What is left of a sequence longer than one.
LEMMA TailLeft ==
    ASSUME NEW S, NEW s \in Seq(S), s # <<>>, Len(s) # 1
    PROVE  /\ Tail(s) \in Seq(S) /\ Tail(s) # <<>>
           /\ Len(Tail(s)) = Len(s) - 1
           /\ \A i \in 1 .. Len(s) - 1 : Tail(s)[i] = s[i + 1]
<1>1. Len(s) \in Nat /\ Len(s) # 0
  BY EmptySeq
<1>2. /\ Tail(s) \in Seq(S) /\ Len(Tail(s)) = Len(s) - 1
      /\ \A i \in 1 .. Len(Tail(s)) : Tail(s)[i] = s[i + 1]
  BY HeadTailProperties
<1>3. QED
  BY <1>1, <1>2, EmptySeq

\* Statements.
LEMMA StatementTypes ==
    /\ \A s \in {"ok", "failed"} : CloseStage(s) \in Statement
    /\ \A n \in 1 .. Stages : OpenStage(n) \in Statement
    /\ \A v \in Verdicts : SettleRow(v) \in Statement
    /\ NameRecording \in Statement
BY DEF CloseStage, OpenStage, SettleRow, NameRecording, Statement, Verdicts

LEMMA FinishRunType ==
    ASSUME NEW v \in Verdicts PROVE FinishRun(v) \in Seq(Statement) /\ FinishRun(v) # <<>>
<1>1. CloseStage(IF v = "completed" THEN "ok" ELSE "failed") \in Statement
  BY StatementTypes
<1>2. SettleRow(v) \in Statement
  BY StatementTypes
<1>3. QED
  BY <1>1, <1>2 DEF FinishRun

LEMMA ApplyType ==
    ASSUME NEW ev \in Event, verdict \in Verdicts
    PROVE  Apply(ev) \in Seq(Statement) /\ Apply(ev) # <<>>
<1>1. CASE ev.kind = "stage"
  <2>1. ev.n \in 1 .. Stages
    BY <1>1 DEF Event
  <2>2. CloseStage("ok") \in Statement /\ OpenStage(ev.n) \in Statement
    BY <2>1, StatementTypes
  <2>3. QED
    BY <1>1, <2>2 DEF Apply
<1>2. CASE ev.kind = "recording"
  BY <1>2, StatementTypes DEF Apply
<1>3. CASE ev.kind = "finish"
  BY <1>3, FinishRunType DEF Apply
<1>4. QED
  BY <1>1, <1>2, <1>3 DEF Event

LEMMA FreeType == Free \in Handler /\ NewFile \in File
<1>1. NewFile \in File
  BY DEF NewFile, File, Statuses
<1>2. Events[1] \in Event
  BY EventsType
<1>3. QED
  BY <1>1, <1>2 DEF Free, Handler

LEMMA ArrivedType ==
    ASSUME NEW ev \in Event
    PROVE  LET new == [Free EXCEPT !.pc = "arrived", !.ev = ev]
           IN new \in Handler /\ new.pc = "arrived" /\ new.ev = ev
<1>1. Free \in Handler
  BY FreeType
<1>2. QED
  BY <1>1 DEF Handler

LEMMA SentType ==
    ASSUME NEW h \in Handlers, NEW n \in 0 .. Attempts, runner \in Runner
    PROVE  LET to == [runner EXCEPT !.tries = n, !.waits = h]
           IN to \in Runner /\ to.waits = h /\ to.tries = n /\ to.at = runner.at
BY DEF Runner

LEMMA AdvancedType ==
    ASSUME TypeInv, runner.at <= Len(Events)
    PROVE  /\ Advanced \in Runner
           /\ Advanced.waits = "nobody" /\ Advanced.tries < Attempts
BY EventsType DEF Advanced, Runner, TypeInv, TypeOK

LEMMA FailedAttemptType ==
    ASSUME TypeInv, runner.at <= Len(Events), NEW tries \in 0 .. Attempts
    PROVE  /\ FailedAttempt(tries) \in Runner
           /\ FailedAttempt(tries).waits = "nobody"
           /\ FailedAttempt(tries).tries < Attempts
<1>1. CASE tries = Attempts
  BY <1>1, AdvancedType DEF FailedAttempt
<1>2. CASE tries # Attempts
  <2>1. FailedAttempt(tries) = [runner EXCEPT !.tries = tries, !.waits = "nobody"]
    BY <1>2 DEF FailedAttempt
  <2>2. runner \in Runner
    BY DEF TypeInv, TypeOK, Runner
  <2>3. FailedAttempt(tries) \in Runner
    BY <2>1, <2>2 DEF Runner
  <2>4. tries < Attempts
    BY <1>2
  <2>5. QED
    BY <2>1, <2>2, <2>3, <2>4 DEF Runner
<1>3. QED
  BY <1>1, <1>2

\* What a statement does to the store keeps it typed, and a row its baseline.
LEMMA ExecuteType ==
    ASSUME TypeInv, NEW s \in Statement, Execute(s)
    PROVE  /\ stages' \in Seq(Stage)
           /\ row' \in [state : Statuses, base : 0 .. MaxBaseline]
           /\ row'.base = row.base
<1>1. stages \in Seq(Stage)
  BY DEF TypeInv, TypeOK, Stage
<1>2. stages' \in Seq(Stage)
  <2>1. CASE s.do = "close"
    <3>1. s.as \in {"ok", "failed"}
      BY <2>1 DEF Statement
    <3>2. stages' = Closed(s.as)
      BY <2>1 DEF Execute
    <3>3. \A i \in DOMAIN stages : Closed(s.as)[i] \in Stage
      <4>1. SUFFICES ASSUME NEW i \in DOMAIN stages PROVE Closed(s.as)[i] \in Stage
        OBVIOUS
      <4>2. stages[i] \in Stage
        BY <1>1
      <4>3. [stages[i] EXCEPT !.status = s.as] \in Stage
        BY <3>1, <4>2 DEF Stage
      <4>4. QED
        BY <4>2, <4>3 DEF Closed
    <3>4. DOMAIN Closed(s.as) = 1 .. Len(stages) /\ Len(stages) \in Nat
      BY <1>1 DEF Closed
    <3>5. \A i \in 1 .. Len(stages) : Closed(s.as)[i] \in Stage
      BY <1>1, <3>3
    <3>6. Closed(s.as) = [i \in 1 .. Len(stages) |-> Closed(s.as)[i]]
      BY <1>1 DEF Closed
    <3>7. QED
      BY <3>2, <3>4, <3>5, <3>6
  <2>2. CASE s.do = "open"
    <3>1. s.stage \in 1 .. Stages
      BY <2>2 DEF Statement
    <3>2. [stage |-> s.stage, status |-> "running"] \in Stage
      BY <3>1 DEF Stage
    <3>3. stages' = Append(stages, [stage |-> s.stage, status |-> "running"])
      BY <2>2 DEF Execute
    <3>4. QED
      BY <1>1, <3>2, <3>3
  <2>3. CASE s.do \notin {"close", "open"}
    BY <1>1, <2>3 DEF Execute
  <2>4. QED
    BY <2>1, <2>2, <2>3
<1>3. row' \in [state : Statuses, base : 0 .. MaxBaseline] /\ row'.base = row.base
  <2>1. row \in [state : Statuses, base : 0 .. MaxBaseline]
    BY DEF TypeInv, TypeOK
  <2>2. CASE s.do = "settle" /\ row.state = "active"
    <3>1. s.to \in Statuses
      BY <2>2 DEF Statement, Statuses
    <3>2. row' = [row EXCEPT !.state = s.to]
      BY <2>2 DEF Execute
    <3>3. QED
      BY <2>1, <3>1, <3>2
  <2>3. CASE ~(s.do = "settle" /\ row.state = "active")
    BY <2>1, <2>3 DEF Execute
  <2>4. QED
    BY <2>2, <2>3
<1>4. QED
  BY <1>2, <1>3

LEMMA FaultType ==
    ASSUME TypeInv, NoFault \/ \E k : Fault(k)
    PROVE  faults' \in 0 .. MaxFaults /\ seen' \subseteq Faults \cup Outsiders
<1>1. MaxFaults \in Nat /\ faults \in 0 .. MaxFaults /\ seen \subseteq Faults \cup Outsiders
  BY DEF TypeInv, TypeOK
<1>2. CASE NoFault
  BY <1>1, <1>2 DEF NoFault
<1>3. ASSUME NEW k, Fault(k)
      PROVE  faults' \in 0 .. MaxFaults /\ seen' \subseteq Faults \cup Outsiders
  <2>1. k \in Faults /\ faults > 0 /\ faults' = faults - 1 /\ seen' = seen \cup {k}
    BY <1>3, Zenon DEF Fault
  <2>2. QED
    BY <1>1, <2>1
<1>4. QED
  BY <1>2, <1>3

-----------------------------------------------------------------------------
LEMMA TypeInit == Init => TypeInv
<1> SUFFICES ASSUME Init PROVE TypeInv
  OBVIOUS
<1>1. /\ file \in File
      /\ handler \in [Handlers -> Handler]
      /\ repoint \in [pc : {"idle", "read", "written"}, read : File]
  BY FreeType DEF Init
<1>2. runner \in Runner /\ runner.tries < Attempts /\ runner.waits = "nobody"
  BY EventsType DEF Init, Runner
<1>3. outside \in [Outsiders -> Seq(Statement)]
  <2>1. FinishRun("failed") \in Seq(Statement)
    BY FinishRunType DEF Verdicts
  <2>2. SettleRow("failed") \in Statement
    BY StatementTypes DEF Verdicts
  <2>3. <<SettleRow("failed")>> \in Seq(Statement)
    BY <2>2
  <2>4. QED
    BY <2>1, <2>3 DEF Init
<1>4. /\ row \in [state : Statuses, base : 0 .. MaxBaseline]
      /\ verdict \in Verdicts /\ stages \in Seq(Stage)
      /\ lock = "nobody" /\ repoint.pc = "idle"
      /\ faults \in 0 .. MaxFaults /\ seen = {} /\ torn = FALSE
  BY DEF Init, Statuses, Verdicts
<1>5. \A h \in Handlers : handler[h].pc = "free"
  BY DEF Init, Free
<1>6. QED
  BY <1>1, <1>2, <1>3, <1>4, <1>5 DEF TypeInv, TypeOK, Handler, Runner, Stage

LEMMA TypeSend == ASSUME TypeInv, NEW h \in Handlers, Send(h) PROVE TypeInv'
<1>1. runner.at \in 1 .. Len(Events) /\ runner \in Runner /\ runner.tries < Attempts
  BY EventsType DEF Send, TypeInv, TypeOK, Runner
<1>2. faults' \in 0 .. MaxFaults /\ seen' \subseteq Faults \cup Outsiders
  BY FaultType, Zenon DEF Send
<1>3. UNCHANGED <<file, row, stages, verdict, outside, lock, repoint, torn>>
  BY Zenon DEF Send
<1>4. /\ handler' \in [Handlers -> Handler]
      /\ \A g \in Handlers : handler'[g].pc = "storing" => handler'[g].todo # <<>>
      /\ runner' \in Runner
      /\ runner'.waits = "nobody" => runner'.tries < Attempts
      /\ runner'.waits # "nobody" => runner'.at <= Len(Events)
  <2>1. handler \in [Handlers -> Handler]
    BY DEF TypeInv, TypeOK, Handler
  <2>2. ASSUME handler' = [handler EXCEPT ![h] =
                             [Free EXCEPT !.pc = "arrived", !.ev = Events[runner.at]]],
               runner' = [runner EXCEPT !.tries = @ + 1, !.waits = h]
        PROVE <1>4!:
    <3> DEFINE new == [Free EXCEPT !.pc = "arrived", !.ev = Events[runner.at]]
               to == [runner EXCEPT !.tries = @ + 1, !.waits = h]
    <3>1. Events[runner.at] \in Event
      BY <1>1, EventType
    <3>2. new \in Handler /\ new.pc = "arrived"
      BY <3>1, ArrivedType, Zenon
    <3>3. runner.tries + 1 \in 0 .. Attempts
      BY <1>1 DEF Runner
    <3>4. to \in Runner /\ to.waits = h /\ to.at = runner.at
      BY <1>1, <3>3, SentType, Zenon
    <3> HIDE DEF new, to
    <3>5. handler' = [handler EXCEPT ![h] = new] /\ runner' = to
      BY <2>2 DEF new, to
    <3>6. QED
      BY <1>1, <2>1, <3>2, <3>4, <3>5 DEF TypeInv
  <2>3. ASSUME runner' = FailedAttempt(runner.tries + 1), handler' = handler PROVE <1>4!:
    <3>1. runner.tries + 1 \in 0 .. Attempts
      BY <1>1 DEF Runner
    <3>2. QED
      BY <1>1, <2>1, <2>3, <3>1, FailedAttemptType DEF TypeInv
  <2>4. QED
    BY <2>2, <2>3, Zenon DEF Send
<1>5. QED
  BY <1>2, <1>3, <1>4 DEF TypeInv, TypeOK, Handler, Runner

LEMMA TypeTimesOut == ASSUME TypeInv, NEW h \in Handlers, TimesOut(h) PROVE TypeInv'
<1>1. runner \in Runner /\ handler \in [Handlers -> Handler]
  BY DEF TypeInv, TypeOK, Runner, Handler
<1>2. runner.at <= Len(Events)
  <2>1. runner.waits # "nobody"
    BY DEF TimesOut
  <2>2. QED
    BY <2>1 DEF TypeInv
<1>3. faults' \in 0 .. MaxFaults /\ seen' \subseteq Faults \cup Outsiders
  BY FaultType, Zenon DEF TimesOut
<1>4. /\ runner' \in Runner
      /\ runner'.waits = "nobody" => runner'.tries < Attempts
      /\ runner'.waits # "nobody" => runner'.at <= Len(Events)
  <2>1. runner.tries \in 0 .. Attempts /\ runner' = FailedAttempt(runner.tries)
    BY <1>1 DEF Runner, TimesOut
  <2>2. QED
    BY <1>2, <2>1, FailedAttemptType
<1>5. /\ handler' \in [Handlers -> Handler]
      /\ \A g \in Handlers : handler'[g].pc = "storing" => handler'[g].todo # <<>>
      /\ lock' \in Handlers \cup {"nobody", "repoint"}
  <2>1. CASE UNCHANGED <<handler, lock>>
    BY <1>1, <2>1 DEF TypeInv, TypeOK
  <2>2. CASE /\ handler' = [handler EXCEPT ![h] = Free]
             /\ lock' = IF lock = h THEN "nobody" ELSE lock
    <3>1. Free.pc = "free"
      BY DEF Free
    <3>2. QED
      BY <1>1, <2>2, <3>1, FreeType DEF TypeInv, TypeOK
  <2>3. QED
    BY <2>1, <2>2, Zenon DEF TimesOut
<1>6. UNCHANGED <<file, row, stages, verdict, outside, repoint, torn>>
  BY Zenon DEF TimesOut
<1>7. QED
  BY <1>3, <1>4, <1>5, <1>6 DEF TypeInv, TypeOK, Handler, Runner

\* The answer frees the handler and, if it waits, moves the runner on.
LEMMA RespondType ==
    ASSUME TypeInv, NEW h \in Handlers, Respond(h)
    PROVE  /\ handler' \in [Handlers -> Handler]
           /\ \A g \in Handlers : handler'[g].pc = "storing" => handler'[g].todo # <<>>
           /\ runner' \in Runner
           /\ runner'.waits = "nobody" => runner'.tries < Attempts
           /\ runner'.waits # "nobody" => runner'.at <= Len(Events)
<1>1. handler \in [Handlers -> Handler] /\ runner \in Runner
  BY DEF TypeInv, TypeOK, Handler, Runner
<1>2. Free \in Handler /\ Free.pc = "free"
  BY FreeType DEF Free
<1>3. handler' = [handler EXCEPT ![h] = Free]
  BY DEF Respond
<1>4. CASE runner.waits = h
  <2>1. runner.at <= Len(Events) /\ runner' = Advanced
    BY <1>4 DEF Respond, TypeInv
  <2>2. QED
    BY <1>1, <1>2, <1>3, <2>1, AdvancedType DEF TypeInv
<1>5. CASE runner.waits # h
  BY <1>1, <1>2, <1>3, <1>5 DEF Respond, TypeInv
<1>6. QED
  BY <1>4, <1>5

LEMMA TypeHandlerReads ==
    ASSUME TypeInv, NEW h \in Handlers, HandlerReads(h) PROVE TypeInv'
<1>1. /\ UNCHANGED <<file, row, stages, verdict, outside, repoint, torn>>
      /\ faults' \in 0 .. MaxFaults /\ seen' \subseteq Faults \cup Outsiders
  BY FaultType, Zenon DEF HandlerReads
<1>2. CASE Respond(h) /\ UNCHANGED lock
  BY <1>1, <1>2, RespondType DEF TypeInv, TypeOK, Handler, Runner
<1>3. CASE /\ lock' = h
           /\ handler' = [handler EXCEPT ![h].pc = "read", ![h].read = file]
           /\ UNCHANGED runner
  <2> DEFINE new == [handler[h] EXCEPT !.pc = "read", !.read = file]
  <2>1. handler \in [Handlers -> Handler] /\ file \in File
    BY DEF TypeInv, TypeOK, Handler
  <2>2. new \in Handler /\ new.pc = "read"
    BY <2>1 DEF Handler
  <2>3. handler' = [handler EXCEPT ![h] = new]
    BY <1>3
  <2> HIDE DEF new
  <2>4. /\ handler' \in [Handlers -> Handler]
        /\ \A g \in Handlers : handler'[g].pc = "storing" => handler'[g].todo # <<>>
    BY <2>1, <2>2, <2>3 DEF TypeInv
  <2>5. QED
    BY <1>1, <1>3, <2>4 DEF TypeInv, TypeOK, Handler, Runner
<1>4. QED
  BY <1>2, <1>3, Zenon DEF HandlerReads

\* The runner's part of the type invariant, and what a failed attempt leaves.
RunnerTyped ==
    /\ runner \in Runner
    /\ runner.waits = "nobody" => runner.tries < Attempts
    /\ runner.waits # "nobody" => runner.at <= Len(Events)

LEMMA AttemptEnded ==
    ASSUME TypeInv, \/ runner' = FailedAttempt(runner.tries) /\ runner.waits # "nobody"
                    \/ runner' = runner
    PROVE  RunnerTyped'
<1>1. RunnerTyped
  BY DEF TypeInv, TypeOK, RunnerTyped, Runner
<1>2. CASE runner' = FailedAttempt(runner.tries) /\ runner.waits # "nobody"
  <2>1. runner.at <= Len(Events) /\ runner.tries \in 0 .. Attempts
    BY <1>1, <1>2 DEF RunnerTyped, Runner
  <2>2. QED
    BY <1>2, <2>1, FailedAttemptType DEF RunnerTyped, Runner
<1>3. CASE runner' = runner
  BY <1>1, <1>3 DEF RunnerTyped, Runner
<1>4. QED
  BY <1>2, <1>3

LEMMA MirrorType ==
    ASSUME NEW f \in File, NEW ev \in Event, verdict \in Verdicts
    PROVE  Mirror(f, ev) \in File /\ Mirror(f, ev).base = f.base
<1>1. CASE ev.kind = "stage"
  <2>1. ev.n \in 0 .. Stages
    BY <1>1 DEF Event
  <2>2. QED
    BY <1>1, <2>1 DEF Mirror, File
<1>2. CASE ev.kind = "recording"
  BY <1>2 DEF Mirror
<1>3. CASE ev.kind = "finish"
  BY <1>3 DEF Mirror, File, Statuses
<1>4. QED
  BY <1>1, <1>2, <1>3 DEF Event

LEMMA TypeHandlerWrites ==
    ASSUME TypeInv, NEW h \in Handlers, HandlerWrites(h) PROVE TypeInv'
<1> DEFINE new == [Free EXCEPT !.pc = "storing", !.todo = Apply(handler[h].ev)]
<1>1. /\ UNCHANGED <<row, stages, verdict, outside, repoint, torn>> /\ lock' = "nobody"
      /\ faults' \in 0 .. MaxFaults /\ seen' \subseteq Faults \cup Outsiders
  BY FaultType, Zenon DEF HandlerWrites
<1>2. /\ handler \in [Handlers -> Handler] /\ verdict \in Verdicts /\ file \in File
      /\ handler[h].ev \in Event /\ handler[h].read \in File
  BY DEF TypeInv, TypeOK, Handler
<1>3. Mirror(handler[h].read, handler[h].ev) \in File
  BY <1>2, MirrorType
<1>4. new \in Handler /\ new.todo # <<>>
  <2>1. Free \in Handler
    BY FreeType
  <2>2. Apply(handler[h].ev) \in Seq(Statement) /\ Apply(handler[h].ev) # <<>>
    BY <1>2, ApplyType
  <2>3. QED
    BY <2>1, <2>2 DEF Handler
<1>5. CASE /\ file' = Mirror(handler[h].read, handler[h].ev)
           /\ handler' = [handler EXCEPT ![h] = new] /\ UNCHANGED runner
  <2> HIDE DEF new
  <2>1. /\ handler' \in [Handlers -> Handler]
        /\ \A g \in Handlers : handler'[g].pc = "storing" => handler'[g].todo # <<>>
    BY <1>2, <1>4, <1>5 DEF TypeInv
  <2>2. QED
    BY <1>1, <1>3, <1>5, <2>1 DEF TypeInv, TypeOK, Handler, Runner
<1>6. CASE /\ UNCHANGED file /\ handler' = [handler EXCEPT ![h] = Free]
           /\ runner' = IF runner.waits = h THEN FailedAttempt(runner.tries) ELSE runner
  <2>1. /\ handler' \in [Handlers -> Handler]
        /\ \A g \in Handlers : handler'[g].pc = "storing" => handler'[g].todo # <<>>
    BY <1>2, <1>6, FreeType DEF TypeInv, Free
  <2>2. RunnerTyped'
    BY <1>6, AttemptEnded, Zenon
  <2>3. QED
    BY <1>1, <1>2, <1>6, <2>1, <2>2 DEF TypeInv, TypeOK, Handler, RunnerTyped, Runner
<1>7. QED
  BY <1>5, <1>6, Zenon DEF HandlerWrites

LEMMA TypeHandlerStores ==
    ASSUME TypeInv, NEW h \in Handlers, HandlerStores(h) PROVE TypeInv'
<1>1. UNCHANGED <<file, verdict, outside, lock, repoint, torn>>
  BY Zenon DEF HandlerStores
<1>2. faults' \in 0 .. MaxFaults /\ seen' \subseteq Faults \cup Outsiders
  BY FaultType, Zenon DEF HandlerStores
<1>3. /\ handler \in [Handlers -> Handler] /\ stages \in Seq(Stage)
      /\ row \in [state : Statuses, base : 0 .. MaxBaseline]
      /\ handler[h].todo \in Seq(Statement) /\ handler[h].todo # <<>>
  BY DEF TypeInv, TypeOK, Handler, Stage, HandlerStores
<1>4. /\ stages' \in Seq(Stage)
      /\ row' \in [state : Statuses, base : 0 .. MaxBaseline]
  <2>1. CASE Execute(Head(handler[h].todo))
    <3>1. Head(handler[h].todo) \in Statement
      BY <1>3
    <3>2. QED
      BY <2>1, <3>1, ExecuteType
  <2>2. CASE UNCHANGED <<stages, row>>
    BY <1>3, <2>2
  <2>3. QED
    BY <2>1, <2>2, Zenon DEF HandlerStores
<1>5. CASE Respond(h)
  BY <1>1, <1>2, <1>4, <1>5, RespondType DEF TypeInv, TypeOK, Handler, Runner, Stage
<1>6. CASE /\ Len(handler[h].todo) # 1
           /\ handler' = [handler EXCEPT ![h].todo = Tail(@)] /\ UNCHANGED runner
  <2> DEFINE rest == Tail(handler[h].todo)
             new == [handler[h] EXCEPT !.todo = rest]
  <2>1. rest \in Seq(Statement) /\ rest # <<>>
    BY <1>3, <1>6, TailLeft, Zenon
  <2>2. handler' = [handler EXCEPT ![h] = new]
    BY <1>6
  <2> HIDE DEF rest
  <2>3. new \in Handler /\ new.todo # <<>>
    BY <1>3, <2>1 DEF Handler
  <2> HIDE DEF new
  <2>4. /\ handler' \in [Handlers -> Handler]
        /\ \A g \in Handlers : handler'[g].pc = "storing" => handler'[g].todo # <<>>
    BY <1>3, <2>2, <2>3 DEF TypeInv
  <2>5. QED
    BY <1>1, <1>2, <1>4, <1>6, <2>4 DEF TypeInv, TypeOK, Handler, Runner, Stage
<1>7. QED
  BY <1>5, <1>6, Zenon DEF HandlerStores

LEMMA TypeOutside ==
    ASSUME TypeInv, NEW o \in Outsiders, Outside(o) PROVE TypeInv'
<1>1. /\ UNCHANGED <<file, runner, verdict, handler, lock, repoint, faults, torn>>
      /\ outside' = [outside EXCEPT ![o] = Tail(@)]
      /\ seen' = seen \cup {o} /\ Execute(Head(outside[o])) /\ outside[o] # <<>>
  BY Zenon DEF Outside
<1>2. outside \in [Outsiders -> Seq(Statement)] /\ seen' \subseteq Faults \cup Outsiders
  BY <1>1 DEF TypeInv, TypeOK
<1>3. Head(outside[o]) \in Statement /\ Tail(outside[o]) \in Seq(Statement)
  BY <1>1, <1>2
<1>4. outside' \in [Outsiders -> Seq(Statement)]
  BY <1>1, <1>2, <1>3
<1>5. stages' \in Seq(Stage) /\ row' \in [state : Statuses, base : 0 .. MaxBaseline]
  BY <1>1, <1>3, ExecuteType
<1>6. QED
  BY <1>1, <1>2, <1>4, <1>5 DEF TypeInv, TypeOK, Stage

LEMMA TypeRepoint ==
    ASSUME TypeInv, RepointReads \/ RepointWrites PROVE TypeInv'
<1>1. file \in File
  BY DEF TypeInv, TypeOK
<1>2. CASE RepointReads
  <2>1. UNCHANGED <<file, row, stages, runner, verdict, handler, outside, faults, torn, seen>>
    BY <1>2, Zenon DEF RepointReads
  <2>2. /\ lock' = "repoint" /\ repoint' = [pc |-> "read", read |-> file]
        /\ file.base < MaxBaseline
    BY <1>2 DEF RepointReads
  <2>3. QED
    BY <1>1, <2>1, <2>2 DEF TypeInv, TypeOK
<1>3. CASE RepointWrites
  <2>1. /\ UNCHANGED <<row, stages, runner, verdict, handler, outside, lock, faults, torn,
                       seen>>
        /\ file' = [repoint.read EXCEPT !.base = @ + 1]
        /\ repoint' = [repoint EXCEPT !.pc = "written"] /\ repoint.pc = "read"
    BY <1>3, Zenon DEF RepointWrites
  <2>2. repoint \in [pc : {"idle", "read", "written"}, read : File]
    BY DEF TypeInv, TypeOK
  <2>3. repoint.read \in File /\ repoint.read.base + 1 \in 0 .. MaxBaseline
    BY <2>1, <2>2 DEF TypeInv, File
  <2>4. file' \in File
    BY <2>1, <2>3 DEF File
  <2>5. /\ repoint' \in [pc : {"idle", "read", "written"}, read : File]
        /\ repoint'.pc = "written"
    BY <2>1, <2>2
  <2>6. QED
    BY <2>1, <2>4, <2>5 DEF TypeInv, TypeOK
<1>4. QED
  BY <1>2, <1>3

\* What the ends of a re-point may leave of the two copies.
LEMMA CopiesType ==
    ASSUME TypeInv
    PROVE  /\ RowRepointed => row' \in [state : Statuses, base : 0 .. MaxBaseline]
           /\ LeftWithTheFile =>
                 torn' \in BOOLEAN /\ row' \in [state : Statuses, base : 0 .. MaxBaseline]
<1>1. file.base \in 0 .. MaxBaseline /\ row \in [state : Statuses, base : 0 .. MaxBaseline]
  BY DEF TypeInv, TypeOK, File
<1>2. RowRepointed => row' \in [state : Statuses, base : 0 .. MaxBaseline]
  BY <1>1 DEF RowRepointed
<1>3. QED
  BY <1>1, <1>2 DEF LeftWithTheFile

LEMMA RepointEndsType ==
    ASSUME TypeInv, RepointEnds,
           file' \in File, row' \in [state : Statuses, base : 0 .. MaxBaseline],
           faults' \in 0 .. MaxFaults, seen' \subseteq Faults \cup Outsiders,
           torn' \in BOOLEAN
    PROVE  TypeInv'
<1>1. /\ lock' = "nobody" /\ repoint' = [pc |-> "idle", read |-> NewFile]
      /\ UNCHANGED <<stages, runner, verdict, handler, outside>>
  BY Zenon DEF RepointEnds
<1>2. repoint' \in [pc : {"idle", "read", "written"}, read : File] /\ repoint'.pc = "idle"
  BY <1>1, FreeType
<1>3. QED
  BY <1>1, <1>2 DEF TypeInv, TypeOK

LEMMA TypeRepointEnds ==
    ASSUME TypeInv, RepointStores \/ RepointRefused \/ RepointStuck \/ RepointCut
    PROVE  TypeInv'
<1>1. /\ file \in File /\ repoint.read \in File /\ torn \in BOOLEAN
      /\ row \in [state : Statuses, base : 0 .. MaxBaseline]
  BY DEF TypeInv, TypeOK
<1>2. CASE RepointStores
  <2>1. faults' \in 0 .. MaxFaults /\ seen' \subseteq Faults \cup Outsiders
    BY <1>2, FaultType, Zenon DEF RepointStores
  <2>2. QED
    BY <1>1, <1>2, <2>1, CopiesType, RepointEndsType DEF RepointStores
<1>3. CASE RepointRefused
  <2>1. faults' \in 0 .. MaxFaults /\ seen' \subseteq Faults \cup Outsiders
    BY <1>3, FaultType, Zenon DEF RepointRefused
  <2>2. QED
    BY <1>1, <1>3, <2>1, CopiesType, RepointEndsType DEF RepointRefused
<1>4. CASE RepointStuck
  <2>1. faults' \in 0 .. MaxFaults /\ seen' \subseteq Faults \cup Outsiders
    BY <1>4 DEF RepointStuck, TypeInv, TypeOK
  <2>2. QED
    BY <1>1, <1>4, <2>1, CopiesType, RepointEndsType DEF RepointStuck
<1>5. CASE RepointCut
  <2>1. faults' \in 0 .. MaxFaults /\ seen' \subseteq Faults \cup Outsiders
    BY <1>5, FaultType, Zenon DEF RepointCut
  <2>2. QED
    BY <1>1, <1>5, <2>1, CopiesType, RepointEndsType DEF RepointCut
<1>6. QED
  BY <1>2, <1>3, <1>4, <1>5

LEMMA TypeRestarts == ASSUME TypeInv, Restarts PROVE TypeInv'
<1>1. /\ handler' = [h \in Handlers |-> Free] /\ lock' = "nobody"
      /\ outside' = [o \in Outsiders |-> IF o \in seen THEN <<>> ELSE outside[o]]
      /\ repoint' = [pc |-> "idle", read |-> NewFile]
      /\ UNCHANGED <<file, stages, verdict>>
  BY Zenon DEF Restarts
<1>2. faults' \in 0 .. MaxFaults /\ seen' \subseteq Faults \cup Outsiders
  BY FaultType, Zenon DEF Restarts
<1>3. RunnerTyped'
  BY AttemptEnded, Zenon DEF Restarts
<1>4. torn' \in BOOLEAN /\ row' \in [state : Statuses, base : 0 .. MaxBaseline]
  BY CopiesType DEF Restarts, TypeInv, TypeOK
<1>5. outside' \in [Outsiders -> Seq(Statement)]
  BY <1>1 DEF TypeInv, TypeOK
<1>6. /\ handler' \in [Handlers -> Handler]
      /\ \A h \in Handlers : handler'[h].pc = "free"
      /\ repoint' \in [pc : {"idle", "read", "written"}, read : File] /\ repoint'.pc = "idle"
  BY <1>1, FreeType DEF Free
<1>7. QED
  BY <1>1, <1>2, <1>3, <1>4, <1>5, <1>6 DEF TypeInv, TypeOK, Handler, RunnerTyped, Runner

LEMMA TypeNext == TypeInv /\ [Next]_vars => TypeInv'
<1> SUFFICES ASSUME TypeInv, [Next]_vars PROVE TypeInv'
  OBVIOUS
<1>1. CASE UNCHANGED vars
  BY <1>1 DEF vars, TypeInv, TypeOK
<1>2. CASE Next
  BY <1>1, <1>2, TypeSend, TypeTimesOut, TypeHandlerReads, TypeHandlerWrites,
     TypeHandlerStores, TypeOutside, TypeRepoint, TypeRepointEnds, TypeRestarts,
     Zenon DEF Next, Done
<1>3. QED
  BY <1>1, <1>2

LEMMA TypeAlways == Spec => []TypeInv
BY TypeInit, TypeNext, PTL DEF Spec

\* Every reachable state of a run's two copies, its runner and its handlers is
\* well typed: a handler at the store always has a statement left, attempts
\* and re-points keep within their bounds.
THEOREM IngestTypeCorrect == Spec => []TypeOK
<1>1. TypeInv => TypeOK
  BY DEF TypeInv
<1>2. QED
  BY TypeAlways, <1>1, PTL

-----------------------------------------------------------------------------
(* The mutex.                                                              *)

\* Who has read the file and not written it yet holds the mutex, and the file
\* is as it was read; an event that would be dropped is not under way.  A
\* re-point holds the mutex throughout, and what it puts back on a failure is
\* a file that names the row's baseline, unless an earlier one was cut short.
LockInv ==
    /\ \A h \in Handlers : handler[h].pc = "read" =>
          lock = h /\ handler[h].read = file /\ ~Dropped(handler[h].ev)
    /\ repoint.pc # "idle" <=> lock = "repoint"
    /\ repoint.pc # "idle" /\ ~torn => repoint.read.base = row.base
    /\ repoint.pc = "read" => repoint.read = file
    /\ repoint.pc = "written" =>
          repoint.read.status = file.status /\ repoint.read.stage = file.stage
    /\ BaselinesAgree

LEMMA LockInit == Init => LockInv
<1> SUFFICES ASSUME Init PROVE LockInv
  OBVIOUS
<1>1. /\ \A h \in Handlers : handler[h].pc = "free"
      /\ repoint.pc = "idle" /\ lock = "nobody" /\ file.base = row.base
  BY DEF Init, Free, NewFile
<1>2. QED
  BY <1>1 DEF LockInv, BaselinesAgree

\* A step that leaves the file, the mutex, the re-point and the row's baseline
\* alone, and of the handlers changes only such as do not come to have read.
LEMMA LockAlone ==
    ASSUME LockInv, UNCHANGED <<file, lock, repoint, torn>>, row'.base = row.base,
           \A h \in Handlers : handler'[h] = handler[h] \/ handler'[h].pc # "read"
    PROVE  LockInv'
<1>1. ASSUME NEW h \in Handlers, handler'[h].pc = "read"
      PROVE  (lock = h /\ handler[h].read = file /\ ~Dropped(handler[h].ev))'
  <2>1. handler'[h] = handler[h]
    BY <1>1
  <2>2. lock = h /\ handler[h].read = file /\ ~Dropped(handler[h].ev)
    BY <1>1, <2>1 DEF LockInv
  <2>3. QED
    BY <2>1, <2>2 DEF Dropped
<1>2. QED
  BY <1>1 DEF LockInv, BaselinesAgree

LEMMA LockSend ==
    ASSUME TypeInv, LockInv, NEW h \in Handlers, Send(h) PROVE LockInv'
<1>1. UNCHANGED <<file, row, lock, repoint, torn>>
  BY Zenon DEF Send
<1>2. \A g \in Handlers : handler'[g] = handler[g] \/ handler'[g].pc # "read"
  <2>1. CASE UNCHANGED handler
    BY <2>1
  <2>2. CASE handler' = [handler EXCEPT ![h] =
                           [Free EXCEPT !.pc = "arrived", !.ev = Events[runner.at]]]
    <3> DEFINE new == [Free EXCEPT !.pc = "arrived", !.ev = Events[runner.at]]
    <3>1. Events[runner.at] \in Event
      <4>1. runner.at \in 1 .. Len(Events)
        BY EventsType DEF Send, TypeInv, TypeOK
      <4>2. QED
        BY <4>1, EventType
    <3>2. new.pc = "arrived"
      BY <3>1, ArrivedType, Zenon
    <3>3. handler' = [handler EXCEPT ![h] = new] /\ handler \in [Handlers -> Handler]
      BY <2>2 DEF TypeInv, TypeOK, Handler
    <3> HIDE DEF new
    <3>4. QED
      BY <3>2, <3>3
  <2>3. QED
    BY <2>1, <2>2, Zenon DEF Send
<1>3. QED
  BY <1>1, <1>2, LockAlone

LEMMA LockTimesOut ==
    ASSUME TypeInv, LockInv, NEW h \in Handlers, TimesOut(h) PROVE LockInv'
<1>1. UNCHANGED <<file, row, repoint, torn>>
  BY Zenon DEF TimesOut
<1>2. CASE UNCHANGED <<handler, lock>>
  BY <1>1, <1>2, LockAlone
<1>3. CASE /\ handler' = [handler EXCEPT ![h] = Free]
           /\ lock' = IF lock = h THEN "nobody" ELSE lock
  <2>1. handler \in [Handlers -> Handler] /\ Free.pc = "free"
    BY DEF TypeInv, TypeOK, Handler, Free
  <2>2. ASSUME NEW g \in Handlers, handler'[g].pc = "read"
        PROVE  (lock = g /\ handler[g].read = file /\ ~Dropped(handler[g].ev))'
    <3>1. g # h /\ handler'[g] = handler[g]
      BY <1>3, <2>1, <2>2
    <3>2. lock = g /\ handler[g].read = file /\ ~Dropped(handler[g].ev)
      BY <2>2, <3>1 DEF LockInv
    <3>3. QED
      BY <1>1, <1>3, <3>1, <3>2 DEF Dropped
  <2>3. repoint.pc # "idle" <=> lock' = "repoint"
    BY <1>3 DEF LockInv
  <2>4. lock' # "repoint" => lock # "repoint"
    BY <1>3
  <2>5. QED
    BY <1>1, <2>2, <2>3, <2>4 DEF LockInv, BaselinesAgree
<1>4. QED
  BY <1>2, <1>3, Zenon DEF TimesOut

LEMMA LockHandlerReads ==
    ASSUME TypeInv, LockInv, NEW h \in Handlers, HandlerReads(h) PROVE LockInv'
<1>1. UNCHANGED <<file, row, repoint, torn>> /\ lock = "nobody"
  BY Zenon DEF HandlerReads, MayEnter
<1>2. handler \in [Handlers -> Handler] /\ Free.pc = "free"
  BY DEF TypeInv, TypeOK, Handler, Free
<1>3. CASE Respond(h) /\ UNCHANGED lock
  <2>1. \A g \in Handlers : handler'[g] = handler[g] \/ handler'[g].pc # "read"
    BY <1>2, <1>3 DEF Respond
  <2>2. QED
    BY <1>1, <1>3, <2>1, LockAlone
<1>4. CASE /\ ~Dropped(handler[h].ev) /\ lock' = h
           /\ handler' = [handler EXCEPT ![h].pc = "read", ![h].read = file]
  <2> DEFINE new == [handler[h] EXCEPT !.pc = "read", !.read = file]
  <2>1. new.read = file /\ new.ev = handler[h].ev
    BY <1>2 DEF Handler
  <2>2. handler' = [handler EXCEPT ![h] = new]
    BY <1>4
  <2> HIDE DEF new
  <2>3. ASSUME NEW g \in Handlers, handler'[g].pc = "read"
        PROVE  (lock = g /\ handler[g].read = file /\ ~Dropped(handler[g].ev))'
    <3>1. CASE g = h
      BY <1>1, <1>2, <1>4, <2>1, <2>2, <3>1 DEF Dropped
    <3>2. CASE g # h
      <4>1. handler[g].pc = "read"
        BY <1>2, <2>2, <2>3, <3>2
      <4>2. QED
        BY <1>1, <4>1 DEF LockInv
    <3>3. QED
      BY <3>1, <3>2
  <2>4. repoint.pc = "idle" /\ (~torn => file.base = row.base)
    BY <1>1 DEF LockInv, BaselinesAgree
  <2>5. lock' # "repoint"
    BY <1>4
  <2>6. QED
    BY <1>1, <2>3, <2>4, <2>5 DEF LockInv, BaselinesAgree
<1>5. QED
  BY <1>3, <1>4, Zenon DEF HandlerReads

\* An event that was not dropped leaves the baseline alone and, once there is
\* a verdict, the verdict and the stage.
LEMMA MirrorKeeps ==
    ASSUME TypeInv, LockInv, NEW h \in Handlers, handler[h].pc = "read"
    PROVE  LET to == Mirror(handler[h].read, handler[h].ev)
           IN /\ to.base = file.base
              /\ file.status \in Verdicts => to.status = file.status /\ to.stage = file.stage
<1>1. handler[h].read = file /\ ~Dropped(handler[h].ev)
  BY DEF LockInv
<1>2. file \in File /\ handler[h].ev \in Event /\ verdict \in Verdicts
  BY DEF TypeInv, TypeOK
<1>3. file.status \in Verdicts => handler[h].ev.kind = "recording"
  BY <1>1, <1>2 DEF Dropped, Event
<1>4. Mirror(file, handler[h].ev).base = file.base
  BY <1>2, MirrorType
<1>5. QED
  BY <1>1, <1>3, <1>4 DEF Mirror

LEMMA LockHandlerWrites ==
    ASSUME TypeInv, LockInv, NEW h \in Handlers, HandlerWrites(h) PROVE LockInv'
<1> DEFINE new == [Free EXCEPT !.pc = "storing", !.todo = Apply(handler[h].ev)]
<1>1. /\ UNCHANGED <<row, repoint, torn>> /\ handler[h].pc = "read" /\ lock' = "nobody"
      /\ \/ file' = Mirror(handler[h].read, handler[h].ev) \/ file' = file
      /\ \/ handler' = [handler EXCEPT ![h] = new]
         \/ handler' = [handler EXCEPT ![h] = Free]
  BY Zenon DEF HandlerWrites
<1>2. handler \in [Handlers -> Handler] /\ new.pc = "storing" /\ Free.pc = "free"
  BY DEF TypeInv, TypeOK, Handler, Free
<1> HIDE DEF new
<1>3. lock = h /\ h # "repoint"
  BY <1>1 DEF LockInv
<1>4. \A g \in Handlers : handler'[g].pc # "read"
  <2>1. \A g \in Handlers : g # h => handler[g].pc # "read"
    BY <1>3 DEF LockInv
  <2>2. QED
    BY <1>1, <1>2, <2>1
<1>5. repoint.pc = "idle" /\ (~torn => file.base = row.base)
  BY <1>3 DEF LockInv, BaselinesAgree
<1>6. file'.base = file.base
  BY <1>1, MirrorKeeps
<1>7. QED
  BY <1>1, <1>4, <1>5, <1>6 DEF LockInv, BaselinesAgree

LEMMA LockHandlerStores ==
    ASSUME TypeInv, LockInv, NEW h \in Handlers, HandlerStores(h) PROVE LockInv'
<1>1. UNCHANGED <<file, lock, repoint, torn>> /\ handler[h].pc = "storing"
  BY Zenon DEF HandlerStores
<1>2. /\ handler \in [Handlers -> Handler] /\ Free.pc = "free"
      /\ handler[h].todo \in Seq(Statement) /\ handler[h].todo # <<>>
  BY <1>1 DEF TypeInv, TypeOK, Handler, Free
<1>3. row'.base = row.base
  <2>1. CASE Execute(Head(handler[h].todo))
    <3>1. Head(handler[h].todo) \in Statement
      BY <1>2
    <3>2. QED
      BY <2>1, <3>1, ExecuteType
  <2>2. CASE UNCHANGED <<stages, row>>
    BY <2>2
  <2>3. QED
    BY <2>1, <2>2, Zenon DEF HandlerStores
<1>4. \A g \in Handlers : handler'[g] = handler[g] \/ handler'[g].pc # "read"
  <2>1. CASE Respond(h)
    BY <1>2, <2>1 DEF Respond
  <2>2. CASE handler' = [handler EXCEPT ![h].todo = Tail(@)]
    <3> DEFINE rest == Tail(handler[h].todo)
               new == [handler[h] EXCEPT !.todo = rest]
    <3>1. handler' = [handler EXCEPT ![h] = new]
      BY <2>2
    <3> HIDE DEF rest
    <3>2. new.pc = "storing"
      BY <1>1, <1>2 DEF Handler
    <3> HIDE DEF new
    <3>3. QED
      BY <1>2, <3>1, <3>2
  <2>3. QED
    BY <2>1, <2>2, Zenon DEF HandlerStores
<1>5. QED
  BY <1>1, <1>3, <1>4, LockAlone

LEMMA LockOutside ==
    ASSUME TypeInv, LockInv, NEW o \in Outsiders, Outside(o) PROVE LockInv'
<1>1. /\ UNCHANGED <<file, handler, lock, repoint, torn>>
      /\ Execute(Head(outside[o])) /\ outside[o] # <<>>
  BY Zenon DEF Outside
<1>2. Head(outside[o]) \in Statement
  BY <1>1 DEF TypeInv, TypeOK
<1>3. row'.base = row.base
  BY <1>1, <1>2, ExecuteType
<1>4. QED
  BY <1>1, <1>3, LockAlone

LEMMA LockRepoint ==
    ASSUME TypeInv, LockInv, RepointReads \/ RepointWrites PROVE LockInv'
<1>1. file \in File /\ repoint.read \in File
  BY DEF TypeInv, TypeOK
<1>2. UNCHANGED <<handler, torn>>
  BY Zenon DEF RepointReads, RepointWrites
<1>3. CASE RepointReads
  <2>1. /\ UNCHANGED <<file, row>> /\ lock = "nobody" /\ lock' = "repoint"
        /\ repoint' = [pc |-> "read", read |-> file]
    BY <1>3, Zenon DEF RepointReads
  <2>2. (~torn => file.base = row.base) /\ \A h \in Handlers : handler[h].pc # "read"
    BY <2>1 DEF LockInv, BaselinesAgree
  <2>3. QED
    BY <1>2, <2>1, <2>2 DEF LockInv, BaselinesAgree
<1>4. CASE RepointWrites
  <2>1. /\ UNCHANGED <<row, lock>> /\ repoint.pc = "read"
        /\ file' = [repoint.read EXCEPT !.base = @ + 1]
        /\ repoint' = [repoint EXCEPT !.pc = "written"]
    BY <1>4, Zenon DEF RepointWrites
  <2>2. lock = "repoint" /\ (~torn => repoint.read.base = row.base)
    BY <2>1 DEF LockInv
  <2>3. \A h \in Handlers : handler[h].pc # "read"
    BY <2>2 DEF LockInv
  <2>4. /\ repoint'.pc = "written" /\ repoint'.read = repoint.read
        /\ file'.status = repoint.read.status /\ file'.stage = repoint.read.stage
    <3>1. repoint \in [pc : {"idle", "read", "written"}, read : File]
      BY DEF TypeInv, TypeOK
    <3>2. QED
      BY <1>1, <2>1, <3>1 DEF File
  <2>5. QED
    BY <1>2, <2>1, <2>2, <2>3, <2>4 DEF LockInv, BaselinesAgree
<1>5. QED
  BY <1>3, <1>4

\* A row that has taken the re-point names the file's baseline.
LEMMA RowTakesBaseline ==
    ASSUME TypeInv, RowRepointed PROVE row'.base = file.base /\ row'.state = row.state
BY DEF TypeInv, TypeOK, RowRepointed

\* However a re-point ends, the copies agree or the end is on record.
LEMMA EndAgrees ==
    ASSUME TypeInv, LockInv, RepointStores \/ RepointRefused \/ RepointStuck \/ RepointCut
    PROVE  ~torn' => file'.base = row'.base
<1>1. CASE RepointStores
  BY <1>1, RowTakesBaseline DEF RepointStores
<1>2. CASE RepointRefused
  <2>1. file' = repoint.read /\ (~torn => repoint.read.base = row.base)
    BY <1>2 DEF RepointRefused, LockInv
  <2>2. torn' = TRUE \/ UNCHANGED <<row, torn>>
    BY <1>2, Zenon DEF RepointRefused
  <2>3. QED
    BY <2>1, <2>2
<1>3. CASE RepointStuck
  BY <1>3, RowTakesBaseline DEF RepointStuck, LeftWithTheFile
<1>4. CASE RepointCut
  <2>1. CASE repoint.pc = "read" /\ UNCHANGED <<row, torn>>
    BY <1>4, <2>1 DEF RepointCut, LockInv
  <2>2. CASE LeftWithTheFile
    BY <1>4, <2>2, RowTakesBaseline DEF RepointCut, LeftWithTheFile
  <2>3. QED
    BY <1>4, <2>1, <2>2, Zenon DEF RepointCut
<1>5. QED
  BY <1>1, <1>2, <1>3, <1>4

LEMMA LockRepointEnds ==
    ASSUME TypeInv, LockInv, RepointStores \/ RepointRefused \/ RepointStuck \/ RepointCut
    PROVE  LockInv'
<1>1. RepointEnds /\ repoint.pc # "idle"
  BY DEF RepointStores, RepointRefused, RepointStuck, RepointCut
<1>2. /\ repoint'.pc = "idle" /\ UNCHANGED handler /\ lock = "repoint" /\ lock' = "nobody"
  BY <1>1 DEF RepointEnds, LockInv
<1>3. \A h \in Handlers : handler[h].pc # "read"
  BY <1>2 DEF LockInv
<1>4. QED
  BY <1>2, <1>3, EndAgrees DEF LockInv, BaselinesAgree

LEMMA LockRestarts == ASSUME TypeInv, LockInv, Restarts PROVE LockInv'
<1>1. /\ handler' = [h \in Handlers |-> Free] /\ UNCHANGED file
      /\ repoint' = [pc |-> "idle", read |-> NewFile] /\ lock' = "nobody"
  BY Zenon DEF Restarts
<1>2. (\A h \in Handlers : handler'[h].pc = "free") /\ repoint'.pc = "idle"
  BY <1>1 DEF Free
<1>3. ~torn' => file'.base = row'.base
  <2>1. CASE repoint.pc = "written"
    BY <1>1, <2>1, RowTakesBaseline DEF Restarts, LeftWithTheFile
  <2>2. CASE repoint.pc # "written" /\ UNCHANGED <<row, torn>>
    <3>1. repoint.pc = "read" \/ repoint.pc = "idle"
      BY <2>2 DEF TypeInv, TypeOK
    <3>2. ~torn => file.base = row.base
      BY <3>1 DEF LockInv, BaselinesAgree
    <3>3. QED
      BY <1>1, <2>2, <3>2
  <2>3. QED
    BY <2>1, <2>2, Zenon DEF Restarts
<1>4. QED
  BY <1>1, <1>2, <1>3 DEF LockInv, BaselinesAgree

LEMMA LockNext == TypeInv /\ LockInv /\ [Next]_vars => LockInv'
<1> SUFFICES ASSUME TypeInv, LockInv, [Next]_vars PROVE LockInv'
  OBVIOUS
<1>1. CASE UNCHANGED vars
  <2>1. UNCHANGED <<file, lock, repoint, torn, row, handler>>
    BY <1>1, Zenon DEF vars
  <2>2. QED
    BY <2>1, LockAlone
<1>2. CASE Next
  BY <1>1, <1>2, LockSend, LockTimesOut, LockHandlerReads, LockHandlerWrites,
     LockHandlerStores, LockOutside, LockRepoint, LockRepointEnds, LockRestarts,
     Zenon DEF Next, Done
<1>3. QED
  BY <1>1, <1>2

LEMMA LockAlways == Spec => []LockInv
BY TypeAlways, LockInit, LockNext, PTL DEF Spec

\* Outside a re-point the file and the row name the same baseline, unless a
\* re-point was itself cut short between the two: no late, cancelled or repeated
\* event, no failing statement, no restart and no outsider erases a re-point in
\* one of the two copies.
THEOREM BaselinesAlwaysAgree == Spec => []BaselinesAgree
<1>1. LockInv => BaselinesAgree
  BY DEF LockInv
<1>2. QED
  BY LockAlways, <1>1, PTL

\* No step changes the verdict or the stage of a file that has a verdict.
LEMMA VerdictStep ==
    ASSUME TypeInv, LockInv, Next
    PROVE  [file.status \in Verdicts =>
              file'.status = file.status /\ file'.stage = file.stage]_file
<1>1. ASSUME NEW h \in Handlers, HandlerWrites(h), file.status \in Verdicts
      PROVE  file'.status = file.status /\ file'.stage = file.stage
  <2>1. /\ handler[h].pc = "read"
        /\ file' = Mirror(handler[h].read, handler[h].ev) \/ file' = file
    BY <1>1, Zenon DEF HandlerWrites
  <2>2. QED
    BY <1>1, <2>1, MirrorKeeps
<1>2. ASSUME RepointWrites PROVE file'.status = file.status /\ file'.stage = file.stage
  <2>1. repoint.pc = "read" /\ file' = [repoint.read EXCEPT !.base = @ + 1]
    BY <1>2, Zenon DEF RepointWrites
  <2>2. repoint.read = file /\ file \in File
    BY <2>1 DEF LockInv, TypeInv, TypeOK
  <2>3. QED
    BY <2>1, <2>2 DEF File
<1>3. ASSUME RepointRefused
      PROVE  file'.status = file.status /\ file'.stage = file.stage
  <2>1. repoint.pc = "written" /\ file' = repoint.read
    BY <1>3, Zenon DEF RepointRefused
  <2>2. QED
    BY <2>1 DEF LockInv
<1>4. CASE \E h \in Handlers : \/ Send(h) \/ TimesOut(h) \/ HandlerReads(h)
                               \/ HandlerStores(h)
  BY <1>4, Zenon DEF Send, TimesOut, HandlerReads, HandlerStores
<1>5. CASE \/ \E o \in Outsiders : Outside(o)
           \/ RepointReads \/ RepointStores \/ RepointStuck \/ RepointCut
           \/ Restarts \/ Done
  BY <1>5, Zenon DEF Outside, RepointReads, RepointStores, RepointStuck, RepointCut,
                     Restarts, Done, vars
<1>6. QED
  BY <1>1, <1>2, <1>3, <1>4, <1>5, Zenon DEF Next

\* Once the file has a verdict nothing changes its verdict or its stage: not a
\* retry, a handler that ran on behind its time-out, nor a re-point.
THEOREM FileVerdictStands == Spec => FileVerdictIsFinal
<1>1. TypeInv /\ LockInv /\ [Next]_vars =>
        [file.status \in Verdicts =>
           file'.status = file.status /\ file'.stage = file.stage]_file
  BY VerdictStep, Zenon DEF vars
<1>2. QED
  BY TypeAlways, LockAlways, <1>1, PTL DEF Spec, FileVerdictIsFinal

-----------------------------------------------------------------------------
(* Pushes that were at worst lost and retried.                             *)

\* How many stages the events before event `at' open.
Opened(at) == IF at = 1 THEN 0 ELSE IF at = 2 THEN 1
              ELSE IF at <= Stages + 2 THEN at - 2 ELSE Stages

\* How many events the file shows.
Storing == \E h \in Handlers : handler[h].pc = "storing"
Written == IF Storing THEN runner.at ELSE runner.at - 1

\* What handler h has left of the runner's event: all its statements, or the
\* last one.
LeftOver(h) ==
    LET all == Apply(Events[runner.at])
    IN \/ handler[h].todo = all
       \/ Len(all) = 2 /\ handler[h].todo = <<all[2]>>

NoneRunning == \A i \in DOMAIN stages : stages[i].status # "running"

\* A Finish of which only the row is left to settle.
LastStatement ==
    /\ runner.at = Len(Events)
    /\ \E h \in Handlers : handler[h].pc = "storing" /\ Len(handler[h].todo) = 1

\* The events are pushed one at a time: no attempt but a lost one failed, the
\* file shows what was written and the store the stages of what was pushed.
PushedInTurn ==
    /\ \A h \in Handlers : handler[h].pc # "free" =>
          /\ runner.waits = h
          /\ handler[h].pc \in {"arrived", "read"} => handler[h].ev = Events[runner.at]
    /\ runner.tries <= (MaxFaults - faults) + (IF runner.waits = "nobody" THEN 0 ELSE 1)
    /\ file.status = IF Written = Len(Events) THEN verdict ELSE "active"
    /\ file.stage = Opened(Written + 1)
    /\ Len(stages) = Opened(runner.at)
    /\ \A i \in DOMAIN stages : stages[i].stage = i
    /\ \A h \in Handlers : handler[h].pc = "storing" => LeftOver(h)

\* And nobody else has settled the run.
SettledByPush ==
    /\ row.state = IF runner.at > Len(Events) THEN verdict ELSE "active"
    /\ runner.at > Len(Events) \/ LastStatement => NoneRunning

PushInv ==
    /\ PushedThrough(Outsiders) => PushedInTurn
    /\ PushedThrough({}) => SettledByPush
    /\ \A o \in Outsiders : \A i \in DOMAIN outside[o] : outside[o][i].do # "open"

-----------------------------------------------------------------------------
LEMMA OpenedAt ==
    ASSUME NEW at \in 1 .. Len(Events)
    PROVE  /\ Opened(at) \in 0 .. Stages
           /\ Events[at].kind = "stage" =>
                 Opened(at + 1) = Events[at].n /\ Opened(at) = Events[at].n - 1
           /\ Events[at].kind # "stage" => Opened(at + 1) = Opened(at)
           /\ Events[at].kind = "finish" <=> at = Len(Events)
           /\ Events[at] \in Event
<1>1. at \in 1 .. Stages + 2 /\ Len(Events) = Stages + 2 /\ Events[at] \in Event
  BY EventsType, EventType
<1>2. Events[at] = IF at = 1 THEN [kind |-> "stage", n |-> 1]
                   ELSE IF at = 2 THEN [kind |-> "recording", n |-> 0]
                   ELSE IF at = Stages + 2 THEN [kind |-> "finish", n |-> 0]
                   ELSE [kind |-> "stage", n |-> at - 1]
  BY EventsType
<1>3. CASE at = 1
  BY <1>1, <1>2, <1>3 DEF Opened
<1>4. CASE at = 2
  BY <1>1, <1>2, <1>4 DEF Opened
<1>5. CASE at = Stages + 2 /\ at > 2
  BY <1>1, <1>2, <1>5 DEF Opened
<1>6. CASE at > 2 /\ at < Stages + 2
  BY <1>1, <1>2, <1>6 DEF Opened
<1>7. QED
  BY <1>1, <1>3, <1>4, <1>5, <1>6

\* What was calm after a step was calm before it.
LEMMA CalmBefore ==
    ASSUME TypeInv, NEW S, PushedThrough(S)', NoFault \/ (\E k : Fault(k)) \/
           (\E o : seen' = seen \cup {o} /\ UNCHANGED faults)
    PROVE  PushedThrough(S)
<1>1. MaxFaults \in Nat /\ faults \in 0 .. MaxFaults /\ Attempts \in Nat
  BY DEF TypeInv, TypeOK
<1>2. seen' \subseteq {"lost"} \cup S /\ MaxFaults - faults' < Attempts
  BY DEF PushedThrough
<1>3. seen \subseteq seen' /\ (faults' = faults \/ faults' = faults - 1)
  BY Zenon DEF NoFault, Fault
<1>4. MaxFaults - faults < Attempts
  BY <1>1, <1>2, <1>3
<1>5. QED
  BY <1>2, <1>3, <1>4, Zenon DEF PushedThrough

\* What holds of the pushes when nobody else interferes holds when others do.
LEMMA CalmWeaker == PushedThrough({}) => PushedThrough(Outsiders)
BY DEF PushedThrough

LEMMA PushInit == Init => PushInv
<1> SUFFICES ASSUME Init PROVE PushInv
  OBVIOUS
<1>1. /\ \A h \in Handlers : handler[h].pc = "free"
      /\ runner = [at |-> 1, tries |-> 0, waits |-> "nobody"]
      /\ file.status = "active" /\ file.stage = 0
      /\ stages = <<>> /\ row.state = "active" /\ faults = MaxFaults
  BY DEF Init, Free, NewFile
<1>2. DOMAIN stages = {} /\ Len(stages) = 0
  BY <1>1
<1>3. Len(Events) \in Nat /\ Len(Events) > 1 /\ MaxFaults \in Nat
  BY EventsType
<1>4. ~Storing /\ ~LastStatement /\ Written = 0
  BY <1>1 DEF Storing, LastStatement, Written
<1>5. PushedInTurn /\ SettledByPush
  BY <1>1, <1>2, <1>3, <1>4 DEF PushedInTurn, SettledByPush, Opened
<1>6. ASSUME NEW o \in Outsiders, NEW i \in DOMAIN outside[o]
      PROVE  outside[o][i].do # "open"
  <2>1. outside[o] = IF o = "kill" THEN FinishRun("failed") ELSE <<SettleRow("failed")>>
    BY DEF Init
  <2>2. QED
    BY <1>6, <2>1 DEF FinishRun, CloseStage, SettleRow
<1>7. QED
  BY <1>5, <1>6 DEF PushInv

\* Any fault but a lost request ends what is promised of the pushes.
LEMMA PushFault ==
    ASSUME NEW k \in seen', k \notin {"lost"} \cup Outsiders,
           \A o \in Outsiders : \A i \in DOMAIN outside'[o] : outside'[o][i].do # "open"
    PROVE  PushInv'
<1>1. ~PushedThrough(Outsiders)' /\ ~PushedThrough({})'
  BY DEF PushedThrough
<1>2. QED
  BY <1>1 DEF PushInv

LEMMA PushSend ==
    ASSUME TypeInv, PushInv, NEW h \in Handlers, Send(h) PROVE PushInv'
<1>1. /\ UNCHANGED <<file, row, stages, verdict, outside>>
      /\ runner.waits = "nobody" /\ runner.at <= Len(Events)
  BY Zenon DEF Send
<1>2. NoFault \/ Fault("lost")
  BY Zenon DEF Send
<1>3. /\ runner \in Runner /\ handler \in [Handlers -> Handler]
      /\ faults \in 0 .. MaxFaults /\ MaxFaults \in Nat /\ Attempts \in Nat
  BY DEF TypeInv, TypeOK, Runner, Handler
<1>4. ASSUME PushedThrough(Outsiders)'
      PROVE  /\ PushedInTurn'
             /\ runner'.at = runner.at /\ (LastStatement' => FALSE)
  <2>1. PushedThrough(Outsiders)
    BY <1>2, <1>4, CalmBefore
  <2>2. PushedInTurn
    BY <2>1 DEF PushInv
  <2>3. \A g \in Handlers : handler[g].pc = "free"
    BY <1>1, <2>2 DEF PushedInTurn
  <2>4. ASSUME NoFault, runner' = [runner EXCEPT !.tries = @ + 1, !.waits = h],
               handler' = [handler EXCEPT ![h] =
                             [Free EXCEPT !.pc = "arrived", !.ev = Events[runner.at]]]
        PROVE  <1>4!2
    <3> DEFINE new == [Free EXCEPT !.pc = "arrived", !.ev = Events[runner.at]]
               n == runner.tries + 1
               to == [runner EXCEPT !.tries = n, !.waits = h]
    <3>1. Events[runner.at] \in Event
      BY <1>1, <1>3, EventType DEF Runner
    <3>2. new.pc = "arrived" /\ new.ev = Events[runner.at]
      BY <3>1, ArrivedType, Zenon
    <3>3. n \in 0 .. Attempts /\ n = runner.tries + 1
      BY <1>1, <1>3 DEF Runner, TypeInv
    <3>4. handler' = [handler EXCEPT ![h] = new] /\ runner' = to
      BY <2>4
    <3> HIDE DEF new, n
    <3>5. to.waits = h /\ to.tries = n /\ to.at = runner.at
      BY <1>3 DEF Runner
    <3> HIDE DEF to
    <3>6. \A g \in Handlers : g # h => handler'[g].pc = "free"
      BY <1>3, <2>3, <3>4
    <3>7. handler'[h] = new
      BY <1>3, <3>4
    <3>8. ~Storing /\ ~Storing' /\ ~LastStatement'
      BY <2>3, <3>2, <3>6, <3>7 DEF Storing, LastStatement
    <3>9. Written' = Written
      BY <3>4, <3>5, <3>8 DEF Written
    <3>10. runner'.tries <= (MaxFaults - faults') + 1 /\ runner'.waits # "nobody"
      <4>1. runner.tries <= MaxFaults - faults /\ faults' = faults
        BY <1>1, <1>3, <2>2, <2>4 DEF PushedInTurn, NoFault
      <4>2. runner.tries \in Nat
        BY <1>3 DEF Runner
      <4>3. QED
        BY <1>3, <3>3, <3>4, <3>5, <4>1, <4>2
    <3>11. \A g \in Handlers : handler'[g].pc # "free" =>
              /\ runner'.waits = g
              /\ handler'[g].pc \in {"arrived", "read"} => handler'[g].ev = Events[runner'.at]
      BY <3>2, <3>4, <3>5, <3>6, <3>7
    <3>12. \A g \in Handlers : handler'[g].pc # "storing"
      BY <3>8 DEF Storing
    <3>13. QED
      BY <1>1, <2>2, <3>4, <3>5, <3>8, <3>9, <3>10, <3>11, <3>12 DEF PushedInTurn
  <2>5. ASSUME Fault("lost"), runner' = FailedAttempt(runner.tries + 1), handler' = handler
        PROVE  <1>4!2
    <3>1. faults > 0 /\ faults' = faults - 1
      BY <2>5, Zenon DEF Fault
    <3>2. runner.tries <= MaxFaults - faults /\ runner.tries \in Nat
      BY <1>1, <1>3, <2>2 DEF PushedInTurn, Runner
    <3>3. runner.tries + 1 # Attempts
      BY <1>3, <1>4, <3>1, <3>2 DEF PushedThrough
    <3>4. runner' = [runner EXCEPT !.tries = runner.tries + 1, !.waits = "nobody"]
      BY <2>5, <3>3, Zenon DEF FailedAttempt
    <3> DEFINE n == runner.tries + 1
    <3>5. n \in Nat /\ n <= MaxFaults - faults'
      BY <1>3, <3>1, <3>2
    <3>6. runner' = [runner EXCEPT !.tries = n, !.waits = "nobody"]
      BY <3>4
    <3> HIDE DEF n
    <3>7. runner'.at = runner.at /\ runner'.tries = n /\ runner'.waits = "nobody"
      BY <1>3, <3>6 DEF Runner
    <3>8. ~Storing /\ ~Storing' /\ ~LastStatement'
      BY <2>3, <2>5 DEF Storing, LastStatement
    <3>9. Written' = Written
      BY <3>7, <3>8 DEF Written
    <3>10. \A g \in Handlers : handler'[g].pc = "free"
      BY <2>3, <2>5
    <3>11. runner'.tries <= (MaxFaults - faults') + 0
      BY <1>3, <3>1, <3>5, <3>7
    <3>12. QED
      BY <1>1, <2>2, <3>7, <3>8, <3>9, <3>10, <3>11 DEF PushedInTurn
  <2>6. QED
    BY <2>4, <2>5, Zenon DEF Send
<1>5. ASSUME PushedThrough({})' PROVE SettledByPush'
  <2>1. PushedThrough({}) /\ PushedThrough(Outsiders)'
    BY <1>2, <1>5, CalmBefore DEF PushedThrough
  <2>2. SettledByPush /\ runner'.at = runner.at /\ ~LastStatement'
    BY <1>4, <2>1 DEF PushInv
  <2>3. QED
    BY <1>1, <2>2 DEF SettledByPush, NoneRunning
<1>6. QED
  BY <1>1, <1>4, <1>5 DEF PushInv

\* A request that ran into its time-out is a fault of another kind.
LEMMA PushTimesOut ==
    ASSUME TypeInv, PushInv, NEW h \in Handlers, TimesOut(h) PROVE PushInv'
<1>1. /\ UNCHANGED outside
      /\ seen' = seen \cup {"late"} \/ seen' = seen \cup {"cancel"}
  BY Zenon DEF TimesOut, Fault
<1>2. ~PushedThrough(Outsiders)' /\ ~PushedThrough({})'
  BY <1>1 DEF PushedThrough
<1>3. QED
  BY <1>1, <1>2 DEF PushInv

\* A step that changes nothing of what the pushes are about, except perhaps
\* the fields of the file a re-point owns.
LEMMA PushAlone ==
    ASSUME PushInv,
           UNCHANGED <<runner, handler, stages, verdict, outside, seen, faults>>,
           row'.state = row.state, file'.status = file.status, file'.stage = file.stage
    PROVE  PushInv'
<1>1. /\ PushedThrough(Outsiders)' <=> PushedThrough(Outsiders)
      /\ PushedThrough({})' <=> PushedThrough({})
  BY DEF PushedThrough
<1>2. /\ Written' = Written /\ (LastStatement' <=> LastStatement)
      /\ \A h \in Handlers : LeftOver(h)' <=> LeftOver(h)
  BY DEF Written, Storing, LastStatement, LeftOver, Apply, FinishRun
<1>3. QED
  BY <1>1, <1>2 DEF PushInv, PushedInTurn, SettledByPush, NoneRunning

\* Closing what runs opens, removes and renumbers nothing, and leaves none
\* running.
LEMMA ClosedKeeps ==
    ASSUME NEW st, stages \in Seq(Stage)
    PROVE  /\ Len(Closed(st)) = Len(stages) /\ DOMAIN Closed(st) = DOMAIN stages
           /\ \A i \in DOMAIN stages : Closed(st)[i].stage = stages[i].stage
           /\ st # "running" => \A i \in DOMAIN stages : Closed(st)[i].status # "running"
<1>1. /\ DOMAIN Closed(st) = 1 .. Len(stages) /\ Len(stages) \in Nat
      /\ DOMAIN stages = 1 .. Len(stages)
  BY DEF Closed
<1>2. Closed(st) = [i \in 1 .. Len(stages) |-> Closed(st)[i]]
  BY <1>1 DEF Closed
<1>3. Len(Closed(st)) = Len(stages)
  BY <1>1, <1>2
<1>4. ASSUME NEW i \in DOMAIN stages
      PROVE  /\ Closed(st)[i].stage = stages[i].stage
             /\ st # "running" => Closed(st)[i].status # "running"
  <2>1. stages[i] \in Stage
    BY <1>1
  <2>2. Closed(st)[i] = IF stages[i].status = "running"
                        THEN [stages[i] EXCEPT !.status = st] ELSE stages[i]
    BY DEF Closed
  <2>3. QED
    BY <2>1, <2>2 DEF Stage
<1>5. QED
  BY <1>1, <1>3, <1>4

\* While the pushes go in turn the handler that works is the one waited for.
LEMMA OnlyOne ==
    ASSUME PushedInTurn, NEW h \in Handlers, handler[h].pc # "free"
    PROVE  /\ runner.waits = h
           /\ handler[h].pc \in {"arrived", "read"} => handler[h].ev = Events[runner.at]
           /\ \A g \in Handlers : g # h => handler[g].pc = "free"
BY DEF PushedInTurn

\* A step is a fault or it is not.
LEMMA NotBoth == ASSUME TypeInv, NoFault, NEW k PROVE ~Fault(k)
<1>1. faults \in Int /\ faults' = faults
  BY DEF TypeInv, TypeOK, NoFault
<1>2. QED
  BY <1>1 DEF Fault

\* A file call that fails is a fault of another kind.
LEMMA PushFileFails ==
    ASSUME PushInv, NEW h \in Handlers, HandlerReads(h) \/ HandlerWrites(h), Fault("file")
    PROVE  PushInv'
<1>1. UNCHANGED outside /\ "file" \in seen'
  BY Zenon DEF HandlerReads, HandlerWrites, Fault
<1>2. \A o \in Outsiders : \A i \in DOMAIN outside'[o] : outside'[o][i].do # "open"
  BY <1>1 DEF PushInv
<1>3. QED
  BY <1>1, <1>2, PushFault

LEMMA PushHandlerReads ==
    ASSUME TypeInv, PushInv, NEW h \in Handlers, HandlerReads(h), NoFault PROVE PushInv'
<1>1. /\ UNCHANGED <<file, row, stages, verdict, outside, repoint, faults, seen>>
      /\ handler[h].pc = "arrived"
  BY Zenon DEF HandlerReads, NoFault
<1>2. handler \in [Handlers -> Handler] /\ runner \in Runner
  BY DEF TypeInv, TypeOK, Handler, Runner
<1>3. ASSUME PushedThrough(Outsiders)
      PROVE  PushedInTurn' /\ runner'.at = runner.at /\ ~LastStatement'
  <2>1. PushedInTurn
    BY <1>3 DEF PushInv
  <2>2. /\ runner.waits = h /\ handler[h].ev = Events[runner.at]
        /\ \A g \in Handlers : g # h => handler[g].pc = "free"
    BY <1>1, <2>1, OnlyOne
  <2>3. runner.at \in 1 .. Len(Events)
    <3>1. h # "nobody"
      OBVIOUS
    <3>2. QED
      BY <1>2, <2>2, <3>1 DEF TypeInv, Runner
  <2>4. ~Storing
    BY <1>1, <2>2 DEF Storing
  <2>5. ~Dropped(handler[h].ev)
    <3>1. Written # Len(Events)
      BY <2>3, <2>4, EventsType DEF Written
    <3>2. file.status = "active"
      BY <2>1, <3>1 DEF PushedInTurn
    <3>3. QED
      BY <3>2 DEF Dropped, Verdicts
  <2>6. /\ handler' = [handler EXCEPT ![h].pc = "read", ![h].read = file]
        /\ UNCHANGED runner
    BY <2>5, NotBoth, Zenon DEF HandlerReads
  <2> DEFINE new == [handler[h] EXCEPT !.pc = "read", !.read = file]
  <2>7. new.pc = "read" /\ new.ev = handler[h].ev
    BY <1>2 DEF Handler
  <2>8. handler' = [handler EXCEPT ![h] = new]
    BY <2>6
  <2> HIDE DEF new
  <2>9. handler'[h] = new /\ \A g \in Handlers : g # h => handler'[g].pc = "free"
    BY <1>2, <2>2, <2>8
  <2>10. ~Storing' /\ ~LastStatement'
    BY <2>7, <2>9 DEF Storing, LastStatement
  <2>11. Written' = Written
    BY <2>4, <2>6, <2>10 DEF Written
  <2>12. \A g \in Handlers : handler'[g].pc # "free" =>
            /\ runner'.waits = g
            /\ handler'[g].pc \in {"arrived", "read"} => handler'[g].ev = Events[runner'.at]
    BY <2>2, <2>6, <2>7, <2>9
  <2>13. \A g \in Handlers : handler'[g].pc # "storing"
    BY <2>10 DEF Storing
  <2>14. PushedInTurn'
    BY <1>1, <2>1, <2>6, <2>11, <2>12, <2>13 DEF PushedInTurn
  <2>15. QED
    BY <2>6, <2>10, <2>14
<1>4. ASSUME PushedThrough({}) PROVE SettledByPush'
  <2>1. SettledByPush /\ runner'.at = runner.at /\ ~LastStatement'
    BY <1>3, <1>4, CalmWeaker DEF PushInv
  <2>2. QED
    BY <1>1, <2>1 DEF SettledByPush, NoneRunning
<1>5. /\ PushedThrough(Outsiders)' <=> PushedThrough(Outsiders)
      /\ PushedThrough({})' <=> PushedThrough({})
  BY <1>1 DEF PushedThrough
<1>6. QED
  BY <1>1, <1>3, <1>4, <1>5 DEF PushInv

LEMMA PushHandlerWrites ==
    ASSUME TypeInv, LockInv, PushInv, NEW h \in Handlers, HandlerWrites(h), NoFault
    PROVE  PushInv'
<1> DEFINE new == [Free EXCEPT !.pc = "storing", !.todo = Apply(handler[h].ev)]
<1>1. /\ UNCHANGED <<row, stages, runner, verdict, outside, repoint, faults, seen>>
      /\ handler[h].pc = "read" /\ handler' = [handler EXCEPT ![h] = new]
      /\ file' = Mirror(handler[h].read, handler[h].ev)
  BY NotBoth, Zenon DEF HandlerWrites, NoFault
<1>2. /\ handler \in [Handlers -> Handler] /\ runner \in Runner /\ Free \in Handler
      /\ new.pc = "storing" /\ new.todo = Apply(handler[h].ev)
  BY FreeType DEF TypeInv, TypeOK, Handler, Runner, Free
<1> HIDE DEF new
<1>3. ASSUME PushedThrough(Outsiders) PROVE PushedInTurn'
  <2>1. PushedInTurn
    BY <1>3 DEF PushInv
  <2>2. /\ runner.waits = h /\ handler[h].ev = Events[runner.at]
        /\ \A g \in Handlers : g # h => handler[g].pc = "free"
    BY <1>1, <2>1, OnlyOne
  <2>3. runner.at \in 1 .. Len(Events)
    <3>1. h # "nobody"
      OBVIOUS
    <3>2. QED
      BY <1>2, <2>2, <3>1 DEF TypeInv, Runner
  <2>4. handler'[h] = new /\ \A g \in Handlers : g # h => handler'[g].pc = "free"
    BY <1>1, <1>2, <2>2
  <2>5. ~Storing /\ Storing'
    BY <1>1, <1>2, <2>2, <2>4 DEF Storing
  <2>6. Written = runner.at - 1 /\ Written' = runner.at
    BY <1>1, <2>5 DEF Written
  <2>7. /\ file'.status = IF runner.at = Len(Events) THEN verdict ELSE "active"
        /\ file'.stage = Opened(runner.at + 1)
    <3>1. file' = Mirror(file, Events[runner.at]) /\ file \in File
      BY <1>1, <2>2 DEF LockInv, TypeInv, TypeOK
    <3>2. (runner.at - 1) + 1 = runner.at /\ runner.at - 1 # Len(Events)
      BY <2>3, EventsType
    <3>3. file.status = "active" /\ file.stage = Opened(runner.at)
      BY <2>1, <2>6, <3>2 DEF PushedInTurn
    <3>4. CASE Events[runner.at].kind = "stage"
      BY <2>3, <3>1, <3>3, <3>4, OpenedAt DEF Mirror, File
    <3>5. CASE Events[runner.at].kind = "recording"
      BY <2>3, <3>1, <3>3, <3>5, OpenedAt DEF Mirror, File
    <3>6. CASE Events[runner.at].kind = "finish"
      BY <2>3, <3>1, <3>3, <3>6, OpenedAt DEF Mirror, File
    <3>7. QED
      BY <2>3, <3>4, <3>5, <3>6, OpenedAt DEF Event
  <2>8. \A g \in Handlers : handler'[g].pc # "free" =>
           /\ runner'.waits = g
           /\ handler'[g].pc \in {"arrived", "read"} => handler'[g].ev = Events[runner'.at]
    BY <1>1, <1>2, <2>2, <2>4
  <2>9. \A g \in Handlers : handler'[g].pc = "storing" => LeftOver(g)'
    <3>1. Apply(Events[runner.at])' = Apply(Events[runner.at])
      BY <1>1 DEF Apply, FinishRun
    <3>2. handler'[h].todo = Apply(Events[runner.at])
      BY <1>2, <2>2, <2>4
    <3>3. LeftOver(h)'
      BY <3>1, <3>2 DEF LeftOver
    <3>4. QED
      BY <2>4, <3>3
  <2>10. QED
    BY <1>1, <2>1, <2>6, <2>7, <2>8, <2>9 DEF PushedInTurn
<1>4. ASSUME PushedThrough({}) PROVE SettledByPush'
  <2>1. PushedThrough(Outsiders)
    BY <1>4, CalmWeaker
  <2>2. SettledByPush /\ PushedInTurn
    BY <1>4, <2>1 DEF PushInv
  <2>3. /\ runner.waits = h /\ handler[h].ev = Events[runner.at]
        /\ \A g \in Handlers : g # h => handler[g].pc = "free"
    BY <1>1, <2>2, OnlyOne
  <2>4. handler'[h] = new /\ \A g \in Handlers : g # h => handler'[g].pc = "free"
    BY <1>1, <1>2, <2>3
  <2>5. ~LastStatement'
    <3>1. SUFFICES ASSUME runner.at = Len(Events) PROVE Len(new.todo) # 1
      BY <1>1, <1>2, <2>4 DEF LastStatement
    <3>2. runner.at \in 1 .. Len(Events)
      BY <1>2, <3>1, EventsType DEF Runner
    <3>3. Events[runner.at].kind = "finish"
      BY <3>1, <3>2, OpenedAt
    <3>4. new.todo = FinishRun(verdict)
      BY <1>2, <2>3, <3>3 DEF Apply
    <3>5. QED
      BY <3>4 DEF FinishRun
  <2>6. QED
    BY <1>1, <2>2, <2>5 DEF SettledByPush, NoneRunning
<1>5. /\ PushedThrough(Outsiders)' <=> PushedThrough(Outsiders)
      /\ PushedThrough({})' <=> PushedThrough({})
  BY <1>1 DEF PushedThrough
<1>6. QED
  BY <1>1, <1>3, <1>4, <1>5 DEF PushInv

LEMMA PushOutside ==
    ASSUME TypeInv, PushInv, NEW o \in Outsiders, Outside(o) PROVE PushInv'
<1>1. /\ UNCHANGED <<file, runner, verdict, handler, faults>>
      /\ outside' = [outside EXCEPT ![o] = Tail(@)]
      /\ seen' = seen \cup {o} /\ Execute(Head(outside[o])) /\ outside[o] # <<>>
  BY Zenon DEF Outside
<1>2. outside \in [Outsiders -> Seq(Statement)] /\ stages \in Seq(Stage)
  BY DEF TypeInv, TypeOK, Stage
<1>3. Head(outside[o]) \in Statement /\ Head(outside[o]).do # "open"
  <2>1. outside[o] \in Seq(Statement) /\ 1 \in DOMAIN outside[o]
    BY <1>1, <1>2, EmptySeq
  <2>2. Head(outside[o]) = outside[o][1]
    BY <2>1
  <2>3. QED
    BY <2>1, <2>2 DEF PushInv
<1>4. \A p \in Outsiders : \A i \in DOMAIN outside'[p] : outside'[p][i].do # "open"
  <2>1. SUFFICES ASSUME NEW i \in DOMAIN outside'[o] PROVE outside'[o][i].do # "open"
    BY <1>1, <1>2 DEF PushInv
  <2>2. outside[o] \in Seq(Statement) /\ outside'[o] = Tail(outside[o])
    BY <1>1, <1>2
  <2>3. i \in 1 .. Len(outside[o]) - 1 /\ outside'[o][i] = outside[o][i + 1]
    <3> DEFINE rest == Tail(outside[o])
    <3>1. /\ rest \in Seq(Statement) /\ Len(rest) = Len(outside[o]) - 1
          /\ \A j \in 1 .. Len(rest) : rest[j] = outside[o][j + 1]
      BY <1>1, <2>2, HeadTailProperties
    <3>2. outside'[o] = rest
      BY <2>2
    <3> HIDE DEF rest
    <3>3. i \in 1 .. Len(rest)
      BY <3>1, <3>2
    <3>4. QED
      BY <3>1, <3>2, <3>3
  <2>4. i + 1 \in DOMAIN outside[o]
    BY <2>2, <2>3
  <2>5. QED
    BY <2>3, <2>4 DEF PushInv
<1>5. /\ Len(stages') = Len(stages) /\ DOMAIN stages' = DOMAIN stages
      /\ \A i \in DOMAIN stages : stages'[i].stage = stages[i].stage
  <2>1. stages' = stages \/ \E st : stages' = Closed(st)
    BY <1>1, <1>3, Zenon DEF Execute
  <2>2. QED
    BY <1>2, <2>1, ClosedKeeps
<1>6. ~PushedThrough({})'
  BY <1>1 DEF PushedThrough
<1>7. PushedThrough(Outsiders)' => PushedThrough(Outsiders)
  BY <1>1 DEF PushedThrough
<1>8. /\ Written' = Written
      /\ \A h \in Handlers : LeftOver(h)' <=> LeftOver(h)
  BY <1>1 DEF Written, Storing, LeftOver, Apply, FinishRun
<1>9. PushedThrough(Outsiders)' => PushedInTurn'
  BY <1>1, <1>5, <1>7, <1>8 DEF PushInv, PushedInTurn
<1>10. QED
  BY <1>4, <1>6, <1>9 DEF PushInv

\* The last statement of an event and its answer: the runner moves on.
LEMMA PushLastStatement ==
    ASSUME TypeInv, PushInv, PushedInTurn, NEW h \in Handlers,
           handler[h].pc = "storing", Len(handler[h].todo) = 1,
           Execute(Head(handler[h].todo)), Respond(h), NoFault,
           UNCHANGED <<file, verdict, outside>>
    PROVE  /\ PushedInTurn'
           /\ PushedThrough({}) => SettledByPush'
<1>1. /\ runner.waits = h /\ \A g \in Handlers : g # h => handler[g].pc = "free"
      /\ LeftOver(h)
  BY OnlyOne DEF PushedInTurn
<1>2. /\ handler \in [Handlers -> Handler] /\ runner \in Runner /\ stages \in Seq(Stage)
      /\ verdict \in Verdicts
      /\ faults \in 0 .. MaxFaults /\ MaxFaults \in Nat /\ h # "nobody"
  BY DEF TypeInv, TypeOK, Handler, Runner, Stage
<1>3. runner.at \in 1 .. Len(Events) /\ Len(Events) = Stages + 2 /\ Stages \in Nat
  BY <1>1, <1>2, EventsType DEF TypeInv, Runner
<1>4. runner' = Advanced /\ handler' = [handler EXCEPT ![h] = Free]
  BY <1>1 DEF Respond
<1>5. runner'.at = runner.at + 1 /\ runner'.tries = 0 /\ runner'.waits = "nobody"
  BY <1>4 DEF Advanced
<1>6. \A g \in Handlers : handler'[g].pc = "free"
  BY <1>1, <1>2, <1>4 DEF Free
<1>7. Storing /\ ~Storing' /\ ~LastStatement'
  BY <1>6 DEF Storing, LastStatement
<1>8. Written = runner.at /\ Written' = runner.at
  <2>1. (runner.at + 1) - 1 = runner.at
    BY <1>3
  <2>2. QED
    BY <1>5, <1>7, <2>1 DEF Written
<1> DEFINE s == Head(handler[h].todo)
           ev == Events[runner.at]
<1>9. /\ ev \in Event
      /\ ev.kind = "stage" => s = OpenStage(ev.n)
      /\ ev.kind = "recording" => s = NameRecording
      /\ ev.kind = "finish" => s = SettleRow(verdict)
  <2>1. ev \in Event
    BY <1>3, EventType
  <2>2. CASE ev.kind = "stage"
    <3>1. Apply(ev) = <<CloseStage("ok"), OpenStage(ev.n)>>
      BY <2>2 DEF Apply
    <3>2. handler[h].todo = <<OpenStage(ev.n)>>
      BY <1>1, <3>1 DEF LeftOver
    <3>3. QED
      BY <2>1, <2>2, <3>2
  <2>3. CASE ev.kind = "recording"
    <3>1. Apply(ev) = <<NameRecording>>
      BY <2>3 DEF Apply
    <3>2. handler[h].todo = <<NameRecording>>
      BY <1>1, <3>1 DEF LeftOver
    <3>3. QED
      BY <2>1, <2>3, <3>2
  <2>4. CASE ev.kind = "finish"
    <3> DEFINE close == CloseStage(IF verdict = "completed" THEN "ok" ELSE "failed")
    <3>1. Apply(ev) = <<close, SettleRow(verdict)>>
      BY <2>4 DEF Apply, FinishRun
    <3> HIDE DEF close
    <3>2. handler[h].todo = <<SettleRow(verdict)>>
      BY <1>1, <3>1 DEF LeftOver
    <3>3. QED
      BY <2>1, <2>4, <3>2
  <2>5. QED
    BY <2>1, <2>2, <2>3, <2>4 DEF Event
<1>10. Execute(s)
  OBVIOUS
<1> HIDE DEF s
<1>11. /\ Len(stages') = Opened(runner'.at)
       /\ \A i \in DOMAIN stages' : stages'[i].stage = i
       /\ ev.kind # "stage" => stages' = stages
       /\ ev.kind # "finish" => row' = row
  <2>1. Len(stages) = Opened(runner.at) /\ \A i \in DOMAIN stages : stages[i].stage = i
    BY DEF PushedInTurn
  <2>2. CASE ev.kind = "stage"
    <3> DEFINE new == [stage |-> ev.n, status |-> "running"]
    <3>1. stages' = Append(stages, new) /\ row' = row
      BY <1>9, <1>10, <2>2 DEF Execute, OpenStage
    <3>2. Opened(runner.at + 1) = ev.n /\ Opened(runner.at) = ev.n - 1 /\ ev.n \in 1 .. Stages
      BY <1>3, <1>9, <2>2, OpenedAt DEF Event
    <3>3. new.stage = ev.n /\ new \in Stage
      BY <3>2 DEF Stage
    <3> HIDE DEF new
    <3>4. /\ Len(stages') = Len(stages) + 1 /\ DOMAIN stages' = 1 .. Len(stages')
          /\ \A i \in 1 .. Len(stages) : stages'[i] = stages[i]
          /\ stages'[Len(stages) + 1] = new
          /\ DOMAIN stages = 1 .. Len(stages) /\ Len(stages) \in Nat
      BY <1>2, <3>1, <3>3, AppendProperties
    <3>5. Len(stages) + 1 = ev.n
      BY <2>1, <3>2
    <3>6. \A i \in DOMAIN stages' : stages'[i].stage = i
      BY <2>1, <3>3, <3>4, <3>5
    <3>7. QED
      BY <1>5, <2>2, <3>1, <3>2, <3>4, <3>5, <3>6
  <2>3. CASE ev.kind # "stage"
    <3>1. stages' = stages
      BY <1>9, <1>10, <2>3 DEF Execute, NameRecording, SettleRow, Event
    <3>2. Opened(runner.at + 1) = Opened(runner.at)
      BY <1>3, <2>3, OpenedAt
    <3>3. ev.kind # "finish" => row' = row
      BY <1>9, <1>10, <2>3 DEF Execute, NameRecording, Event
    <3>4. QED
      BY <1>5, <2>1, <2>3, <3>1, <3>2, <3>3
  <2>4. QED
    BY <2>2, <2>3
<1>12. runner'.tries <= (MaxFaults - faults') + 0
  BY <1>2, <1>5 DEF NoFault
<1>13. PushedInTurn'
  <2>1. \A g \in Handlers : handler'[g].pc # "storing"
    BY <1>6
  <2>2. QED
    BY <1>5, <1>6, <1>8, <1>11, <1>12, <2>1 DEF PushedInTurn
<1>14. ASSUME PushedThrough({}) PROVE SettledByPush'
  <2>1. SettledByPush
    BY <1>14 DEF PushInv
  <2>2. row.state = "active" /\ row \in [state : Statuses, base : 0 .. MaxBaseline]
    BY <1>3, <2>1 DEF SettledByPush, TypeInv, TypeOK
  <2>3. CASE ev.kind = "finish"
    <3>1. runner.at = Len(Events)
      BY <1>3, <2>3, OpenedAt
    <3>2. LastStatement
      BY <3>1 DEF LastStatement
    <3>3. row' = [row EXCEPT !.state = verdict] /\ stages' = stages
      BY <1>9, <1>10, <1>11, <2>2, <2>3 DEF Execute, SettleRow
    <3>4. row'.state = verdict /\ runner'.at > Len(Events)
      BY <1>3, <1>5, <2>2, <3>1, <3>3
    <3>5. NoneRunning'
      BY <2>1, <3>2, <3>3 DEF SettledByPush, NoneRunning
    <3>6. QED
      BY <3>4, <3>5 DEF SettledByPush
  <2>4. CASE ev.kind # "finish"
    <3>1. runner.at # Len(Events)
      BY <1>3, <2>4, OpenedAt
    <3>2. ~(runner'.at > Len(Events))
      BY <1>3, <1>5, <3>1
    <3>3. QED
      BY <1>7, <1>11, <2>2, <2>4, <3>2 DEF SettledByPush
  <2>5. QED
    BY <2>3, <2>4
<1>15. QED
  BY <1>13, <1>14

\* The first of an event's two statements closes what runs; a Finish that has
\* run it leaves nothing running.
LEMMA PushFirstStatement ==
    ASSUME TypeInv, PushInv, PushedInTurn, NEW h \in Handlers,
           handler[h].pc = "storing", Len(handler[h].todo) # 1,
           Execute(Head(handler[h].todo)), NoFault,
           handler' = [handler EXCEPT ![h].todo = Tail(@)],
           UNCHANGED <<file, verdict, outside, runner>>
    PROVE  /\ PushedInTurn'
           /\ PushedThrough({}) => SettledByPush'
<1>1. /\ runner.waits = h /\ \A g \in Handlers : g # h => handler[g].pc = "free"
      /\ LeftOver(h)
  BY OnlyOne DEF PushedInTurn
<1>2. /\ handler \in [Handlers -> Handler] /\ runner \in Runner /\ stages \in Seq(Stage)
      /\ verdict \in Verdicts /\ h # "nobody"
  BY DEF TypeInv, TypeOK, Handler, Runner, Stage
<1>3. runner.at \in 1 .. Len(Events) /\ Len(Events) = Stages + 2 /\ Stages \in Nat
  BY <1>1, <1>2, EventsType DEF TypeInv, Runner
<1> DEFINE ev == Events[runner.at]
           all == Apply(ev)
           rest == Tail(handler[h].todo)
           new == [handler[h] EXCEPT !.todo = rest]
<1>4. handler[h].todo = all
  <2>1. ASSUME NEW x PROVE Len(<<x>>) = 1
    OBVIOUS
  <2>2. QED
    BY <1>1, <2>1 DEF LeftOver
<1>5. /\ Len(all) = 2 /\ ev \in Event
      /\ \E st : st # "running" /\ all[1] = CloseStage(st)
  <2>1. ev \in Event
    BY <1>3, EventType
  <2>2. CASE ev.kind = "stage"
    <3>1. all = <<CloseStage("ok"), OpenStage(ev.n)>>
      BY <2>2 DEF Apply
    <3> HIDE DEF all
    <3>2. QED
      BY <2>1, <3>1
  <2>3. CASE ev.kind = "recording"
    <3>1. all = <<NameRecording>>
      BY <2>3 DEF Apply
    <3>2. Len(<<NameRecording>>) = 1
      OBVIOUS
    <3>3. QED
      BY <1>4, <3>1, <3>2, Zenon
  <2>4. CASE ev.kind = "finish"
    <3> DEFINE st == IF verdict = "completed" THEN "ok" ELSE "failed"
    <3>1. all = <<CloseStage(st), SettleRow(verdict)>>
      BY <2>4 DEF Apply, FinishRun
    <3>2. st # "running"
      OBVIOUS
    <3> HIDE DEF all, st
    <3>3. QED
      BY <2>1, <3>1, <3>2
  <2>5. QED
    BY <2>1, <2>2, <2>3, <2>4 DEF Event
<1>6. PICK st : st # "running" /\ all[1] = CloseStage(st)
  BY <1>5
<1>7. handler[h].todo \in Seq(Statement) /\ handler[h].todo # <<>>
  BY <1>2 DEF TypeInv, Handler
<1>8. /\ rest \in Seq(Statement) /\ rest = <<all[2]>> /\ Len(rest) = 1
  <2>1. /\ rest \in Seq(Statement) /\ Len(rest) = 1
        /\ \A i \in 1 .. 1 : rest[i] = handler[h].todo[i + 1]
    <3>1. /\ rest \in Seq(Statement) /\ Len(rest) = Len(handler[h].todo) - 1
          /\ \A i \in 1 .. Len(handler[h].todo) - 1 : rest[i] = handler[h].todo[i + 1]
      BY <1>7, TailLeft, Zenon
    <3>2. Len(handler[h].todo) - 1 = 1
      BY <1>4, <1>5
    <3>3. QED
      BY <3>1, <3>2
  <2>2. rest[1] = all[2]
    BY <1>4, <2>1
  <2> HIDE DEF rest, all
  <2>3. QED
    BY <2>1, <2>2
<1>9. stages' = Closed(st) /\ row' = row
  <2>1. Head(handler[h].todo) = CloseStage(st)
    <3>1. Head(handler[h].todo) = handler[h].todo[1]
      BY <1>7
    <3>2. QED
      BY <1>4, <1>6, <3>1, Zenon
  <2>2. QED
    BY <2>1 DEF Execute, CloseStage
<1>10. /\ Len(stages') = Len(stages) /\ DOMAIN stages' = DOMAIN stages
       /\ \A i \in DOMAIN stages : stages'[i].stage = stages[i].stage
       /\ NoneRunning'
  BY <1>2, <1>6, <1>9, ClosedKeeps DEF NoneRunning
<1>11. handler' = [handler EXCEPT ![h] = new]
  OBVIOUS
<1>12. new.pc = "storing" /\ new.todo = <<all[2]>>
  <2>1. new.todo = rest /\ new.pc = handler[h].pc
    <3> HIDE DEF rest
    <3>1. QED
      BY <1>2 DEF Handler
  <2>2. QED
    BY <1>8, <2>1
<1> HIDE DEF new, rest
<1>13. handler'[h] = new /\ \A g \in Handlers : g # h => handler'[g].pc = "free"
  BY <1>1, <1>2, <1>11
<1>14. Storing /\ Storing' /\ Written' = Written
  BY <1>12, <1>13 DEF Storing, Written
<1>15. LeftOver(h)'
  <2>1. all' = all
    BY DEF Apply, FinishRun
  <2> HIDE DEF all
  <2>2. handler'[h].todo = <<all[2]>> /\ Len(all) = 2
    BY <1>5, <1>12, <1>13
  <2>3. (Len(all) = 2 /\ handler[h].todo = <<all[2]>>)'
    BY <2>1, <2>2
  <2>4. QED
    BY <2>3 DEF LeftOver, all
<1>16. PushedInTurn'
  <2>1. \A g \in Handlers : handler'[g].pc # "free" =>
           /\ runner'.waits = g
           /\ handler'[g].pc \in {"arrived", "read"} => handler'[g].ev = Events[runner'.at]
    BY <1>1, <1>12, <1>13
  <2>2. \A g \in Handlers : handler'[g].pc = "storing" => LeftOver(g)'
    BY <1>13, <1>15
  <2>3. UNCHANGED faults
    BY DEF NoFault
  <2>4. QED
    BY <1>10, <1>14, <2>1, <2>2, <2>3 DEF PushedInTurn
<1>17. ASSUME PushedThrough({}) PROVE SettledByPush'
  <2>1. SettledByPush
    BY <1>17 DEF PushInv
  <2>2. QED
    BY <1>9, <1>10, <2>1 DEF SettledByPush
<1>18. QED
  BY <1>16, <1>17

LEMMA PushHandlerStores ==
    ASSUME TypeInv, PushInv, NEW h \in Handlers, HandlerStores(h) PROVE PushInv'
<1>1. UNCHANGED <<file, verdict, outside, lock, repoint>> /\ handler[h].pc = "storing"
  BY Zenon DEF HandlerStores
<1>2. CASE Fault("store")
  <2>1. seen' = seen \cup {"store"}
    BY <1>2, Zenon DEF Fault
  <2>2. ~PushedThrough(Outsiders)' /\ ~PushedThrough({})'
    BY <2>1 DEF PushedThrough
  <2>3. QED
    BY <1>1, <2>2 DEF PushInv
<1>3. CASE /\ Execute(Head(handler[h].todo)) /\ NoFault
           /\ IF Len(handler[h].todo) = 1 THEN Respond(h)
              ELSE /\ handler' = [handler EXCEPT ![h].todo = Tail(@)]
                   /\ UNCHANGED runner
  <2>1. /\ PushedThrough(Outsiders)' <=> PushedThrough(Outsiders)
        /\ PushedThrough({})' <=> PushedThrough({})
    BY <1>3 DEF NoFault, PushedThrough
  <2>2. ASSUME PushedThrough(Outsiders)
        PROVE  PushedInTurn' /\ (PushedThrough({}) => SettledByPush')
    <3>1. PushedInTurn
      BY <2>2 DEF PushInv
    <3>2. CASE Len(handler[h].todo) = 1
      BY <1>1, <1>3, <3>1, <3>2, PushLastStatement
    <3>3. CASE Len(handler[h].todo) # 1
      BY <1>1, <1>3, <3>1, <3>3, PushFirstStatement
    <3>4. QED
      BY <3>2, <3>3
  <2>3. QED
    BY <1>1, <2>1, <2>2, CalmWeaker DEF PushInv
<1>4. QED
  BY <1>2, <1>3, Zenon DEF HandlerStores

LEMMA PushRepoint ==
    ASSUME TypeInv, LockInv, PushInv, RepointReads \/ RepointWrites
    PROVE  PushInv'
<1>1. CASE RepointReads
  BY <1>1, PushAlone DEF RepointReads
<1>2. CASE RepointWrites
  <2>1. /\ UNCHANGED <<row, stages, runner, verdict, handler, outside, faults, seen>>
        /\ repoint.pc = "read" /\ file' = [repoint.read EXCEPT !.base = @ + 1]
    BY <1>2, Zenon DEF RepointWrites
  <2>2. repoint.read = file /\ file \in File
    BY <2>1 DEF LockInv, TypeInv, TypeOK
  <2>3. file'.status = file.status /\ file'.stage = file.stage
    BY <2>1, <2>2 DEF File
  <2>4. QED
    BY <2>1, <2>3, PushAlone
<1>3. QED
  BY <1>1, <1>2

LEMMA PushRepointEnds ==
    ASSUME TypeInv, PushInv, RepointStores \/ RepointRefused \/ RepointStuck \/ RepointCut
    PROVE  PushInv'
<1>1. UNCHANGED <<stages, runner, verdict, handler, outside>>
  BY Zenon DEF RepointStores, RepointRefused, RepointStuck, RepointCut, RepointEnds
<1>2. CASE RepointStores
  <2>1. UNCHANGED <<file, faults, seen>> /\ row'.state = row.state
    BY <1>2, RowTakesBaseline DEF RepointStores, NoFault
  <2>2. QED
    BY <1>1, <2>1, PushAlone
<1>3. CASE RepointRefused \/ RepointStuck \/ RepointCut
  <2>1. "store" \in seen' \/ "cancel" \in seen' \/ "file" \in seen'
    BY <1>3, Zenon DEF RepointRefused, RepointStuck, RepointCut, Fault
  <2>2. \A o \in Outsiders : \A i \in DOMAIN outside'[o] : outside'[o][i].do # "open"
    BY <1>1 DEF PushInv
  <2>3. QED
    BY <2>1, <2>2, PushFault
<1>4. QED
  BY <1>2, <1>3

LEMMA PushRestarts == ASSUME TypeInv, PushInv, Restarts PROVE PushInv'
<1>1. /\ outside' = [o \in Outsiders |-> IF o \in seen THEN <<>> ELSE outside[o]]
      /\ "restart" \in seen'
  BY Zenon DEF Restarts, Fault
<1>2. \A o \in Outsiders : \A i \in DOMAIN outside'[o] : outside'[o][i].do # "open"
  BY <1>1 DEF PushInv
<1>3. QED
  BY <1>1, <1>2, PushFault

LEMMA PushNext == TypeInv /\ LockInv /\ PushInv /\ [Next]_vars => PushInv'
<1> SUFFICES ASSUME TypeInv, LockInv, PushInv, [Next]_vars PROVE PushInv'
  OBVIOUS
<1>1. CASE UNCHANGED vars
  BY <1>1, PushAlone DEF vars
<1>2. CASE \E h \in Handlers : HandlerReads(h) \/ HandlerWrites(h)
  <2>1. PICK h \in Handlers : HandlerReads(h) \/ HandlerWrites(h)
    BY <1>2
  <2>2. NoFault \/ Fault("file")
    BY <2>1, Zenon DEF HandlerReads, HandlerWrites
  <2>3. QED
    BY <2>1, <2>2, PushHandlerReads, PushHandlerWrites, PushFileFails
<1>3. CASE Next
  BY <1>1, <1>2, <1>3, PushSend, PushTimesOut, PushHandlerStores, PushOutside,
     PushRepoint, PushRepointEnds, PushRestarts, Zenon DEF Next, Done
<1>4. QED
  BY <1>1, <1>3

LEMMA PushAlways == Spec => []PushInv
BY TypeAlways, LockAlways, PushInit, PushNext, PTL DEF Spec

\* Unless a request ran on behind its time-out or a statement failed, the
\* store records each stage the runner went through once and in its order,
\* whatever was lost and retried and whoever else settles the run.
THEOREM StagesRecordedOnce == Spec => []StagesOnce
<1>1. PushInv => StagesOnce
  BY DEF PushInv, PushedInTurn, StagesOnce
<1>2. QED
  BY PushAlways, <1>1, PTL

\* When the run is over and its pushes were at worst lost and retried, the
\* file, the row and the runner agree, and every stage is there and closed.
THEOREM CopiesEndEqual == Spec => []CopiesAgree
<1>1. ASSUME TypeInv, PushInv, Settled, PushedThrough({})
      PROVE  /\ file.status = verdict /\ row.state = verdict
             /\ Len(stages) = Stages /\ file.stage = Stages
             /\ \A i \in DOMAIN stages : stages[i].status # "running"
  <2>1. PushedInTurn /\ SettledByPush
    BY <1>1, CalmWeaker DEF PushInv
  <2>2. /\ runner.at = Len(Events) + 1 /\ Len(Events) = Stages + 2 /\ Stages \in Nat \ {0}
    BY <1>1, EventsType DEF Settled, TypeInv, TypeOK
  <2>3. ~Storing /\ Written = Len(Events)
    BY <1>1, <2>2 DEF Settled, Storing, Written
  <2>4. file.status = verdict /\ file.stage = Opened(Len(Events) + 1)
    BY <2>1, <2>3 DEF PushedInTurn
  <2>5. Opened(Len(Events) + 1) = Stages
    BY <2>2 DEF Opened
  <2>6. row.state = verdict /\ NoneRunning
    BY <2>1, <2>2 DEF SettledByPush
  <2>7. QED
    BY <2>1, <2>2, <2>4, <2>5, <2>6 DEF PushedInTurn, NoneRunning
<1>2. TypeInv /\ PushInv => CopiesAgree
  BY <1>1, Zenon DEF CopiesAgree
<1>3. QED
  BY TypeAlways, PushAlways, <1>2, PTL

\* A row that the runner's own pushes settled shows no running stage.
THEOREM SettledHasNoOpenStage == Spec => []SettledRunHasNoOpenStage
<1>1. PushInv => SettledRunHasNoOpenStage
  <2>1. SUFFICES ASSUME PushInv, PushedThrough({}), row.state \in Verdicts
                 PROVE  NoneRunning
    BY DEF SettledRunHasNoOpenStage, NoneRunning
  <2>2. SettledByPush
    BY <2>1 DEF PushInv
  <2>3. runner.at > Len(Events)
    BY <2>1, <2>2 DEF SettledByPush, Verdicts
  <2>4. QED
    BY <2>2, <2>3 DEF SettledByPush
<1>2. QED
  BY PushAlways, <1>1, PTL
=============================================================================
