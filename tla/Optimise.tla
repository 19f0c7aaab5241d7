------------------------------ MODULE Optimise ------------------------------
(***************************************************************************)
(* The optimisation plans of blop/ run one after another on one agent:     *)
(* optimize, optimize_in_run, sample_suggestions, sample_candidates and    *)
(* acquire_baseline (plans.rs), the events read_step records through the   *)
(* agent's ReadableCache (stubs.rs, tracking.rs), and the REQ socket of    *)
(* BridgeOptimizer (bridge.rs) to the optimizer in another process, whose  *)
(* answers may be errors, late or lost.                                    *)
(*                                                                         *)
(* A trial id is <<kind, text>>: TrialId::Int(1) and TrialId::Str("1")     *)
(* differ and print alike.  A parameter or outcome value is the id of the  *)
(* trial it belongs to, so that a row shows whose value it holds.          *)
(***************************************************************************)
EXTENDS Integers, Sequences, FiniteSets, SequencesExt, FiniteSetsExt

CONSTANTS
  OpSessions,    \* the sequences of plans: [plan, iters, n, every, given]
  OpCapsOf,      \* the capability sets a server may report
  OpItersMax,    \* bound on the turns of a loop without iterations
  OpTimeoutsMax, \* bound on calls that time out
  OpFaultsMax    \* bound on error answers and failed acquisitions

VARIABLES
  opTodo,    \* the session's plans still to run
  opCaps,    \* Capabilities
  opPlan,    \* the plan that runs
  opPc,
  opIter,
  opBatch,   \* the suggestions of this step, in order
  opOut,     \* the outcomes: <<[id, z]>>, z: the optional outcome is there
  opBridge,  \* [sock, conns, sent, call]: the slot, and the call in progress
  opWire,    \* requests the server has not taken
  opReplies,
  opServer,  \* [next, ingested, failed, saved]
  opFaults,  \* [late, bad]
  opCache,   \* ReadableCache: key -> values
  opKeys,    \* key -> the shape its data_key was fixed with
  opRow,     \* the last event: [ids, cols, batch, out, desc]
  opLog      \* history: [why, got, lost, crossed]

optimiseVars == <<opTodo, opCaps, opPlan, opPc, opIter, opBatch, opOut, opBridge, opWire,
                  opReplies, opServer, opFaults, opCache, opKeys, opRow, opLog>>

optimizerVars == <<opWire, opReplies, opServer>>
recordVars    == <<opCache, opKeys, opRow>>

Unbounded == -1   \* iterations: None
NoSocket  == 0
NoCall    == [method |-> "none", conn |-> 0, no |-> 0, ids |-> <<>>]
NoRow     == [ids |-> <<>>, cols |-> <<>>, batch |-> <<>>, out |-> <<>>, desc |-> <<>>]
NoLog     == [why |-> "none", got |-> {}, lost |-> FALSE, crossed |-> FALSE]
Yes       == <<"yes", 0>>
Pad       == <<"pad", 0>>
Baseline  == <<"s", 0>>
Malformed == <<"?", 0>>

OpText(id) == id[2]
IdsOf(s) == {s[i] : i \in DOMAIN s}

OptimiseInit ==
  /\ opTodo \in OpSessions
  /\ opCaps = {}
  /\ opPlan = [plan |-> "none", iters |-> 0, n |-> 1, every |-> 0, given |-> <<>>]
  /\ opPc = "connect"
  /\ opIter = 0
  /\ opBatch = <<>>
  /\ opOut = <<>>
  /\ opBridge = [sock |-> 1, conns |-> 1, sent |-> 0, call |-> NoCall]
  /\ opWire = {}
  /\ opReplies = {}
  /\ opServer = [next |-> 1, ingested |-> {}, failed |-> {}, saved |-> {}]
  /\ opFaults = [late |-> 0, bad |-> 0]
  /\ opCache = <<>>
  /\ opKeys = <<>>
  /\ opRow = NoRow
  /\ opLog = NoLog

-----------------------------------------------------------------------------
(* BridgeOptimizer::call.  The socket is taken out of its slot, a new one  *)
(* made when the slot is empty; it goes back only with a reply in hand.    *)

Call(method, ids) ==
  LET conn == IF opBridge.sock = NoSocket THEN opBridge.conns + 1 ELSE opBridge.sock
      req  == [method |-> method, conn |-> conn, no |-> opBridge.sent + 1, ids |-> ids]
  IN /\ opBridge' = [sock |-> NoSocket, sent |-> req.no, call |-> req,
                     conns |-> IF opBridge.sock = NoSocket THEN conn ELSE opBridge.conns]
     /\ opWire' = opWire \cup {req}
     /\ UNCHANGED <<opReplies, opServer, opFaults>>

CallEnds ==
  {[ok |-> r.ok, v |-> r.v, of |-> {r}, sock |-> opBridge.call.conn] :
     r \in {r \in opReplies : r.conn = opBridge.call.conn}}

TimedOutPutBack == {[ok |-> FALSE, v |-> <<>>, of |-> {}, sock |-> opBridge.call.conn]}

\* The timeout drops the socket, and with it a request it has not sent yet.
CallTimesOut == {[ok |-> FALSE, v |-> <<>>, of |-> {}, sock |-> NoSocket]}

CallReturns(method, e) ==
  /\ opBridge.call.method = method
  /\ \/ e \in CallEnds /\ UNCHANGED <<opWire, opFaults>>
     \/ /\ e \in CallTimesOut
        /\ opFaults.late < OpTimeoutsMax
        /\ opFaults' = [opFaults EXCEPT !.late = @ + 1]
        /\ \/ UNCHANGED opWire
           \/ opWire' = {r \in opWire : r.conn # opBridge.call.conn}
  /\ opReplies' = opReplies \ e.of
  /\ opBridge' = [opBridge EXCEPT !.sock = e.sock, !.call = NoCall]
  /\ UNCHANGED opServer

Crossed(e) == \E r \in e.of : r.no # opBridge.call.no

Ends == CallEnds \cup CallTimesOut

-----------------------------------------------------------------------------
(* The server: a REP socket that answers the requests it receives.         *)

NewIds(k) == [i \in 1 .. k |-> <<"i", opServer.next + i - 1>>]

Answers(r) ==
  CASE r.method = "suggest" ->
         {NewIds(k) : k \in 1 .. opPlan.n} \cup {<<NewIds(1)[1], NewIds(1)[1]>>, <<Malformed>>}
    [] r.method = "register_suggestions" -> {NewIds(Len(r.ids))}
    [] r.method = "should_stop" -> {<<>>, <<Yes>>}
    [] OTHER -> {<<>>}

Applied(r, v) ==
  [next     |-> opServer.next + IF r.method \in {"suggest", "register_suggestions"} THEN Len(v) ELSE 0,
   ingested |-> opServer.ingested \cup IF r.method = "ingest" THEN IdsOf(r.ids) ELSE {},
   failed   |-> opServer.failed \cup IF r.method = "register_failures" THEN IdsOf(r.ids) ELSE {},
   saved    |-> IF r.method = "checkpoint" THEN opServer.ingested ELSE opServer.saved]

ServerAnswers(r) ==
  /\ r \in opWire
  /\ opWire' = opWire \ {r}
  /\ \/ \E v \in Answers(r) :
          /\ opReplies' = opReplies \cup {[ok |-> TRUE, v |-> v, conn |-> r.conn, no |-> r.no]}
          /\ opServer' = Applied(r, v)
          /\ UNCHANGED opFaults
     \/ /\ opFaults.bad < OpFaultsMax
        /\ opFaults' = [opFaults EXCEPT !.bad = @ + 1]
        /\ opReplies' = opReplies \cup {[ok |-> FALSE, v |-> <<>>, conn |-> r.conn, no |-> r.no]}
        /\ UNCHANGED opServer
  /\ UNCHANGED <<opTodo, opCaps, opPlan, opPc, opIter, opBatch, opOut, opBridge, opLog, recordVars>>

-----------------------------------------------------------------------------
(* The agent is built around a bridge that reported its capabilities.      *)

Connect ==
  /\ opPc = "connect"
  /\ opPc' = "configuring"
  /\ Call("configure", <<>>)
  /\ UNCHANGED <<opTodo, opCaps, opPlan, opIter, opBatch, opOut, opLog, recordVars>>

ConfigureReturns(e) ==
  /\ opPc = "configuring"
  /\ CallReturns("configure", e)
  /\ IF e.ok THEN opPc' = "ended" /\ opCaps' \in OpCapsOf ELSE opPc' = "none" /\ opCaps' = {}
  /\ UNCHANGED <<opTodo, opPlan, opIter, opBatch, opOut, opLog, recordVars>>

\* BridgeOptimizer::suggestions: every item a mapping with a usable id.
Decoded(v) == Malformed \notin IdsOf(v)

-----------------------------------------------------------------------------
(* The plans.                                                              *)

\* Plans whose acquisition and evaluation tell the optimizer of a failure.
Guarded == opPlan.plan \in {"optimize", "optimize_in_run"}

EndPlan(why) == opPc' = "ended" /\ opLog' = [opLog EXCEPT !.why = why]

NoCallNow == UNCHANGED <<opBridge, opFaults, optimizerVars>>

UniqueIds(s) == IsInjective(s)

\* A plan begins: what it asks of the optimizer before anything moves.
BeginPlan ==
  /\ opPc = "ended"
  /\ opTodo # <<>>
  /\ LET p == Head(opTodo)
     IN /\ opPlan' = p
        /\ opTodo' = Tail(opTodo)
        /\ opIter' = 0
        /\ opOut' = <<>>
        /\ opRow' = NoRow
        /\ \/ /\ p.plan = "optimize"
              /\ IF p.iters = Unbounded /\ "stopping" \notin opCaps
                   THEN opPc' = "ended" /\ opLog' = [NoLog EXCEPT !.why = "refused"]
                   ELSE opPc' = "loop" /\ opLog' = NoLog
              /\ opBatch' = <<>>
              /\ NoCallNow
           \/ /\ p.plan = "optimize_in_run"
              /\ opPc' = "loop" /\ opLog' = NoLog /\ opBatch' = <<>>
              /\ NoCallNow
           \/ /\ p.plan = "sample_suggestions"
              /\ opPc' = "acquire" /\ opLog' = NoLog /\ opBatch' = p.given
              /\ NoCallNow
           \/ /\ p.plan = "sample_candidates"
              /\ opBatch' = <<>>
              /\ IF "register" \in opCaps
                   THEN /\ opPc' = "registering" /\ opLog' = NoLog
                        /\ Call("register_suggestions", p.given)
                   ELSE /\ opPc' = "ended" /\ opLog' = [NoLog EXCEPT !.why = "refused"]
                        /\ NoCallNow
           \/ /\ p.plan = "acquire_baseline"
              /\ opBatch' = <<Baseline>>
              /\ \/ opPc' = "acquire" /\ opLog' = NoLog
                 \/ opPc' = "ended" /\ opLog' = [NoLog EXCEPT !.why = "unreadable"]
              /\ NoCallNow
  /\ UNCHANGED <<opCaps, opCache, opKeys>>

LoopTurn ==
  /\ opPc = "loop"
  /\ opPlan.iters = Unbounded => opIter < OpItersMax
  /\ IF opPlan.iters = Unbounded \/ opIter < opPlan.iters
       THEN opPc' = "suggesting" /\ UNCHANGED opLog /\ Call("suggest", <<>>)
       ELSE EndPlan("ok") /\ NoCallNow
  /\ UNCHANGED <<opTodo, opCaps, opPlan, opIter, opBatch, opOut, recordVars>>

SuggestReturns(e) ==
  /\ opPc = "suggesting"
  /\ CallReturns("suggest", e)
  /\ LET log == [opLog EXCEPT !.crossed = @ \/ Crossed(e)]
     IN IF e.ok /\ Decoded(e.v) /\ UniqueIds(e.v)
          THEN /\ opPc' = "acquire" /\ opBatch' = e.v
               /\ opLog' = [log EXCEPT !.got = @ \cup IdsOf(e.v)]
          ELSE opPc' = "ended" /\ opLog' = [log EXCEPT !.why = "suggest"] /\ UNCHANGED opBatch
  /\ UNCHANGED <<opTodo, opCaps, opPlan, opIter, opOut, recordVars>>

RegisterReturns(e) ==
  /\ opPc = "registering"
  /\ CallReturns("register_suggestions", e)
  /\ LET log == [opLog EXCEPT !.crossed = @ \/ Crossed(e)]
     IN IF e.ok /\ Decoded(e.v) THEN opPc' = "acquire" /\ opBatch' = e.v /\ opLog' = log
        ELSE opPc' = "ended" /\ opLog' = [log EXCEPT !.why = "register"] /\ UNCHANGED opBatch
  /\ UNCHANGED <<opTodo, opCaps, opPlan, opIter, opOut, recordVars>>

\* register_failures for the step's suggestions, then the error goes on.
FailStep(why) ==
  IF Guarded
    THEN /\ opPc' = "excepting"
         /\ opLog' = [opLog EXCEPT !.why = why]
         /\ Call("register_failures", opBatch)
    ELSE EndPlan(why) /\ NoCallNow

\* The acquisition plan: clean with its uid, clean without one, or thrown out of.
AcquireClean ==
  /\ opPc = "acquire"
  /\ opPc' = "evaluate"
  /\ NoCallNow
  /\ UNCHANGED <<opTodo, opCaps, opPlan, opIter, opBatch, opOut, opLog, recordVars>>

AcquireWithoutUid ==
  /\ opPc = "acquire"
  /\ EndPlan("nouid")
  /\ NoCallNow
  /\ UNCHANGED <<opTodo, opCaps, opPlan, opIter, opBatch, opOut, recordVars>>

AcquireThrows ==
  /\ opPc = "acquire"
  /\ FailStep("acquire")
  /\ UNCHANGED <<opTodo, opCaps, opPlan, opIter, opBatch, opOut, recordVars>>

FailuresReturn(e) ==
  /\ opPc = "excepting"
  /\ CallReturns("register_failures", e)
  /\ opPc' = "ended"
  /\ opLog' = [opLog EXCEPT !.lost = ~e.ok, !.crossed = @ \/ Crossed(e)]
  /\ UNCHANGED <<opTodo, opCaps, opPlan, opIter, opBatch, opOut, recordVars>>

\* What an evaluation function may return for a batch.
Outcome(id, z) == [id |-> id, z |-> z]
Evaluations(b) ==
  {[i \in DOMAIN b |-> Outcome(b[i], i \in zs)] : zs \in SUBSET DOMAIN b}
  \cup {[i \in DOMAIN b |-> Outcome(b[1], FALSE)],
        [i \in DOMAIN b |-> Outcome(b[Len(b) + 1 - i], FALSE)],
        Tail([i \in DOMAIN b |-> Outcome(b[i], FALSE)]),
        <<Outcome(<<"i", 9>>, FALSE)>>}

OutIds(o) == [i \in DOMAIN o |-> o[i].id]

\* validate_outcomes: unique, and exactly the suggested trials.
ValidOutcomes(o) == UniqueIds(OutIds(o)) /\ IdsOf(OutIds(o)) = IdsOf(opBatch)

\* optimize_in_run validates inside the guarded region, optimize after it,
\* sampling not at all; a baseline takes the first outcome under its own id.
AcceptedOutcomes(o) == opPlan.plan \in {"optimize", "optimize_in_run"} => ValidOutcomes(o)

EvaluateFails ==
  /\ opPc = "evaluate"
  /\ FailStep("evaluate")
  /\ UNCHANGED <<opTodo, opCaps, opPlan, opIter, opBatch, opOut, recordVars>>

Evaluate ==
  /\ opPc = "evaluate"
  /\ \E o \in Evaluations(opBatch) :
       IF opPlan.plan = "acquire_baseline"
         THEN /\ IF o = <<>> THEN EndPlan("evaluate") /\ NoCallNow
                 ELSE opPc' = "ingesting" /\ UNCHANGED opLog /\ Call("ingest", opBatch)
              /\ UNCHANGED opOut
       ELSE IF AcceptedOutcomes(o)
         THEN /\ opOut' = o
              /\ opPc' = "ingesting" /\ UNCHANGED opLog /\ Call("ingest", OutIds(o))
       ELSE IF opPlan.plan = "optimize_in_run"
         THEN FailStep("evaluate") /\ UNCHANGED opOut
       ELSE EndPlan("invalid") /\ NoCallNow /\ UNCHANGED opOut
  /\ UNCHANGED <<opTodo, opCaps, opPlan, opIter, opBatch, recordVars>>

\* Where optimize asks should_stop: before the step is recorded; the in-run
\* loop after it.
IngestReturns(e) ==
  /\ opPc = "ingesting"
  /\ CallReturns("ingest", e)
  /\ LET log == [opLog EXCEPT !.crossed = @ \/ Crossed(e)]
     IN IF ~e.ok THEN opPc' = "ended" /\ opLog' = [log EXCEPT !.why = "ingest"]
        ELSE IF opPlan.plan = "acquire_baseline" THEN opPc' = "ended" /\ opLog' = [log EXCEPT !.why = "ok"]
        ELSE /\ opPc' = IF opPlan.plan = "optimize" /\ "stopping" \in opCaps THEN "stop?" ELSE "read"
             /\ opLog' = log
  /\ UNCHANGED <<opTodo, opCaps, opPlan, opIter, opBatch, opOut, recordVars>>

AskStop ==
  /\ opPc = "stop?"
  /\ opPc' = "stopping"
  /\ Call("should_stop", <<>>)
  /\ UNCHANGED <<opTodo, opCaps, opPlan, opIter, opBatch, opOut, opLog, recordVars>>

\* An error answer counts as "go on".
StopReturns(e) ==
  /\ opPc = "stopping"
  /\ CallReturns("should_stop", e)
  /\ LET log == [opLog EXCEPT !.crossed = @ \/ Crossed(e)]
     IN IF e.ok /\ e.v = <<Yes>> THEN opPc' = "ended" /\ opLog' = [log EXCEPT !.why = "stopped"]
        ELSE opPc' = (IF opPlan.plan = "optimize" THEN "read" ELSE "checkpoint") /\ opLog' = log
  /\ UNCHANGED <<opTodo, opCaps, opPlan, opIter, opBatch, opOut, recordVars>>

-----------------------------------------------------------------------------
(* read_step: one event for the step.                                      *)

\* The trials by the text of their id, the last of equal texts, in order.
ByText(s, ids) ==
  LET texts == {OpText(ids[i]) : i \in DOMAIN s}
      last(t) == s[Max({i \in DOMAIN s : OpText(ids[i]) = t})]
      order == SetToSortSeq(texts, <)
  IN [i \in DOMAIN order |-> last(order[i])]

Padded(values, pad) == values \o [i \in 1 .. pad |-> Pad]

\* The columns: a trial adds to a column only what it has, and every column
\* grows by the missing trials of the step.
Columns(byS, byO, pad) ==
  [k \in {"ids", "x", "y"} \cup (IF \E i \in DOMAIN byO : byO[i].z THEN {"z"} ELSE {}) |->
     CASE k = "ids" -> Padded([i \in DOMAIN byS |-> byS[i]], pad)
       [] k = "x"   -> Padded(byS, pad)
       [] k = "y"   -> Padded([i \in DOMAIN byO |-> byO[i].id], pad)
       [] k = "z"   -> Padded([i \in DOMAIN SelectSeq(byO, LAMBDA o : o.z)
                                 |-> SelectSeq(byO, LAMBDA o : o.z)[i].id], pad)]

\* track: a key keeps its readable, and the readable its data_key.
Tracked(cols) == [k \in DOMAIN opCache \cup DOMAIN cols |->
                    IF k \in DOMAIN cols THEN cols[k] ELSE opCache[k]]

Described(cache) == [k \in DOMAIN cache |->
                       IF k \in DOMAIN opKeys THEN opKeys[k] ELSE Len(cache[k])]

Points == IF opPlan.plan \in {"sample_suggestions", "sample_candidates"} THEN Len(opBatch) ELSE opPlan.n

AfterRead ==
  CASE opPlan.plan = "optimize" -> "checkpoint"
    [] opPlan.plan = "optimize_in_run" -> IF "stopping" \in opCaps THEN "stop?" ELSE "checkpoint"
    [] OTHER -> "ended"

ReadStep ==
  /\ opPc = "read"
  /\ LET byS == ByText(opBatch, opBatch)
         byO == ByText(opOut, OutIds(opOut))
         texts(s) == [i \in DOMAIN s |-> OpText(s[i])]
         pad == IF Len(byS) < Points THEN Points - Len(byS) ELSE 0
         cache == Tracked(Columns(byS, byO, pad))
         keys == IF opRow.desc = <<>> THEN Described(cache) ELSE opKeys
     IN IF texts(byS) # texts(OutIds(byO))
          THEN EndPlan("read") /\ UNCHANGED recordVars
          ELSE /\ opCache' = cache
               /\ opKeys' = keys
               /\ opRow' = [ids |-> cache["ids"], cols |-> cache, batch |-> opBatch, out |-> opOut,
                            desc |-> IF opRow.desc = <<>> THEN keys ELSE opRow.desc]
               /\ IF AfterRead = "ended" THEN EndPlan("ok") ELSE opPc' = AfterRead /\ UNCHANGED opLog
  /\ NoCallNow
  /\ UNCHANGED <<opTodo, opCaps, opPlan, opIter, opBatch, opOut>>

\* maybe_checkpoint, and the Checkpoint message that ends an iteration.
CheckpointDue == opPlan.every > 0 /\ (opIter + 1) % opPlan.every = 0

MaybeCheckpoint ==
  /\ opPc = "checkpoint"
  /\ IF ~CheckpointDue
       THEN opPc' = "loop" /\ opIter' = opIter + 1 /\ UNCHANGED opLog /\ NoCallNow
     ELSE IF "checkpoint" \notin opCaps
       THEN EndPlan("checkpoint") /\ UNCHANGED opIter /\ NoCallNow
     ELSE opPc' = "saving" /\ UNCHANGED <<opIter, opLog>> /\ Call("checkpoint", <<>>)
  /\ UNCHANGED <<opTodo, opCaps, opPlan, opBatch, opOut, recordVars>>

CheckpointReturns(e) ==
  /\ opPc = "saving"
  /\ CallReturns("checkpoint", e)
  /\ LET log == [opLog EXCEPT !.crossed = @ \/ Crossed(e)]
     IN IF e.ok THEN opPc' = "loop" /\ opIter' = opIter + 1 /\ opLog' = log
        ELSE opPc' = "ended" /\ opLog' = [log EXCEPT !.why = "checkpoint"] /\ UNCHANGED opIter
  /\ UNCHANGED <<opTodo, opCaps, opPlan, opBatch, opOut, recordVars>>

OptimiseNext ==
  \/ Connect \/ BeginPlan \/ LoopTurn \/ AskStop \/ ReadStep \/ MaybeCheckpoint
  \/ AcquireClean \/ AcquireWithoutUid \/ AcquireThrows \/ EvaluateFails \/ Evaluate
  \/ \E r \in opWire : ServerAnswers(r)
  \/ \E e \in Ends : \/ ConfigureReturns(e) \/ SuggestReturns(e) \/ RegisterReturns(e) \/ FailuresReturn(e)
                     \/ IngestReturns(e) \/ StopReturns(e) \/ CheckpointReturns(e)

-----------------------------------------------------------------------------
(* Properties.                                                             *)

\* A reply that comes after its call timed out never answers a later call.
AnswersMatch == ~opLog.crossed

\* The trials of a finished loop: all ingested when it ended well; when the
\* acquisition or the evaluation failed, those of the failed step were
\* reported unless the report itself got no answer; and never both.
TrialsAccounted ==
  /\ opServer.ingested \cap opServer.failed = {}
  /\ opPc = "ended" /\ Guarded =>
       /\ opLog.why \in {"ok", "stopped"} => opLog.got \subseteq opServer.ingested
       /\ opLog.why \in {"acquire", "evaluate"} =>
            /\ opLog.lost \/ IdsOf(opBatch) \subseteq opServer.failed
            /\ opLog.got \ IdsOf(opBatch) \subseteq opServer.ingested

\* A row is about trials the optimizer was told of, and every column that all
\* the trials of the step have gives each trial its own value (ids that print
\* alike share one line), padded to the length of the id column.
RowsTrue ==
  opRow.ids # <<>> =>
    /\ Guarded => IdsOf(opRow.batch) \subseteq opServer.ingested
    /\ LET everyone == {"x", "y"} \cup IF \A i \in DOMAIN opRow.out : opRow.out[i].z THEN {"z"} ELSE {}
       IN \A k \in everyone \cap DOMAIN opRow.cols :
            /\ Len(opRow.cols[k]) = Len(opRow.ids)
            /\ \A i \in DOMAIN opRow.ids : OpText(opRow.cols[k][i]) = OpText(opRow.ids[i])

\* Within one plan the columns every trial has keep the shape the run's
\* descriptor gave them, whatever number of points the optimizer returned,
\* once a cache only ever served plans of one number of points.
SamePoints == \A s \in OpSessions : \A i, j \in DOMAIN s : s[i].n = s[j].n
RowsFitDescriptor ==
  SamePoints /\ opRow.ids # <<>> =>
    \A k \in {"ids", "x", "y"} : Len(opRow.cols[k]) = opRow.desc[k]

OptimiseSound == AnswersMatch /\ TrialsAccounted /\ RowsTrue /\ RowsFitDescriptor

=============================================================================
