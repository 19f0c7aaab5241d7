---------------------------- MODULE OptimiseAids ----------------------------
(***************************************************************************)
(* What stands around the optimisation loop: the order suggestions are     *)
(* visited in (blop/routing.rs), the experiment an agent is built from     *)
(* (agent.rs, dof.rs, objective.rs, expr.rs), navigate_to_best and         *)
(* seq_read (stubs.rs), and the router that forwards the documents of      *)
(* optimisation runs to sinks, a logger among them (callbacks.rs).         *)
(***************************************************************************)
EXTENDS Integers, Sequences, FiniteSets, SequencesExt, FiniteSetsExt

CONSTANTS
  OaSinks,      \* the sinks a user may add, the first of them the logger
  OaRuns,       \* run -> its run_key
  OaDocsMax,    \* bound on events
  OaFaultsMax,  \* bound on sinks that fail to take a document
  OaCases       \* the inputs of the pure parts

VARIABLES
  oaSinks,    \* SinkList
  oaRouted,   \* RouterState.runs: run -> [sinks, primary]
  oaDescs,    \* RouterState.descriptors: descriptor -> run
  oaRun,      \* run -> [at: "new" | "open" | "stopped", descs]
  oaSeen,     \* sink -> the documents it took
  oaMissed,   \* the sinks a failed delivery kept a document from
  oaLogger,   \* LoggerState: [done, total, keys, stats]
  oaEvents, oaFaults,
  oaCase      \* the input of the pure parts that is looked at

aidVars == <<oaSinks, oaRouted, oaDescs, oaRun, oaSeen, oaMissed, oaLogger, oaEvents, oaFaults, oaCase>>

-----------------------------------------------------------------------------
(* Routing.  A point is a coordinate or NaN (a suggestion that lacks a     *)
(* routed dimension); a path runs over 0 (the start) and the points.       *)

NaN      == -1
Nowhere  == -2   \* no starting position
Apart(a, b) == IF NaN \in {a, b} THEN NaN ELSE IF a < b THEN b - a ELSE a - b
Below(a, b) == NaN \notin {a, b} /\ a < b
Plus(a, b)  == IF NaN \in {a, b} THEN NaN ELSE a + b

\* dist: from the start, or between points; nothing leads back to the start.
Dist(points, start, i, j) ==
  IF j = 0 THEN 0
  ELSE IF i = 0 THEN (IF start = Nowhere THEN 0 ELSE Apart(start, points[j]))
  ELSE Apart(points[i], points[j])

\* The first of the points left that no other is nearer than; left[1] when
\* no distance is a number.
Nearest(points, start, here, left) ==
  LET d(k) == Dist(points, start, here, left[k])
      numbered == {k \in DOMAIN left : d(k) # NaN}
  IN IF numbered = {} THEN 1
     ELSE Min({k \in numbered : \A m \in numbered : d(k) <= d(m)})

SwapRemove(s, k) == [i \in 1 .. Len(s) - 1 |-> IF i = k THEN s[Len(s)] ELSE s[i]]

RECURSIVE Greedy(_, _, _, _)
Greedy(points, start, path, left) ==
  IF left = <<>> THEN path
  ELSE LET k == Nearest(points, start, Last(path), left)
       IN Greedy(points, start, Append(path, left[k]), SwapRemove(left, k))

\* 2-opt: the edges before a stretch and after it, with the stretch reversed.
EdgesAround(points, start, path, i, j, turned) ==
  LET first == IF turned THEN path[j] ELSE path[i]
      final == IF turned THEN path[i] ELSE path[j]
  IN Plus(Dist(points, start, path[i - 1], first),
          IF j < Len(path) THEN Dist(points, start, final, path[j + 1]) ELSE 0)

Turned(path, i, j) == [k \in DOMAIN path |-> IF k \in i .. j THEN path[i + j - k] ELSE path[k]]

\* `path` holds the start at 1: i runs from 2 and j beyond it.
Stretches(n) == SetToSortSeq({ij \in (2 .. n - 1) \X (3 .. n) : ij[1] < ij[2]},
                             LAMBDA a, b : a[1] < b[1] \/ (a[1] = b[1] /\ a[2] < b[2]))

OnePass(points, start, path) ==
  FoldLeft(LAMBDA p, ij :
             IF Below(EdgesAround(points, start, p, ij[1], ij[2], TRUE),
                      EdgesAround(points, start, p, ij[1], ij[2], FALSE))
               THEN Turned(p, ij[1], ij[2]) ELSE p,
           path, Stretches(Len(path)))

RECURSIVE Improved(_, _, _)
Improved(points, start, path) ==
  LET next == OnePass(points, start, path)
  IN IF next = path THEN path ELSE Improved(points, start, next)

RouteIndex(points, start) ==
  IF Len(points) < 2 THEN [i \in DOMAIN points |-> i]
  ELSE Tail(Improved(points, start, Greedy(points, start, <<0>>, [i \in DOMAIN points |-> i])))

PathLength(points, start, order) ==
  FoldLeft(LAMBDA d, k : d + Dist(points, start, IF k = 1 THEN 0 ELSE order[k - 1], order[k]),
           0, [k \in DOMAIN order |-> k])

-----------------------------------------------------------------------------
(* Building an agent.  A template is a sequence of words; a constraint or  *)
(* a scalarized objective maps some of them to names.                      *)

ParameterName(dof) == IF dof.bind = "remote" /\ dof.alias # "" THEN dof.alias ELSE dof.name

\* expr::substitute: the first pair of a word, else the word itself.
Substitute(template, pairs) ==
  [i \in DOMAIN template |->
     LET hits == {p \in DOMAIN pairs : pairs[p][1] = template[i]}
     IN IF hits = {} THEN template[i] ELSE pairs[Min(hits)][2]]

\* ScalarizedObjective::new, OutcomeConstraint::new and DofConstraint::new.
TemplateAccepted(template, pairs) ==
  /\ pairs # <<>>
  /\ \A p \in DOMAIN pairs : \E i \in DOMAIN template : template[i] = pairs[p][1]

\* DofConstraint: its variables stand for DOFs, by their parameter names.
DofConstraint(template, vars, dofs) ==
  LET pairs == [i \in DOMAIN vars |-> <<vars[i], ParameterName(dofs[i])>>]
  IN IF TemplateAccepted(template, pairs) THEN Substitute(template, pairs) ELSE <<"fail">>

\* AgentBuilder::spec: "remote", "duplicate", "template" or the spec.
AgentSpec(c) ==
  LET names == [i \in DOMAIN c.dofs |-> ParameterName(c.dofs[i])]
  IN IF ~TemplateAccepted(c.template, c.pairs) THEN [err |-> "template"]
     ELSE IF \E i \in DOMAIN c.dofs : c.dofs[i].bind = "remote" THEN [err |-> "remote"]
     ELSE IF ~IsInjective(names) THEN [err |-> "duplicate"]
     ELSE [err |-> "", parameters |-> names, constraint |-> Substitute(c.template, c.pairs),
           constrained |-> DofConstraint(c.template, c.vars, c.dofs),
           actuators |-> SelectSeq(c.dofs, LAMBDA d : d.bind = "actuator")]

\* list_scan_axes: every suggestion has a number for every actuator.
ListScanAxes(acts, suggestion) ==
  IF \E i \in DOMAIN acts : acts[i].name \notin suggestion THEN "fail" ELSE "axes"

\* navigate_to_best: one best point, its parameters that name actuators.
NavigateMoves(spec, bests) ==
  IF Cardinality(bests) # 1 THEN {"fail"}
  ELSE (CHOOSE b \in bests : TRUE) \cap {spec.actuators[i].name : i \in DOMAIN spec.actuators}

-----------------------------------------------------------------------------
(* The messages of an acquisition.  A message is [c, run]: its command and *)
(* the run it is routed to, "" while it is bare.                           *)

Bare(c) == [c |-> c, run |-> ""]
RunScoped == {"open", "close", "create", "save", "read", "drop", "collect", "monitor", "configure", "kickoff"}

\* list_scan_nd over n points: what its messages are to the wrappers below.
ScanMessages(n) ==
  LET point == <<"checkpoint", "set", "wait", "create", "read", "save">>
      all == <<"stage", "open">> \o [i \in 1 .. 6 * n |-> point[1 + ((i - 1) % 6)]] \o <<"close", "unstage">>
  IN [i \in DOMAIN all |-> Bare(all[i])]

InRunAll(msgs, run) ==
  [i \in DOMAIN msgs |-> IF msgs[i].c \in RunScoped THEN [msgs[i] EXCEPT !.run = run] ELSE msgs[i]]

\* in_run_wrapper: a message already routed keeps its run.
InRunWrapper(msgs, run) ==
  [i \in DOMAIN msgs |->
     IF msgs[i].c \in RunScoped /\ msgs[i].run = "" THEN [msgs[i] EXCEPT !.run = run] ELSE msgs[i]]

DropRunControl(msgs) == SelectSeq(msgs, LAMBDA m : m.c \notin {"open", "close"})

\* capture_run_uid: the first OpenRun answers with the run's uid.
CaptureRunUid(msgs) ==
  LET opens == {i \in DOMAIN msgs : msgs[i].c = "open"}
  IN IF opens = {} THEN "nothing" ELSE msgs[Min(opens)].run

\* routed: positions are read only for two points or more, and only when every
\* actuator has a readback.
RoutedReads(n, readable) == IF n < 2 \/ ~readable THEN <<>> ELSE <<Bare("read")>>

\* default_acquire: a run of its own that cannot be rewound.
DefaultAcquire(n, readable) ==
  RoutedReads(n, readable)
    \o InRunWrapper(SelectSeq(ScanMessages(n), LAMBDA m : m.c # "checkpoint"), "default_acquire")

\* list_scan_in_run: the scan without its run control, inside the open run.
ListScanInRun(n, readable) == RoutedReads(n, readable) \o DropRunControl(ScanMessages(n))

\* read_step as messages, and the tracking run around a step (run_wrapper,
\* set_run_key_wrapper, in_run_wrapper).
StepMessages(c) ==
  (IF c.inrun THEN ListScanInRun(c.n, c.readable) ELSE DefaultAcquire(c.n, c.readable))
    \o <<Bare("create"), Bare("read"), Bare("save")>> \o IF c.inrun THEN <<>> ELSE <<Bare("checkpoint")>>

TrackingRun(c) ==
  InRunWrapper(<<Bare("open")>> \o StepMessages(c) \o <<Bare("close")>>,
               IF c.inrun THEN "optimize_in_run" ELSE "optimize")

\* single_value: the first hinted field that was read, or the only field.
SingleValue(fields, hint) ==
  IF hint \in fields THEN hint
  ELSE IF Cardinality(fields) = 1 THEN CHOOSE f \in fields : TRUE
  ELSE "fail"

-----------------------------------------------------------------------------
(* OptimizationRouter.                                                     *)

Followed(run) == OaRuns[run] \in {"optimize", "sample_suggestions"}

NoLogger == [done |-> 0, total |-> 0, keys |-> FALSE, stats |-> 0]

AidsInit ==
  /\ oaSinks = <<Head(OaSinks)>>
  /\ oaRouted = <<>>
  /\ oaDescs = <<>>
  /\ oaRun = [r \in DOMAIN OaRuns |-> [at |-> "new", descs |-> {}]]
  /\ oaSeen = [s \in Range(OaSinks) |-> <<>>]
  /\ oaMissed = {}
  /\ oaLogger = NoLogger
  /\ oaEvents = 0
  /\ oaFaults = 0
  /\ oaCase \in OaCases

\* The logger: a start gives the total, counted on from what is done.
LoggerStarts(doc) == [oaLogger EXCEPT !.total = oaLogger.done + doc.n]

\* cache_keys: the columns are those the last descriptor named.
LoggerCaches == [oaLogger EXCEPT !.keys = TRUE]

\* An event counts an iteration, and its points that are not padding join the
\* statistics, once a descriptor named the columns.
LoggerRenders(doc) ==
  [oaLogger EXCEPT !.done = @ + 1, !.stats = @ + IF oaLogger.keys THEN doc.n ELSE 0]

\* A stop renders the statistics and keeps them.
LoggerTakes(doc) ==
  CASE doc.t = "start" -> LoggerStarts(doc)
    [] doc.t = "descriptor" -> LoggerCaches
    [] doc.t = "event" -> LoggerRenders(doc)
    [] doc.t = "stop" -> oaLogger

\* DocumentSink::dispatch of the router: the first sink that fails ends it.
Dispatch(sinks, doc) ==
  \E upto \in {Len(sinks)} \cup IF oaFaults < OaFaultsMax THEN 0 .. Len(sinks) - 1 ELSE {} :
    LET took == {sinks[i] : i \in 1 .. upto}
    IN /\ oaFaults' = oaFaults + IF upto < Len(sinks) THEN 1 ELSE 0
       /\ oaSeen' = [s \in DOMAIN oaSeen |-> IF s \in took THEN Append(oaSeen[s], doc) ELSE oaSeen[s]]
       /\ oaMissed' = oaMissed \cup {sinks[i] : i \in upto + 1 .. Len(sinks)}
       /\ oaLogger' = IF Head(OaSinks) \in took THEN LoggerTakes(doc) ELSE oaLogger

Doc(t, run, n) == [t |-> t, run |-> run, n |-> n]

StartRun(run, n) ==
  /\ oaRun[run].at = "new"
  /\ oaRun' = [oaRun EXCEPT ![run].at = "open"]
  /\ oaRouted' = IF Followed(run)
                   THEN [r \in DOMAIN oaRouted \cup {run} |->
                           IF r = run THEN [sinks |-> oaSinks, primary |-> {}] ELSE oaRouted[r]]
                   ELSE oaRouted
  /\ Dispatch(IF Followed(run) THEN oaSinks ELSE <<>>, Doc("start", run, n))
  /\ UNCHANGED <<oaSinks, oaDescs, oaEvents, oaCase>>

\* The descriptor of a stream: only "primary" of a followed run goes on.
DescribeStream(run, stream) ==
  LET d == <<run, stream>>
      passes == run \in DOMAIN oaRouted /\ stream = "primary"
  IN /\ oaRun[run].at = "open"
     /\ d \notin oaRun[run].descs
     /\ oaRun' = [oaRun EXCEPT ![run].descs = @ \cup {d}]
     /\ IF passes
          THEN /\ oaRouted' = [oaRouted EXCEPT ![run].primary = @ \cup {d}]
               /\ oaDescs' = [e \in DOMAIN oaDescs \cup {d} |-> e[1]]
               /\ Dispatch(oaRouted[run].sinks, Doc("descriptor", run, 0))
          ELSE Dispatch(<<>>, Doc("descriptor", run, 0)) /\ UNCHANGED <<oaRouted, oaDescs>>
     /\ UNCHANGED <<oaSinks, oaEvents, oaCase>>

EventOf(run, stream, n) ==
  LET d == <<run, stream>>
      sinks == IF d \in DOMAIN oaDescs /\ oaDescs[d] \in DOMAIN oaRouted
                 THEN oaRouted[oaDescs[d]].sinks ELSE <<>>
  IN /\ oaRun[run].at = "open" /\ d \in oaRun[run].descs
     /\ oaEvents < OaDocsMax
     /\ oaEvents' = oaEvents + 1
     /\ Dispatch(sinks, Doc("event", run, n))
     /\ UNCHANGED <<oaSinks, oaRouted, oaDescs, oaRun, oaCase>>

StopLeaves(run) == oaDescs

\* What is left of the descriptors when a run stops.
StopForgets(run) ==
  [d \in {e \in DOMAIN oaDescs : e \notin oaRouted[run].primary} |-> oaDescs[d]]

StopRun(run) ==
  /\ oaRun[run].at = "open"
  /\ oaRun' = [oaRun EXCEPT ![run].at = "stopped"]
  /\ IF run \in DOMAIN oaRouted
       THEN /\ Dispatch(oaRouted[run].sinks, Doc("stop", run, 0))
            /\ oaRouted' = [r \in DOMAIN oaRouted \ {run} |-> oaRouted[r]]
            /\ oaDescs' = StopForgets(run)
       ELSE Dispatch(<<>>, Doc("stop", run, 0)) /\ UNCHANGED <<oaRouted, oaDescs>>
  /\ UNCHANGED <<oaSinks, oaEvents, oaCase>>

AddSink(s) ==
  /\ s \notin Range(oaSinks)
  /\ oaSinks' = Append(oaSinks, s)
  /\ UNCHANGED <<oaRouted, oaDescs, oaRun, oaSeen, oaMissed, oaLogger, oaEvents, oaFaults, oaCase>>

AidsNext ==
  \/ \E s \in Range(OaSinks) : AddSink(s)
  \/ \E r \in DOMAIN OaRuns :
       \/ StopRun(r)
       \/ StartRun(r, 2)
       \/ \E st \in {"primary", "baseline"} :
            DescribeStream(r, st) \/ EventOf(r, st, 1 + (oaEvents % 2))

-----------------------------------------------------------------------------
(* Properties.                                                             *)

DocsOf(s, run) == SelectSeq(oaSeen[s], LAMBDA d : d.run = run)

\* A sink sees a followed run whole or not at all, its stop last, unless a
\* failed delivery cost it a document; of the runs inside it nothing; and
\* the router keeps nothing of a run that stopped.
RouterSound ==
  /\ \A s \in DOMAIN oaSeen \ oaMissed, r \in DOMAIN OaRuns :
       LET docs == DocsOf(s, r)
       IN docs # <<>> =>
            /\ Followed(r)
            /\ docs[1].t = "start" /\ \A i \in 2 .. Len(docs) : docs[i].t # "start"
            /\ oaRun[r].at = "stopped" <=> Last(docs).t = "stop"
            /\ \A i \in DOMAIN docs : docs[i].t = "event" =>
                 \E j \in 1 .. i - 1 : docs[j].t = "descriptor"
  /\ DOMAIN oaRouted = {r \in DOMAIN OaRuns : oaRun[r].at = "open" /\ Followed(r)}
  /\ \A d \in DOMAIN oaDescs : d[1] \in DOMAIN oaRouted

\* The logger's iterations and statistics are those of the events it took.
LoggerCounts ==
  LET seen == oaSeen[Head(OaSinks)]
      events == SelectSeq(seen, LAMBDA d : d.t = "event")
  IN /\ oaLogger.done = Len(events)
     /\ Head(OaSinks) \notin oaMissed =>
          oaLogger.stats = FoldLeft(LAMBDA a, d : a + d.n, 0, events)

\* The route visits every suggestion once, those without a coordinate last,
\* is no longer than the nearest-neighbour path and cannot be shortened by
\* turning a stretch of it.
RouteSound ==
  oaCase.kind = "route" =>
    LET p == oaCase.points
        s == oaCase.start
        order == RouteIndex(p, s)
        full == <<0>> \o order
    IN /\ IsInjective(order) /\ Range(order) = DOMAIN p
       /\ \A i \in 2 .. Len(order) : p[order[i - 1]] = NaN => p[order[i]] = NaN
       /\ \A i \in 2 .. Len(full) - 1 : \A j \in i + 1 .. Len(full) :
            ~Below(EdgesAround(p, s, full, i, j, TRUE), EdgesAround(p, s, full, i, j, FALSE))
       /\ NaN \notin Range(p) /\ s # NaN =>
            PathLength(p, s, order)
              <= PathLength(p, s, Tail(Greedy(p, s, <<0>>, [i \in DOMAIN p |-> i])))

\* An accepted experiment names each parameter once and leaves no template
\* variable unresolved, and a best point moves actuators of the experiment only.
SpecSound ==
  oaCase.kind = "spec" =>
    LET spec == AgentSpec(oaCase)
    IN spec.err = "" =>
         /\ IsInjective(spec.parameters)
         /\ \A p \in DOMAIN oaCase.pairs :
              \E i \in DOMAIN spec.constraint : spec.constraint[i] = Substitute(<<oaCase.pairs[p][1]>>, oaCase.pairs)[1]
         /\ Len(spec.constraint) = Len(oaCase.template)
         /\ \/ spec.constrained = <<"fail">>
            \/ \A i \in DOMAIN spec.constrained : \/ spec.constrained[i] \in Range(spec.parameters)
                                                  \/ spec.constrained[i] \notin Range(oaCase.vars)
         /\ LET moved == NavigateMoves(spec, {Range(spec.parameters)})
            IN /\ moved \subseteq Range(spec.parameters)
               /\ ListScanAxes(spec.actuators, moved) = "axes"

\* Inside a tracking run every run-scoped message is routed to one run: the
\* acquisition's own run, opened and closed once within the tracking run, gives
\* the uid; an in-run acquisition opens none; and nothing in an acquisition of
\* its own lets the engine rewind into it.
AcquisitionNested ==
  oaCase.kind = "acquire" =>
    LET ms == TrackingRun(oaCase)
        outer == IF oaCase.inrun THEN "optimize_in_run" ELSE "optimize"
        of(c, r) == {i \in DOMAIN ms : ms[i].c = c /\ ms[i].run = r}
    IN /\ \A i \in DOMAIN ms : (ms[i].c \in RunScoped) <=> ms[i].run # ""
       /\ \A r \in {ms[i].run : i \in DOMAIN ms} \ {""} :
            /\ Cardinality(of("open", r)) = 1 /\ Cardinality(of("close", r)) = 1
            /\ \A i \in DOMAIN ms : ms[i].run = r => i \in Min(of("open", r)) .. Max(of("close", r))
       /\ of("open", outer) # {}
       /\ ~oaCase.inrun =>
            /\ CaptureRunUid(StepMessages(oaCase)) = "default_acquire"
            /\ \A i \in Min(of("open", "default_acquire")) .. Max(of("close", "default_acquire")) :
                 ms[i].c # "checkpoint"

\* A position is read from a field of the device, the hinted one when it is there.
PositionsRead ==
  oaCase.kind = "position" =>
    LET v == SingleValue(oaCase.fields, oaCase.hint)
    IN /\ v # "fail" => v \in oaCase.fields
       /\ oaCase.hint \in oaCase.fields => v = oaCase.hint

AidsSound == AcquisitionNested /\ PositionsRead /\ RouterSound /\ LoggerCounts /\ RouteSound /\ SpecSound

=============================================================================
