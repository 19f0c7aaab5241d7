------------------------------- MODULE Plans --------------------------------
(***************************************************************************)
(* The plans of plans/mod.rs and the preprocessors of                      *)
(* plans/preprocessors.rs, as the sequences of messages they yield.        *)
(*                                                                         *)
(* A plan is a sequence of items, an item a message or a marker of a       *)
(* contingency_wrapper: "try" opens one, "pop" ends its body, and "else",  *)
(* "finally" and "end" close its recovery plans.  What runs between the    *)
(* markers, and when, is in PlanMachine.  What a plan decides on an answer *)
(* it gets while it runs (is the flyer done, where is the peak) is an      *)
(* argument of the plan.  Metadata is reduced to num_points.               *)
(***************************************************************************)
EXTENDS ScanPatterns

CONSTANT Stageable   \* the devices whose as_stageable() is Some

NoPoints == -1

\* c: command, o: object, v: value, g: group or stream, by: the lazy
\* preprocessors that look at the message.
Msg(c, o, v, g) == [c |-> c, o |-> o, v |-> v, g |-> g, by |-> {}]
Plain(c)        == Msg(c, "-", 0, "-")

SetTo(m, v, g) == Msg("set", m, v, g)
WaitOn(g)      == Msg("wait", "-", 0, g)
Fail           == Plain("fail")
OpenRun(num)   == Msg("open_run", "-", num, "-")
CloseRun       == Plain("close_run")
Create(s)      == Msg("create", "-", 0, s)

Each(c, objs, g) == [i \in DOMAIN objs |-> Msg(c, objs[i], 0, g)]

Flat(seqs) == FlattenSeq(seqs)

-----------------------------------------------------------------------------
(* contingency_wrapper and what is built on it.                            *)

\* exc and els are TRUE when the plan is Some.
ContingencyWrapper(inner, exc, except, els, fin, auto) ==
  <<Plain("try")>> \o inner \o <<Msg("pop", "-", IF exc THEN 1 ELSE 0, "-")>> \o except
  \o <<Plain("else")>> \o els \o <<Plain("finally")>> \o fin
  \o <<Msg("end", "-", IF exc /\ ~auto THEN 0 ELSE 1, "-")>>

FinalizeWrapper(inner, fin) == ContingencyWrapper(inner, FALSE, <<>>, <<>>, fin, TRUE)

StageAll(objs)   == Each("stage", objs, "-")
UnstageAll(objs) == Each("unstage", Reverse(objs), "-")

StageWrapper(inner, objs) == FinalizeWrapper(StageAll(objs) \o inner, UnstageAll(objs))

RunWrapper(inner) ==
  <<OpenRun(NoPoints)>> \o ContingencyWrapper(inner, TRUE, <<CloseRun>>, <<CloseRun>>, <<>>, TRUE)

RewindableWrapper(inner, on) ==
  <<Msg("rewindable", "-", IF on THEN 1 ELSE 0, "-")>>
  \o FinalizeWrapper(inner, <<Msg("rewindable", "-", 1, "-")>>)

SuspendWrapper(inner, id) ==
  FinalizeWrapper(<<Msg("install_suspender", id, 0, "-")>> \o inner, <<Msg("remove_suspender", id, 0, "-")>>)

-----------------------------------------------------------------------------
(* Preprocessors that rewrite the stream they are given.                   *)

PlanMutator(inner, f) == Flat([i \in DOMAIN inner |-> f[inner[i]]])
MsgMutator(inner, f)  == [i \in DOMAIN inner |-> f[inner[i]]]

Pchain(plans) == Flat(plans)

\* The inner plan is resumed only after the last of the messages put behind
\* open_run, and after close_run itself: the others are held.
Held(msgs) == [i \in DOMAIN msgs |-> [msgs[i] EXCEPT !.by = @ \cup {"held"}]]

DuringRunWrapper(inner, afterOpen, beforeClose) ==
  PlanMutator(inner, [m \in ToSet(inner) |->
    CASE m.c = "open_run" /\ afterOpen # <<>> ->
           Held(<<m>> \o Front(afterOpen)) \o <<[Last(afterOpen) EXCEPT !.by = @ \cup m.by]>>
      [] m.c = "close_run" -> Held(beforeClose) \o <<m>>
      [] OTHER             -> <<m>>])

MonitorDuringWrapper(inner, signals) ==
  DuringRunWrapper(inner, Each("monitor", signals, "-"), Each("unmonitor", Reverse(signals), "-"))

BaselineWrapper(inner, devices) ==
  LET point == <<Create("baseline")>> \o Each("read", devices, "-") \o <<Plain("save")>>
  IN  DuringRunWrapper(inner, point, point)

WaitUnless(objs, g) == IF objs = <<>> THEN <<>> ELSE <<WaitOn(g)>>

FlyDuringWrapper(inner, flyers) ==
  DuringRunWrapper(inner,
    Each("kickoff", flyers, "fly_kick") \o WaitUnless(flyers, "fly_kick"),
    Each("complete", flyers, "fly_done") \o WaitUnless(flyers, "fly_done") \o Each("collect", flyers, "-"))

SupplementalApply(plan, flyers, monitors, baseline) ==
  LET flown     == IF flyers = <<>> THEN plan ELSE FlyDuringWrapper(plan, flyers)
      monitored == IF monitors = <<>> THEN flown ELSE MonitorDuringWrapper(flown, monitors)
  IN  IF baseline = <<>> THEN monitored ELSE BaselineWrapper(monitored, baseline)

ConfigureCountTimeWrapper(inner, dets) == Each("configure", dets, "-") \o inner

\* stub_wrapper: the plan ends at the first message that opens or closes a
\* run, and the wrapped stream is dropped, inside whatever regions it is.
StubWrapper(inner) ==
  MsgMutator(inner, [m \in ToSet(inner) |->
    IF m.c \in {"open_run", "close_run"} THEN [Fail EXCEPT !.by = {"drops"}] ELSE m])

\* The wrappers that look a device up when its message comes by mark the
\* messages here; PlanMachine does the rest when it yields them.
Marked(inner, tag, cs, objs) ==
  MsgMutator(inner, [m \in ToSet(inner) |->
    IF m.c \in cs /\ m.o \in ToSet(objs) THEN [m EXCEPT !.by = @ \cup {tag}] ELSE m])

RelativeSetWrapper(inner, motors) == Marked(inner, "rel", {"set"}, motors)

ResetPositionsWrapper(inner, motors) ==
  FinalizeWrapper(Marked(inner, "reset", {"set"}, motors), <<Plain("reset_all"), WaitOn("reset")>>)

LazilyStageWrapper(inner, devices) ==
  FinalizeWrapper(Marked(inner, "lazy", {"read", "set", "trigger", "configure"}, devices),
                  <<Plain("unstage_seen")>>)

-----------------------------------------------------------------------------
(* Stubs.                                                                  *)

KeepAll(devices) == devices

SeparateDevices(devices) ==
  FoldLeft(LAMBDA out, d : IF d \in ToSet(out) THEN out ELSE Append(out, d), <<>>, devices)

StageablesFor(dets, motors) ==
  SeparateDevices(SelectSeq(dets \o motors, LAMBDA d : d \in Stageable))

MvMany(moves) == [i \in DOMAIN moves |-> SetTo(moves[i].m, moves[i].to, "mv")] \o <<WaitOn("mv")>>

\* Every motor is located before the first Set; `dead` cannot be located.
MvrMany(moves, at, dead) ==
  IF \E i \in DOMAIN moves : moves[i].m = dead THEN <<Fail>>
  ELSE MvMany([i \in DOMAIN moves |-> [m |-> moves[i].m, to |-> at[moves[i].m] + moves[i].to]])

RelSet(m, v, at, dead, g) == IF m = dead THEN <<Fail>> ELSE <<SetTo(m, at[m] + v, g)>>

Prepare(obj, g, wait) == <<Msg("prepare", obj, 0, g)>> \o (IF wait THEN <<WaitOn(g)>> ELSE <<>>)

KickoffAll(flyers, g, wait)  == Each("kickoff", flyers, g) \o (IF wait THEN <<WaitOn(g)>> ELSE <<>>)
CompleteAll(flyers, g, wait) == Each("complete", flyers, g) \o (IF wait THEN <<WaitOn(g)>> ELSE <<>>)

\* `turns`: how many waits return, the last one with done.
CollectWhileCompleting(flyers, dets, turns) ==
  Each("complete", flyers, "complete")
  \o Flat([i \in 1 .. turns |->
       <<Msg(IF i = turns THEN "wait" ELSE "wait_briefly", "-", 0, "complete")>> \o Each("collect", dets, "-")])

Repeat(plan, num, delay) ==
  Flat([i \in 1 .. num |-> <<Plain("checkpoint")>> \o plan \o (IF delay THEN <<Plain("sleep")>> ELSE <<>>)])

Point(stream, objs) == <<Create(stream)>> \o Each("read", objs, "-") \o <<Plain("save")>>

\* The reads are guarded: a failed one drops the bundle.
TriggerAndRead(triggerables, readables, stream) ==
  LET ts == SeparateDevices(triggerables) IN
  Each("trigger", ts, "trig") \o WaitUnless(ts, "trig") \o <<Create(stream)>>
  \o ContingencyWrapper(Each("read", SeparateDevices(readables), "-"), TRUE,
                        <<Plain("drop")>>, <<Plain("save")>>, <<>>, TRUE)

OneShot(triggerables, readables) == <<Plain("checkpoint")>> \o TriggerAndRead(triggerables, readables, "primary")

ReadShot(dets) == <<Plain("checkpoint")>> \o Point("primary", dets)

MoveUnwaited(moves) ==
  LET going == SelectSeq(moves, LAMBDA s : s.go) IN
  <<Plain("checkpoint")>> \o [i \in DOMAIN going |-> SetTo(going[i].m, going[i].to, "set")]

\* moves: [m, go, to]; a motor that need not go is not commanded.
MovePerStep(moves) ==
  LET going == SelectSeq(moves, LAMBDA s : s.go) IN
  <<Plain("checkpoint")>> \o [i \in DOMAIN going |-> SetTo(going[i].m, going[i].to, "set")] \o <<WaitOn("set")>>

OneNdStep(dets, moves) ==
  MovePerStep(moves) \o Point("primary", [i \in DOMAIN moves |-> moves[i].m] \o dets)

-----------------------------------------------------------------------------
(* Plans.                                                                  *)

\* delays: the given sequence; the last argument of count_ext.  A shot may
\* be any plan.
CountDelayed(dets, num, delays, shot) ==
  IF num > 1 /\ Len(delays) < num - 1 THEN <<Fail>>
  ELSE LET shots == IF num = 0 THEN 0 ELSE IF Len(delays) < num THEN Len(delays) + 1 ELSE num
       IN  StageWrapper(<<OpenRun(num)>>
             \o Flat([i \in 1 .. shots |-> shot \o (IF i <= Len(delays) THEN <<Plain("sleep")>> ELSE <<>>)])
             \o <<CloseRun>>, StageablesFor(dets, <<>>))

Count(dets, num) ==
  StageWrapper(<<OpenRun(num)>> \o Flat([i \in 1 .. num |-> ReadShot(dets)]) \o <<CloseRun>>,
               StageablesFor(dets, <<>>))

CountWithTrigger(dets, triggerables, num) ==
  <<OpenRun(num)>>
  \o Flat([i \in 1 .. num |->
       <<Plain("checkpoint")>> \o Each("trigger", triggerables, "trigger") \o WaitUnless(triggerables, "trigger")
       \o Point("primary", dets)])
  \o <<CloseRun>>

\* One run over rows that command every motor at every point.
SteppedRun(dets, motors, num, rows) ==
  StageWrapper(<<OpenRun(num)>>
    \o Flat([i \in DOMAIN rows |->
         OneNdStep(dets, [a \in DOMAIN motors |-> [m |-> motors[a], go |-> TRUE, to |-> rows[i][a]]])])
    \o <<CloseRun>>, StageablesFor(dets, motors))

ListScan(dets, motor, points) ==
  SteppedRun(dets, <<motor>>, Len(points), [i \in DOMAIN points |-> <<points[i]>>])

Scan1d(dets, motor, start, stop, num) ==
  LET step == IF num > 1 THEN (stop - start) \div (num - 1) ELSE 0
  IN  SteppedRun(dets, <<motor>>, num, [i \in 1 .. num |-> <<start + step * (i - 1)>>])

InnerProductCore(dets, motors, num, bounds) ==
  SteppedRun(dets, motors, num, InnerProduct(num, bounds))

\* The second motor runs at half the range, and both from where they are.
X2xScan(dets, m1, m2, start, stop, num) ==
  RelativeSetWrapper(
    InnerProductCore(dets, <<m1, m2>>, num,
                     <<[s |-> start, e |-> stop], [s |-> start \div 2, e |-> stop \div 2]>>), <<m1, m2>>)

SeededByStart(rows, i, a) == i > 1 /\ a \in DOMAIN rows[i] /\ rows[i][a] # rows[i - 1][a]

\* pos_cache: a motor goes when its target differs from the last one it got.
\* A row may be shorter than the motors: the others are only read.
Goes(rows, i, a) ==
  LET given == {j \in 1 .. i - 1 : a \in DOMAIN rows[j]} IN
  a \in DOMAIN rows[i] /\ (given = {} \/ rows[Max(given)][a] # rows[i][a])

ScanNdWithMd(dets, motors, rows) ==
  StageWrapper(<<OpenRun(Len(rows))>>
    \o Flat([i \in DOMAIN rows |->
         OneNdStep(dets, [a \in DOMAIN motors |-> [m |-> motors[a], go |-> Goes(rows, i, a),
                                                  to |-> IF a \in DOMAIN rows[i] THEN rows[i][a] ELSE 0]])])
    \o <<CloseRun>>, StageablesFor(dets, motors))

ListScanNd(dets, motors, lists) ==
  IF \E a \in DOMAIN lists : Len(lists[a]) # Len(lists[1]) THEN <<Fail>>
  ELSE ScanNdWithMd(dets, motors, InnerListProduct(lists))

\* SnakeAxes::to_flags: "all" leaves out the slowest axis.
ToFlags(snake, n) == [a \in 1 .. n |-> snake = "all" /\ a > 1]

ListGridScanSnake(dets, motors, lists, snake) ==
  ScanNdWithMd(dets, motors, OuterListProductSnake(lists, ToFlags(snake, Len(lists))))

\* Its own loops: the slow motor settles once a row.
GridScanSnake(dets, m1, s1, e1, n1, m2, s2, e2, n2, snake) ==
  LET step(s, e, n) == IF n > 1 THEN (e - s) \div (n - 1) ELSE 0
      at2(i, j) == s2 + step(s2, e2, n2) * (IF snake /\ i % 2 = 1 THEN n2 - 1 - j ELSE j)
  IN  StageWrapper(<<OpenRun(n1 * n2)>>
        \o Flat([i1 \in 1 .. n1 |->
             <<Plain("checkpoint"), SetTo(m1, s1 + step(s1, e1, n1) * (i1 - 1), "set1"), WaitOn("set1")>>
             \o Flat([j1 \in 1 .. n2 |->
                  <<Plain("checkpoint"), SetTo(m2, at2(i1 - 1, j1 - 1), "set2"), WaitOn("set2")>>
                  \o Point("primary", <<m1, m2>> \o dets)])])
        \o <<CloseRun>>, StageablesFor(dets, <<m1, m2>>))

\* spiral, spiral_square and spiral_fermat: not staged, num_points unknown.
SpiralRun(dets, x, y, pts) ==
  <<OpenRun(NoPoints)>>
  \o Flat([i \in DOMAIN pts |->
       <<Plain("checkpoint"), SetTo(x, pts[i][1], "set"), SetTo(y, pts[i][2], "set"), WaitOn("set")>>
       \o Point("primary", <<x, y>> \o dets)])
  \o <<CloseRun>>

SpiralSquare(dets, x, y, xc, yc, xr, yr, xn, yn) ==
  SpiralRun(dets, x, y, SpiralSquarePattern(xc, yc, xr, yr, xn, yn))

\* log_scan's points (exponentials) are given, a sign change yields nothing.
LogScan(dets, motor, points, signs) ==
  IF points = <<>> \/ ~signs THEN <<Plain("null")>> ELSE ListScan(dets, motor, points)

\* The caller read `current` before the scan.
RelScan(dets, motor, current, start, stop, num) ==
  Scan1d(dets, motor, current + start, current + stop, num)
  \o <<SetTo(motor, current, "reset"), WaitOn("reset")>>

\* The rel_* plans that locate the motors themselves when they start; a
\* motor that cannot be located counts as being at 0.
Located(at, dead, m) == IF m = dead THEN 0 ELSE at[m]

RelListScan(dets, motor, points, at, dead) ==
  ResetPositionsWrapper(ListScan(dets, motor, [i \in DOMAIN points |-> points[i] + Located(at, dead, motor)]), <<motor>>)

RelListGridScan(dets, motors, lists, at, dead) ==
  ResetPositionsWrapper(
    ListGridScanSnake(dets, motors,
      [a \in DOMAIN lists |-> [i \in DOMAIN lists[a] |-> lists[a][i] + Located(at, dead, motors[a])]], "none"), motors)

RelGridScan(dets, m1, s1, e1, n1, m2, s2, e2, n2, at, dead) ==
  LET b1 == Located(at, dead, m1)
      b2 == Located(at, dead, m2)
  IN  ResetPositionsWrapper(
        GridScanSnake(dets, m1, s1 + b1, e1 + b1, n1, m2, s2 + b2, e2 + b2, n2, FALSE), <<m1, m2>>)

\* The rel_* plans that leave it to relative_set_wrapper.
RelWrapped(plan, motors) == ResetPositionsWrapper(RelativeSetWrapper(plan, motors), motors)

RelLogScan(dets, motor, points, signs) == RelWrapped(LogScan(dets, motor, points, signs), <<motor>>)

RelSpiralSquare(dets, x, y, xc, yc, xr, yr, xn, yn) ==
  RelWrapped(SpiralSquare(dets, x, y, xc, yc, xr, yr, xn, yn), <<x, y>>)

RelSpiral(dets, x, y, pts) == RelWrapped(SpiralRun(dets, x, y, pts), <<x, y>>)

\* `samples`: the inner plans run while the ramp is not complete.
RampPlan(go, signal, inner, pre, samples, timedOut, period) ==
  MonitorDuringWrapper(
    <<OpenRun(NoPoints)>> \o (IF pre THEN inner ELSE <<>>) \o go
    \o Flat([i \in 1 .. samples |->
         inner \o (IF period /\ ~(timedOut /\ i = samples) THEN <<Plain("sleep")>> ELSE <<>>)])
    \o (IF timedOut THEN <<Fail>> ELSE inner \o <<CloseRun>>), <<signal>>)

Fly(flyers) ==
  <<OpenRun(NoPoints)>>
  \o (IF flyers = <<>> THEN <<>> ELSE KickoffAll(flyers, "kick", TRUE) \o CompleteAll(flyers, "complete", TRUE))
  \o Each("collect", flyers, "-") \o <<CloseRun>>

\* steps: the step after each point (chosen from the signal) and whether it
\* was taken back first; pos -= step has no sign, as the comment there says.
AdaptivePositions(start, stop, first, steps) ==
  LET dir == IF stop >= start THEN 1 ELSE -1
      next(acc, s) ==
        IF acc.at * dir >= stop * dir THEN acc
        ELSE [at   |-> acc.at - (IF s.back THEN acc.step ELSE 0) + s.step * dir,
              step |-> s.step, seen |-> Append(acc.seen, acc.at)]
  IN  FoldLeft(next, [at |-> start, step |-> first, seen |-> <<>>], steps).seen

AdaptiveScan(dets, motor, start, stop, minStep, maxStep, steps) ==
  IF ~(minStep > 0 /\ minStep < maxStep) THEN <<Fail>>
  ELSE <<OpenRun(NoPoints)>>
       \o Flat([i \in DOMAIN AdaptivePositions(start, stop, (maxStep - minStep) \div 2, steps) |->
            <<Plain("checkpoint"),
              SetTo(motor, AdaptivePositions(start, stop, (maxStep - minStep) \div 2, steps)[i], "set"), WaitOn("set")>>
            \o Point("primary", <<motor>> \o dets)])
       \o <<CloseRun>>

RelAdaptiveScan(dets, motor, start, stop, minStep, maxStep, steps, at, dead) ==
  ResetPositionsWrapper(
    IF motor = dead THEN <<Fail>>
    ELSE AdaptiveScan(dets, motor, at[motor] + start, at[motor] + stop, minStep, maxStep, steps), <<motor>>)

Clamped(x, lo, hi) == IF x < lo THEN lo ELSE IF x > hi THEN hi ELSE x

\* peaks: the centroid of each pass; NoPeak when the pass saw no signal.
NoPeak == 1000

TuneWindow(w, peak, lo, hi, factor, snake) ==
  LET half == (w.stop - w.start) \div (2 * factor)
      a == Clamped(peak - half, lo, hi)
      b == Clamped(peak + half, lo, hi)
  IN  IF snake THEN [start |-> b, stop |-> a] ELSE [start |-> a, stop |-> b]

TuneCentroid(dets, motor, start, stop, minStep, num, factor, snake, peaks) ==
  LET lo == IF start < stop THEN start ELSE stop
      hi == IF start < stop THEN stop ELSE start
      step(w) == IF num > 1 THEN (w.stop - w.start) \div (num - 1) ELSE 0
      pass(w) == Flat([i \in 1 .. num |->
        <<Plain("checkpoint"), SetTo(motor, w.start + step(w) * (i - 1), "set"), WaitOn("set")>>
        \o Point("primary", <<motor>> \o dets)])
      next(acc, peak) ==
        IF acc.over \/ Magnitude(step(acc.w)) < minStep THEN [acc EXCEPT !.over = TRUE]
        ELSE [out  |-> acc.out \o pass(acc.w), over |-> peak = NoPeak,
              w    |-> IF peak = NoPeak THEN acc.w ELSE TuneWindow(acc.w, peak, lo, hi, factor, snake),
              peak |-> peak]
      end == FoldLeft(next, [out |-> <<>>, over |-> FALSE, w |-> [start |-> start, stop |-> stop], peak |-> NoPeak], peaks)
  IN  IF minStep <= 0 \/ factor <= 1 THEN <<Fail>>
      ELSE <<OpenRun(NoPoints)>> \o end.out
           \o (IF end.peak = NoPeak THEN <<>> ELSE <<SetTo(motor, end.peak, "center"), WaitOn("center")>>)
           \o <<CloseRun>>
=============================================================================
