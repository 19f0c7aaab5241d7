----------------------------- MODULE PlanMachine ----------------------------
(***************************************************************************)
(* A plan run by the engine: the generator side of contingency_wrapper     *)
(* (plans/preprocessors.rs) against the engine's contingency stack         *)
(* (run_loop, throw_into_plan and the handlers of engine/run_engine.rs),   *)
(* with a failing message or a stop/abort/halt at every point.             *)
(*                                                                         *)
(* A wrapper looks into its sink only when it is resumed after an item it  *)
(* forwarded; wrappers are resumed from the outermost inwards, and the     *)
(* first that finds something drops everything nested in it.  A region is  *)
(* named by the place of its "try" in the plan.                            *)
(***************************************************************************)
EXTENDS Plans

CONSTANTS
  Catalogue,  \* the plans: [name, items, rows, restores, dead]
  Motors,
  At0,        \* where the motors are at the start
  MaxThrows   \* bound on failures and interrupts together

VARIABLES
  chosen,   \* the plan that runs
  pc,       \* the item the generator goes on with
  last,     \* [at, kind]: what it yielded last
  regions,  \* the wrappers that forward their body now, outermost first
  estack,   \* contingency_stack
  sinks,    \* region -> what was thrown into it
  caught,   \* region -> what it took out of its sink
  lazy,     \* what relative_set, reset_positions and lazily_stage collected
  eng,      \* the engine and the devices
  throws,   \* history: [kind, landed] of every value thrown from outside
  outcome

planVars == <<chosen, pc, last, regions, estack, sinks, caught, lazy, eng, throws, outcome>>

Nothing == "nothing"
code == chosen.items

-----------------------------------------------------------------------------
(* The structure of the flat plan.                                         *)

Tries == {p \in DOMAIN code : code[p].c = "try"}

\* The markers of a region: the first of the kind after it at its depth.
Depth(p) == Cardinality({q \in 1 .. p - 1 : code[q].c = "try"})
            - Cardinality({q \in 1 .. p - 1 : code[q].c = "end"})

Marker(r, kind) ==
  Min({q \in r + 1 .. Len(code) : code[q].c = kind /\ Depth(q) = Depth(r) + 1})

OwnerOf(p) == Max({r \in Tries : r < p /\ Depth(r) + 1 = Depth(p)})

\* The region whose body, or recovery, the item belongs to.
InBody(p, r)     == r < p /\ p < Marker(r, "pop")
InRecovery(p, r) == Marker(r, "pop") < p /\ p <= Marker(r, "end")

SkipsFinally(r) ==
  IF caught[r] = Nothing THEN Marker(r, "else") + 1
  ELSE IF code[Marker(r, "pop")].v = 1 THEN Marker(r, "pop") + 1 ELSE Marker(r, "end")

\* After "pop": the except plan, the else plan, or straight to finally.
AfterPop(r) ==
  CASE caught[r] = Nothing                  -> Marker(r, "else") + 1
    [] code[Marker(r, "pop")].v = 1         -> Marker(r, "pop") + 1
    [] OTHER                                -> Marker(r, "finally") + 1

Reraises(r) == caught[r] # Nothing /\ code[Marker(r, "end")].v = 1

\* The next item that yields, from p on.
Settle(p) ==
  LET go[q \in p .. Len(code) + 1] ==
        IF q > Len(code) THEN q
        ELSE CASE code[q].c = "else"         -> go[Marker(OwnerOf(q), "finally") + 1]
               [] code[q].c = "finally"      -> go[q + 1]
               [] code[q].c = "end" /\ ~Reraises(OwnerOf(q)) -> go[q + 1]
               [] code[q].c = "reset_all" /\ lazy.moved = <<>> -> go[q + 1]
               [] code[q].c = "unstage_seen" /\ lazy.staged = <<>> -> go[q + 1]
               [] OTHER -> q
  IN  go[p]

-----------------------------------------------------------------------------
(* The engine's handlers.                                                  *)

NoBundle == [open |-> FALSE, stream |-> "-", reads |-> {}, row |-> <<>>]

EngInit == [run |-> FALSE, declared |-> NoPoints, bundle |-> NoBundle, events |-> <<>>,
            pos |-> At0, setpoint |-> At0, moving |-> {}, trig |-> {},
            staged |-> {}, monitored |-> {}, rewindable |-> TRUE, suspenders |-> {}, closed |-> "-"]

\* A message the engine refuses in this state.
Illegal(e, m) ==
  CASE m.c = "open_run"   -> e.run
    [] m.c = "close_run"  -> ~e.run
    [] m.c = "create"     -> ~e.run \/ e.bundle.open
    [] m.c \in {"save", "drop"} -> ~e.bundle.open
    [] m.c = "read"       -> e.bundle.open /\ m.o \in e.bundle.reads
    [] m.c = "checkpoint" -> e.bundle.open
    [] m.c \in {"kickoff", "collect"} -> ~e.run
    [] m.c = "monitor"    -> ~e.run \/ m.o \in e.monitored
    [] m.c = "unmonitor"  -> m.o \notin e.monitored
    [] m.c = "configure"  -> e.bundle.open
    [] OTHER              -> FALSE

Arrive(e, g) ==
  [e EXCEPT !.pos = [m \in Motors |-> IF \E x \in e.moving : x.m = m /\ x.g = g
                                       THEN (CHOOSE x \in e.moving : x.m = m /\ x.g = g).to ELSE @[m]],
            !.moving = {x \in @ : x.g # g}, !.trig = {x \in @ : x.g # g}]

ReadInto(e, m) ==
  IF ~e.bundle.open THEN e
  ELSE [e EXCEPT !.bundle.reads = @ \cup {m.o},
                 !.bundle.row = IF m.o \in Motors THEN Append(@, e.pos[m.o]) ELSE @]

SaveBundle(e) ==
  [e EXCEPT !.events = IF e.bundle.stream = "primary" THEN Append(@, e.bundle.row) ELSE @, !.bundle = NoBundle]

Handle(e, m) ==
  CASE m.c = "open_run"   -> [e EXCEPT !.run = TRUE, !.declared = m.v]
    [] m.c = "close_run"  -> [e EXCEPT !.run = FALSE, !.bundle = NoBundle, !.monitored = {}, !.closed = "plan"]
    [] m.c = "create"     -> [e EXCEPT !.bundle = [NoBundle EXCEPT !.open = TRUE, !.stream = m.g]]
    [] m.c = "save"       -> SaveBundle(e)
    [] m.c = "drop"       -> [e EXCEPT !.bundle = NoBundle]
    [] m.c = "read"       -> ReadInto(e, m)
    [] m.c = "set"        -> [e EXCEPT !.setpoint[m.o] = m.v,
                                       !.moving = {x \in @ : x.m # m.o} \cup {[m |-> m.o, to |-> m.v, g |-> m.g]}]
    [] m.c = "trigger"    -> [e EXCEPT !.trig = @ \cup {[m |-> m.o, g |-> m.g]}]
    [] m.c = "wait"       -> Arrive(e, m.g)
    [] m.c = "stage"      -> [e EXCEPT !.staged = @ \cup {m.o}]
    [] m.c = "unstage"    -> [e EXCEPT !.staged = @ \ {m.o}]
    [] m.c = "monitor"    -> [e EXCEPT !.monitored = @ \cup {m.o}]
    [] m.c = "unmonitor"  -> [e EXCEPT !.monitored = @ \ {m.o}]
    [] m.c = "rewindable" -> [e EXCEPT !.rewindable = m.v = 1]
    [] m.c = "install_suspender" -> [e EXCEPT !.suspenders = @ \cup {m.o}]
    [] m.c = "remove_suspender"  -> [e EXCEPT !.suspenders = @ \ {m.o}]
    [] OTHER -> e

\* The messages a device can fail.
Failable == {"set", "wait", "trigger", "read", "stage", "unstage", "kickoff", "collect", "monitor",
             "configure", "prepare", "complete"}

-----------------------------------------------------------------------------
(* Throwing into the plan.                                                 *)

\* Nothing catches it: the engine closes what is open and unstages.
EndRun(e, how) ==
  /\ outcome' = how
  /\ eng' = [e EXCEPT !.closed = IF e.run THEN how ELSE @, !.run = FALSE, !.bundle = NoBundle,
                      !.monitored = {}, !.staged = {}]

\* throw_into_plan: the innermost region's sink, or the end of the run.
ThrowInto(e, t) ==
  IF estack = <<>>
  THEN EndRun(e, t) /\ UNCHANGED sinks
  ELSE /\ sinks' = [sinks EXCEPT ![Last(estack)] = t]
       /\ eng' = e
       /\ UNCHANGED outcome

\* Where the plan was when it was thrown at.  rewindable_wrapper sends its
\* first message before it enters its region.
LandingAt(p, kind) ==
  IF kind \in {"try", "pop", "drops"} \/ (p # 0 /\ code[p].c = "rewindable" /\ p + 1 \in Tries) THEN "edge"
  ELSE IF \E r \in Tries : InRecovery(p, r) THEN "recovery"
  ELSE IF \E r \in Tries : InBody(p, r) THEN "body" ELSE "outside"

-----------------------------------------------------------------------------
(* The generator.                                                          *)

\* A wrapper that has forwarded the last item.  One that only held it back
\* (during_run_wrapper inserting its messages) is not resumed yet, and the
\* Stage that lazily_stage, the outermost wrapper, puts in front of an item
\* did not come through the regions nested in it.
Forwarded(r) ==
  /\ r < last.at
  /\ last.kind = "lazy_stage" => r = Min(Tries)
  /\ last.kind # "held"

Alerted == {i \in DOMAIN regions : Forwarded(regions[i]) /\ sinks[regions[i]] # Nothing}

Yields(kind, p) == last' = [at |-> p, kind |-> kind]

\* Break out of the region: everything nested in it is dropped.
LeaveThrown ==
  /\ outcome = "running" /\ Alerted # {}
  /\ LET i == Min(Alerted)
         r == regions[i]
     IN  /\ caught' = [caught EXCEPT ![r] = sinks[r]]
         /\ sinks' = [sinks EXCEPT ![r] = Nothing]
         /\ regions' = SubSeq(regions, 1, i - 1)
         /\ pc' = Marker(r, "pop")
         /\ Yields("pop", Marker(r, "pop"))
         /\ estack' = IF estack = <<>> THEN <<>> ELSE Front(estack)
         /\ lazy' = [lazy EXCEPT !.pending = Nothing]
  /\ UNCHANGED <<chosen, eng, throws, outcome>>

Here == IF last.kind = "pop" THEN Settle(AfterPop(OwnerOf(last.at))) ELSE Settle(pc)

Ready == outcome = "running" /\ Alerted = {} /\ Here <= Len(code)

\* The stream of lazily_stage takes the device it staged on its list once
\* it is resumed.
TakePending(z) ==
  IF z.pending = Nothing THEN z ELSE [z EXCEPT !.staged = Append(@, z.pending), !.pending = Nothing]

EnterRegion ==
  /\ Ready /\ code[Here].c = "try"
  /\ regions' = Append(regions, Here)
  /\ estack' = Append(estack, Here)
  /\ sinks' = [sinks EXCEPT ![Here] = Nothing]
  /\ pc' = Here + 1 /\ Yields("try", Here)
  /\ lazy' = TakePending(lazy)
  /\ UNCHANGED <<chosen, caught, eng, throws, outcome>>

LeaveRegion ==
  /\ Ready /\ code[Here].c = "pop"
  /\ regions' = Front(regions)
  /\ estack' = IF estack = <<>> THEN <<>> ELSE Front(estack)
  /\ pc' = Here /\ Yields("pop", Here)
  /\ lazy' = TakePending(lazy)
  /\ UNCHANGED <<chosen, sinks, caught, eng, throws, outcome>>

Reraise ==
  /\ Ready /\ code[Here].c = "end"
  /\ pc' = Here + 1 /\ Yields("end", Here)
  /\ ThrowInto(eng, caught[OwnerOf(Here)])
  /\ lazy' = TakePending(lazy)
  /\ UNCHANGED <<chosen, regions, estack, caught, throws>>

\* The message an item yields now: with the base a relative motor started
\* from, or one of the messages the lazy wrappers make up.
Base(m) == IF m \in DOMAIN lazy.bases THEN lazy.bases[m] ELSE Located(eng.setpoint, chosen.dead, m)

MessageOf(item) ==
  CASE item.c = "reset_all"    -> SetTo(Head(lazy.moved).m, Head(lazy.moved).to, "reset")
    [] item.c = "unstage_seen" -> Msg("unstage", Last(lazy.staged), 0, "-")
    [] "rel" \in item.by       -> [item EXCEPT !.v = @ + Base(item.o)]
    [] OTHER                   -> item

\* reset_positions: a motor is captured at its first Set only.
Captures(item) == "reset" \in item.by /\ item.o \notin lazy.touched

Noted(item) ==
  LET z == TakePending(lazy) IN
  [z EXCEPT
     !.bases = IF "rel" \in item.by
               THEN [m \in DOMAIN z.bases \cup {item.o} |-> IF m = item.o THEN Base(m) ELSE z.bases[m]] ELSE @,
     !.moved = IF item.c = "reset_all" THEN Tail(@)
               ELSE IF Captures(item) /\ item.o # chosen.dead
                    THEN Append(@, [m |-> item.o, to |-> eng.setpoint[item.o]]) ELSE @,
     !.touched = IF "reset" \in item.by THEN @ \cup {item.o} ELSE @,
     !.staged = IF item.c = "unstage_seen" THEN Front(@) ELSE @]

NeedsStage(item) == "lazy" \in item.by /\ item.o \notin lazy.seen

Kind(item) == IF "held" \in item.by THEN "held" ELSE IF "drops" \in item.by THEN "drops" ELSE "message"

\* One message, yielded and handled, with the outcome the device gives it.
\* reset_all and unstage_seen yield until their list is empty; stub_wrapper
\* ends the stream.
Step(ok) ==
  /\ Ready /\ code[Here].c \notin {"try", "pop", "end"}
  /\ LET item  == code[Here]
         stage == NeedsStage(item)
         m     == IF stage THEN Msg("stage", item.o, 0, "-") ELSE MessageOf(item)
         bad   == m.c = "fail" \/ Illegal(eng, m)
         kind  == IF stage THEN "lazy_stage" ELSE Kind(item)
     IN  /\ ok => ~bad
         /\ ~ok => bad \/ (m.c \in Failable /\ Len(throws) < MaxThrows)
         /\ Yields(kind, Here)
         /\ pc' = IF stage \/ item.c \in {"reset_all", "unstage_seen"} THEN Here
                   ELSE IF kind = "drops" THEN Len(code) + 1 ELSE Here + 1
         /\ lazy' = IF stage THEN [TakePending(lazy) EXCEPT !.seen = @ \cup {item.o}, !.pending = item.o]
                    ELSE Noted(item)
         /\ IF ok THEN eng' = Handle(eng, m) /\ UNCHANGED <<sinks, throws, outcome>>
            ELSE /\ throws' = Append(throws, [kind |-> IF m.c = "fail" THEN "fail" ELSE IF bad THEN "illegal" ELSE "fail",
                                              landed |-> LandingAt(Here, kind)])
                 /\ ThrowInto(eng, "fail")
         /\ regions' = IF kind = "drops" THEN <<>> ELSE regions
  /\ UNCHANGED <<chosen, estack, caught>>

\* The stream is over: success, whatever was swallowed on the way.
Finish ==
  /\ outcome = "running" /\ Alerted = {} /\ Here > Len(code)
  /\ EndRun(eng, "success")
  /\ UNCHANGED <<chosen, pc, last, regions, estack, sinks, caught, lazy, throws>>

\* take_interrupt between two messages.
Interrupt(t) ==
  /\ outcome = "running" /\ Len(throws) < MaxThrows
  /\ throws' = Append(throws, [kind |-> t, landed |-> LandingAt(last.at, last.kind)])
  /\ ThrowInto(eng, t)
  /\ UNCHANGED <<chosen, pc, last, regions, estack, caught, lazy>>

Halt ==
  /\ outcome = "running" /\ Len(throws) < MaxThrows
  /\ throws' = Append(throws, [kind |-> "halt", landed |-> LandingAt(last.at, last.kind)])
  /\ EndRun(eng, "halt")
  /\ UNCHANGED <<chosen, pc, last, regions, estack, sinks, caught, lazy>>

PlanInit ==
  /\ chosen \in Catalogue
  /\ pc = 1 /\ last = [at |-> 0, kind |-> "start"]
  /\ regions = <<>> /\ estack = <<>>
  /\ sinks = [r \in Tries |-> Nothing] /\ caught = [r \in Tries |-> Nothing]
  /\ lazy = [bases |-> <<>>, moved |-> <<>>, touched |-> {}, seen |-> {}, staged |-> <<>>, pending |-> Nothing]
  /\ eng = EngInit /\ throws = <<>> /\ outcome = "running"

PlanNext ==
  \/ LeaveThrown \/ EnterRegion \/ LeaveRegion \/ Reraise
  \/ \E ok \in BOOLEAN : Step(ok)
  \/ Finish \/ Halt
  \/ \E t \in {"stop", "abort"} : Interrupt(t)

-----------------------------------------------------------------------------
(* Properties.                                                             *)

Ended == outcome \notin {"running", "halt"}

CaughtInBody == Len(throws) <= 1 /\ \A i \in DOMAIN throws : throws[i].landed = "body"

Undone ==
  /\ eng.rewindable /\ eng.suspenders = {}
  /\ \A m \in chosen.restores : eng.pos[m] = At0[m] /\ ~\E x \in eng.moving : x.m = m

\* A plan that fails, is stopped or is aborted at a message of its own, or
\* of the plan it wraps, at any depth, still moves its motors back, removes
\* its suspender and makes the engine rewindable again before it ends, and
\* the run ends the way the interrupt asks (contingency_wrapper,
\* finalize_wrapper, throw_into_plan, reset_positions_wrapper).  It does not
\* when the interrupt finds the plan at the edge of a region (see
\* AlwaysUndone), or when stub_wrapper fails a plan it has cut off inside one.
FinalizersRan ==
  Ended /\ CaughtInBody =>
    /\ Undone
    /\ outcome = IF throws = <<>> THEN "success" ELSE IF throws[1].kind = "illegal" THEN "fail" ELSE throws[1].kind

\* The same wherever the one interrupt finds the plan, recovery apart: what
\* the comment of finalize_wrapper promises of everything but a halt.
AlwaysUndone ==
  Ended /\ Len(throws) <= 1 /\ (\A i \in DOMAIN throws : throws[i].landed \in {"body", "edge"}) => Undone

\* Left alone, no plan sends a message the engine refuses: bundles, runs,
\* checkpoints, monitors and collections nest as run_engine.rs demands.
LegalMessages == throws # <<>> => throws[1].kind # "illegal"

\* No primary event is being read while a motor the plan has sent still
\* moves or a detector it has triggered is not done.
SettledReads ==
  throws = <<>> /\ ~chosen.ramps /\ eng.bundle.open => eng.moving = {} /\ eng.trig = {}

\* A plan that succeeds has recorded the motors at exactly the points its
\* definition names, in order, once each, whether it computes them itself
\* (grid_scan_snake), takes them from patterns.rs, or skips the moves of a
\* motor that is there already (pos_cache); and as many as its RunStart
\* declared.
RecordedRows ==
  outcome = "success" /\ throws = <<>> =>
    /\ eng.events = chosen.rows
    /\ eng.declared # NoPoints => Len(eng.events) = eng.declared

PlanTypeOK ==
  /\ pc \in 1 .. Len(code) + 1 /\ outcome \in {"running", "success", "fail", "stop", "abort", "halt"}
  /\ CaughtInBody => estack = regions \/ outcome # "running"
  /\ eng.pos \in [Motors -> Int] /\ Len(throws) <= MaxThrows + 1
=============================================================================
