------------------------------ MODULE MCRecords ------------------------------
(***************************************************************************)
(* What ends up in documents and files, and the optimiser that reads them, *)
(* on small instances.  The components share no state, so a behaviour is   *)
(* about one of them: `focus` says which, the others stay in one of their  *)
(* initial states.                                                         *)
(***************************************************************************)
EXTENDS Documents, EventPages, DocumentSinks, QsGate, Optimise, OptimiseAids

VARIABLE focus

Resource(u, k) == [kind |-> "resource", uid |-> u, key |-> k]
Datum(u, a, b, f) == [kind |-> "datum", uid |-> u, start |-> a, stop |-> b, filled |-> f]
MCDrains ==
  [save    |-> {<<>>, <<Resource("i", "img"), Datum("i", 0, 1, FALSE)>>, <<Datum("i", 0, 1, FALSE)>>},
   collect |-> {<<>>,
                <<Resource("x1", "x"), Resource("y1", "y"), Datum("x1", 0, 2, FALSE), Datum("y1", 0, 2, FALSE)>>,
                <<Datum("x1", 2, 3, FALSE), Datum("y1", 2, 3, FALSE)>>,
                <<Datum("x1", 2, 3, FALSE), Datum("y1", 2, 4, FALSE)>>,
                <<Resource("x1", "x"), Resource("y1", "y"), Datum("x1", 2, 3, FALSE)>>,
                <<Resource("z", "img")>>,
                <<Datum("x1", 0, 1, TRUE), Datum("y1", 0, 1, TRUE)>>}]
MCDcSinks == <<"s1", "subs">>

PageRow(i, ks) == [id |-> i, seq |-> i, data |-> [k \in ks |-> <<k, i>>]]
MCPgRuns == UNION {{[i \in 1 .. n |-> PageRow(i, d[i])] : d \in [1 .. n -> {{"a"}, {"a", "b"}}]} : n \in 0 .. 4}
MCPgCuts == UNION {[1 .. n -> 1 .. 4] : n \in 0 .. 4}

Document(n, r, b) == [name |-> n, run |-> r, body |-> b]
MCScript   == <<Document("start", 1, <<"x">>), Document("stop", 1, <<"x", " ", "y">>)>>
MCPump     == <<Document("event", 1, <<"e">>)>>
MCPrefixes == {<<"p", "q">>, <<"p", " ">>}

\* Requests of all kinds in one behaviour; "task" has MaxGateCalls of those
\* about tasks.
MCGateCalls == 2
GroupPolicy(ro, admin, names) == [readOnly |-> ro, admin |-> admin, plans |-> names]
MCPermFiles ==
  LET root == GroupPolicy(FALSE, TRUE, {"count", "scan"}) IN
  {[parses |-> TRUE, default |-> NoGroup, groups |-> [primary |-> GroupPolicy(FALSE, FALSE, {"count"}), root |-> root], keys |-> [k |-> "root"]],
   [parses |-> TRUE, default |-> "primary", groups |-> [primary |-> GroupPolicy(TRUE, FALSE, {"count"})], keys |-> [k |-> "root"]],
   [parses |-> TRUE, default |-> "gone", groups |-> [root |-> root], keys |-> [k |-> "root"]]}

OpPlan(p, it, n, ev, g) == [plan |-> p, iters |-> it, n |-> n, every |-> ev, given |-> g]
MCSessions ==
  {<<OpPlan("optimize", 2, 2, 2, <<>>), OpPlan("optimize_in_run", 1, 2, 1, <<>>)>>,
   <<OpPlan("optimize_in_run", 2, 2, 1, <<>>), OpPlan("acquire_baseline", 0, 2, 0, <<>>)>>,
   <<OpPlan("optimize", Unbounded, 2, 0, <<>>)>>,
   <<OpPlan("sample_candidates", 0, 2, 0, <<<<"s", 1>>, <<"s", 2>>>>),
     OpPlan("sample_suggestions", 0, 2, 0, <<<<"i", 7>>, <<"s", 7>>>>)>>}
MCCaps == {{}, {"stopping", "register"}, {"checkpoint", "register"}}

MCOaSinks == <<"log", "s2">>
MCOaRuns  == [s |-> "sample_suggestions", a |-> "default_acquire"]
Dof(b, n, al) == [bind |-> b, name |-> n, alias |-> al]
Dofs == {Dof("actuator", "m1", ""), Dof("actuator", "m2", ""), Dof("external", "m1", ""),
         Dof("external", "e", ""), Dof("remote", "m1", "e")}
MCCases ==
  {[kind |-> "route", points |-> p, start |-> s] :
     p \in {q \in [1 .. 4 -> {NaN, 0, 1, 3, 7}] : q[1] # NaN}, s \in {Nowhere, NaN, 0, 2}}
  \cup {[kind |-> "spec", dofs |-> d, template |-> t, pairs |-> pr, vars |-> v] :
          d \in [1 .. 2 -> Dofs], t \in {<<"x", "y">>, <<"x", "lit">>}, v \in {<<"x", "y">>, <<"y", "x">>},
          pr \in {<<>>, <<<<"x", "m1">>>>, <<<<"x", "m1">>, <<"y", "e">>>>, <<<<"x", "m1">>, <<"x", "e">>>>}}
  \cup [kind : {"acquire"}, inrun : BOOLEAN, n : 1 .. 3, readable : BOOLEAN]
  \cup {[kind |-> "position", fields |-> f, hint |-> h] : f \in SUBSET {"v", "w"}, h \in {"", "v", "q"}}
RouterCase == [kind |-> "position", fields |-> {}, hint |-> ""]

Init ==
  /\ focus \in {"document", "page", "sink", "gate", "task", "optimise", "aid", "router"}
  /\ DcInit
  /\ PageInit     /\ (focus = "page" \/ (pgRows = <<>> /\ pgChunk = 0))
  /\ SinksInit    /\ ((focus = "sink" /\ ((dsSub.filter = <<>>) <=> (dsSub.ser = "msgpack"))) \/ (dsPub.prefix = <<"p", "q">> /\ dsSub.filter = <<>> /\ dsSub.ser = "msgpack"))
  /\ GateInit     /\ (focus \in {"gate", "task"} \/ (disk.default = "gone" /\ ~perms.enforced))
  /\ OptimiseInit /\ (focus = "optimise" \/ (Len(opTodo) = 1 /\ opCaps = {}))
  /\ AidsInit     /\ (focus = "aid" \/ oaCase = RouterCase)

Next ==
  /\ UNCHANGED focus
  /\ \/ focus = "document" /\ DocumentNext
        /\ UNCHANGED <<pageVars, sinkVars, gateVars, optimiseVars, aidVars>>
     \/ focus = "sink"     /\ SinksNext
        /\ UNCHANGED <<documentVars, pageVars, gateVars, optimiseVars, aidVars>>
     \/ focus = "gate"     /\ GateNext /\ answer'.n <= MCGateCalls
        /\ UNCHANGED <<documentVars, pageVars, sinkVars, optimiseVars, aidVars>>
     \/ focus = "task"     /\ TasksNext
        /\ UNCHANGED <<documentVars, pageVars, sinkVars, optimiseVars, aidVars>>
     \/ focus = "optimise" /\ OptimiseNext
        /\ UNCHANGED <<documentVars, pageVars, sinkVars, gateVars, aidVars>>
     \/ focus = "router"   /\ AidsNext
        /\ UNCHANGED <<documentVars, pageVars, sinkVars, gateVars, optimiseVars>>

vars == <<documentVars, pageVars, sinkVars, gateVars, optimiseVars, aidVars, focus>>

RecordsInit  == Init /\ focus \notin {"gate", "task"}
RequestsInit == Init /\ focus \in {"gate", "task"}
RecordsSpec  == RecordsInit /\ [][Next]_vars
RequestsSpec == RequestsInit /\ [][Next]_vars

-----------------------------------------------------------------------------
\* No event is emitted before its descriptor, an event's configuration is
\* the device's, all keys of a stream share one index axis and RunStop counts
\* what was emitted, while a monitor posts and Configure re-composes
\* (run_engine.rs, compose.rs); packing, cutting and re-chunking event pages
\* lose and reorder nothing (page.rs).
DocumentsKept == (focus = "document" => DocumentsSound) /\ (focus = "page" => PagesSound)

\* A sink that fails keeps no document from the others, the catalog never
\* shows a run as ended that is not, every intact line is one document and a
\* subscriber gets what was published under its prefix (sink.rs, callbacks/).
SinksServed == focus = "sink" => SinksSound

\* An answer of the optimizer is for the question it was asked, every trial
\* suggested is ingested, registered as failed or still open, the rows
\* recorded are those measured, and routing and tracking follow the run a
\* document belongs to (blop/).
OptimisationSound == /\ focus = "optimise" => OptimiseSound
                     /\ focus \in {"aid", "router"} => AidsSound
=============================================================================
