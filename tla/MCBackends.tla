----------------------------- MODULE MCBackends -----------------------------
(***************************************************************************)
(* Statuses, staging, commands, the EPICS backends with their conversions  *)
(* and what is written to files, on small instances.  The components share *)
(* no state, so a behaviour is about one of them: `focus` says which, the  *)
(* others stay in one of their initial states.                             *)
(***************************************************************************)
EXTENDS Statuses, Commands, EpicsBackends, NdTables, PathProviders, FramePipeline, RunStore, Staging

VARIABLE focus

Pv(typeid, spec, dbr, n) == [typeid |-> typeid, spec |-> spec, dbr |-> dbr, count |-> n]
\* CA has no 64-bit integer and serves one as a double.
MCPvs == {Pv("scalar", "integer", "double", 1), Pv("scalar", "string", "string", 1),
          Pv("array", "integer", "long", 4), Pv("enum", "structure", "enum", 1)}

EbRecord(t, a, c, p) ==
  [type |-> t, array |-> a, choices |-> c, prec |-> p,
   low |-> IF t = "short" THEN <<>> ELSE <<0>>, high |-> IF t = "char" THEN <<0>> ELSE <<20>>]
MCEbRecords ==
  {EbRecord("enum", FALSE, <<"Off", "On">>, 0), EbRecord("enum", FALSE, <<"On", "Off", "Idle">>, 0),
   EbRecord("string", FALSE, <<>>, 0), EbRecord("char", TRUE, <<>>, 0),
   EbRecord("short", FALSE, <<>>, 0), EbRecord("double", FALSE, <<>>, 0),
   EbRecord("double", FALSE, <<>>, 3), EbRecord("short", TRUE, <<>>, 0), EbRecord("string", TRUE, <<>>, 0)}

Power(sign, e, d) == [sign |-> sign, e |-> e, d |-> d, part |-> "whole"]
HalfMore(x) == [x EXCEPT !.part = "half"]
NotANumber == [Zero EXCEPT !.part = "nan"]
Infinity == [One EXCEPT !.part = "inf"]
Landmarks == {Zero, One} \cup {Power(x[1], x[2], x[3]) : x \in
  {<<-1, 0, 0>>, <<1, 7, -1>>, <<-1, 7, 0>>, <<-1, 7, 1>>, <<1, 8, -1>>, <<1, 16, 0>>, <<1, 24, 1>>, <<1, 31, 0>>,
   <<1, 32, -1>>, <<1, 53, 1>>, <<1, 63, -1>>, <<-1, 63, 0>>, <<1, 63, 0>>, <<1, 64, -1>>, <<1, 64, 0>>}}
Cell(s) == [text |-> s]
ColumnOf(n, d, values) == [name |-> n, dtype |-> d, values |-> values]
FloatValues == {AsF64(x) : x \in Landmarks} \cup {HalfMore(Zero), Power(1, 200, 0), Power(-1, 128, 0), HalfMore(Power(1, 24, -1)), NotANumber, Infinity}
OneByOne(n) ==
  UNION {{ColumnOf(n, d, <<x>>) : x \in {y \in Landmarks : InRange(d, y)}} : d \in {"u8", "i64", "u64"}}
  \cup {ColumnOf(n, "f64", <<x>>) : x \in FloatValues} \cup {ColumnOf(n, "str", <<Cell("on")>>)}
SomeColumns ==
  {ColumnOf(n, d, v) : n \in {"x", "y"}, d \in {"i32"}, v \in {<<>>, <<One>>, <<Zero, One>>, <<One, Power(1, 24, 1)>>}}
  \cup {ColumnOf("y", "f64", v) : v \in {<<>>, <<HalfMore(Zero)>>, <<One, NotANumber>>}}
  \cup {ColumnOf(n, "str", v) : n \in {"y", "z"}, v \in {<<>>, <<Cell("on")>>, <<Cell("on"), Cell("off")>>}}
MCTables == {<<>>} \cup {<<c>> : c \in OneByOne("x") \cup SomeColumns} \cup (SomeColumns \X SomeColumns)
MCStructs ==
  {<<[name |-> "x", dtype |-> d]>> : d \in NdDtypes}
  \cup {<<[name |-> "x", dtype |-> d], [name |-> "y", dtype |-> e]>> : d \in {"i16", "f32"}, e \in {"str", "f64"}}

MCDims == -1 .. 3

NameLists == {<<>>, <<<<"a">>>>, <<Dot, <<"b">>>>}
MCTexts == {TextOf(<<>>, r, n) : r \in {"", "/", "//"}, n \in NameLists}
           \cup {TextOf(d, r, n) : d \in Letters \cup {<<"srv", "sh">>}, r \in {"", "/"}, n \in NameLists}
           \cup {TextOf(<<"srv">>, "", <<>>)}
MCBases == {[flavor |-> "posix", text |-> TextOf(<<>>, r, <<<<"a">>>>)] : r \in {"", "/"}}
           \cup {[flavor |-> "windows", text |-> TextOf(d, "/", <<<<"a">>>>)] : d \in {<<"C">>, <<"srv", "sh">>}}
MCKeys  == {NoKey, <<<<"k">>>>, <<<<"k">>, <<"l">>>>}

MCStgDevices == <<"p", "q", "r">>
MCStgSignals == [p |-> <<"p1", "p2">>, q |-> <<"q1">>, r |-> <<>>]
MCStgHints   == [p |-> {"x"}, q |-> {"y"}, r |-> {"x"}]

Init ==
  /\ focus \in {"status", "command", "epics", "table", "path", "frame", "store", "staging"}
  /\ StatusInit /\ StoreInit /\ StagingInit
  /\ CommandInit /\ (OverEpics \/ cmPv.spec = "string") /\ (focus = "command" \/ SoftCommandBackend)
  /\ BackendInit /\ (focus = "epics" \/ (ebProto = "pva" /\ ebWant = "bool" /\ ebRec["r"].type = "string" /\ ~ebRec["r"].array))
  /\ NdInit      /\ (focus = "table" \/ (ntCase.columns = <<>> /\ ntCase.struct = <<>> /\ ntCase.dims = <<0>>))
  /\ PathInit    /\ (focus = "path" \/ (ppKind = "static" /\ ppNamer = "static" /\ ppUri = "none" /\ ppBase = Parse("posix", TextOf(<<>>, "/", <<<<"a">>>>))))
  /\ FrameInit   /\ (focus = "frame" \/ frHdf.opened)

Next ==
  /\ UNCHANGED focus
  /\ \/ focus = "status"  /\ StatusNext
        /\ UNCHANGED <<stagingVars, storeVars, commandVars, backendVars, ntVars, pathVars, frameVars>>
     \/ focus = "command" /\ CommandNext
        /\ UNCHANGED <<stagingVars, storeVars, statusVars, backendVars, ntVars, pathVars, frameVars>>
     \/ focus = "epics"   /\ BackendNext
        /\ UNCHANGED <<stagingVars, storeVars, statusVars, commandVars, ntVars, pathVars, frameVars>>
     \/ focus = "path"    /\ PathNext
        /\ UNCHANGED <<stagingVars, storeVars, statusVars, commandVars, backendVars, ntVars, frameVars>>
     \/ focus = "frame"   /\ FrameNext
        /\ UNCHANGED <<stagingVars, storeVars, statusVars, commandVars, backendVars, ntVars, pathVars>>
     \/ focus = "store"   /\ StoreNext
        /\ UNCHANGED <<stagingVars, statusVars, commandVars, backendVars, ntVars, pathVars, frameVars>>
     \/ focus = "staging" /\ StagingNext
        /\ UNCHANGED <<storeVars, statusVars, commandVars, backendVars, ntVars, pathVars, frameVars>>

vars == <<stagingVars, storeVars, statusVars, commandVars, backendVars, ntVars, pathVars, frameVars, focus>>

Spec == Init /\ [][Next]_vars

-----------------------------------------------------------------------------
\* What a signal reads or posts is the record's value, what it accepts it
\* can decode, what it writes arrives as the value asked for, and CA and PVA
\* agree; arrays and tables keep their pixels, rows and values across the
\* conversions and an inexact one is refused (epics_ca/real.rs,
\* epics_pva/real.rs, core/table.rs, core/ndarray.rs).
ConversionsSound == (focus = "epics" => BackendSound) /\ (focus = "table" => TablesSound)

\* Two scans never share a file name and a path joins as its platform says;
\* frames announced are in the file, in order; and after a crash at any point
\* the checkpoint journal reports every run it can prove abandoned and none
\* that was finished (path_provider.rs, stream/, checkpoint_store.rs).
FilesSound == /\ focus = "path"  => PathsSound
              /\ focus = "frame" => FramesSound
              /\ focus = "store" => StoreSound
=============================================================================
