---------------------------- MODULE EpicsBackends ----------------------------
(***************************************************************************)
(* One signal of an EPICS record over Channel Access or PV Access            *)
(* (backends/epics_ca/real.rs, backends/epics_pva/real.rs): which records a  *)
(* datatype accepts, how values, labels and metadata are converted, and the  *)
(* converter and initial value that connect caches while the IOC may restart *)
(* with another record behind the same name.                                 *)
(*                                                                           *)
(* Numbers are counted in halves, so that a float can be no integer; text is *)
(* a sequence of character codes and 0 is NUL.  The IOC, its conversion of a *)
(* PVA put to the record's type, and the client libraries are external.      *)
(***************************************************************************)
EXTENDS Integers, Sequences, FiniteSets, SequencesExt

CONSTANTS EbRecords,     \* the records the IOC may hold behind the name
          EbRestartsMax, \* bound on restarts of the IOC
          EbWritesMax    \* bound on puts and on values the records post by themselves

ASSUME BackendBounds == EbRestartsMax \in Nat /\ EbWritesMax \in Nat

----------------------------------------------------------------------------
(* Records and values *)

Ints == {"char", "short", "long"}
Floats == {"float", "double"}
Wants == {"float", "int", "bool", "str", "number"} \cup
         {"short[]", "float[]", "char[]", "long[]", "double[]", "string[]"}
ElementOf(want) == CHOOSE t \in Ints \cup Floats \cup {"string", ""} :
    CASE want = "short[]" -> t = "short" [] want = "float[]" -> t = "float"
      [] want = "char[]" -> t = "char"   [] want = "long[]" -> t = "long"
      [] want = "double[]" -> t = "double" [] want = "string[]" -> t = "string"
      [] OTHER -> t = ""

\* What a signal's user sees.
Num(h) == [k |-> "num", n |-> h]
Truth(b) == [k |-> "bool", b |-> b]
Text(s) == [k |-> "str", s |-> s]
Chars(c) == [k |-> "text", c |-> c]
Items(e) == [k |-> "arr", e |-> e]
NoValue == [k |-> "none"]

\* The values a record of this shape is seen with.
ValuesOf(r) ==
    CASE r.type = "enum" /\ ~r.array -> {<<0>>, <<2>>, <<6>>}
      [] r.type = "enum" /\ r.array -> {<<0, 2>>, <<2>>}
      [] r.type = "string" /\ ~r.array -> {<<"x">>, <<"y">>}
      [] r.type = "string" /\ r.array -> {<<"x", "y">>, <<"y">>}
      [] r.type = "char" /\ r.array -> {<<130, 0>>, <<130, 140, 0, 0>>, <<0>>}
      [] r.array -> {<<2, 4>>, <<6>>}
      [] r.type \in Floats -> {<<1>>, <<4>>, <<-3>>}
      [] OTHER -> {<<0>>, <<2>>, <<200>>}

----------------------------------------------------------------------------
(* Coercion: the converter of a datatype and the records read at connect *)

NoConverter == [kind |-> "none", type |-> "", choices |-> <<>>]
Native(t) == [kind |-> "native", type |-> t, choices |-> <<>>]
LongStr == [kind |-> "longstr", type |-> "char", choices |-> <<>>]
EnumConv(c) == [kind |-> "enum", type |-> "enum", choices |-> c]

\* unique: all reads give the same answer.
Unique(answers) == \A a, b \in answers : a = b

Shape(r) == <<r.type, r.array>>
ChoicesOf(r) == r.choices
ChoiceCount(r) == Len(r.choices)
PrecisionOf(r) == r.prec

\* make_converter of Channel Access, arm by arm.
CaConverter(want, reads) ==
    LET r == CHOOSE x \in reads : TRUE
        t == r.type
    IN  CASE ~Unique({Shape(x) : x \in reads}) -> NoConverter
          [] want = "str" /\ t = "char" /\ r.array -> LongStr
          [] want = "bool" /\ t = "enum" /\ ~r.array ->
               IF Unique({ChoiceCount(x) : x \in reads}) /\ Len(r.choices) = 2 THEN Native(t) ELSE NoConverter
          [] want = "str" /\ t = "enum" /\ ~r.array ->
               IF Unique({ChoicesOf(x) : x \in reads}) THEN EnumConv(r.choices) ELSE NoConverter
          [] want = "int" /\ t \in Floats /\ ~r.array ->
               IF Unique({PrecisionOf(x) : x \in reads}) /\ r.prec = 0 THEN Native(t) ELSE NoConverter
          [] want = "bool" /\ t \in {"char", "short"} /\ ~r.array -> Native(t)
          [] want = "number" /\ t \in Ints \cup Floats \cup {"enum"} /\ ~r.array -> Native(t)
          [] want = "float" /\ t \in Floats /\ ~r.array -> Native(t)
          [] want = "int" /\ t \in Ints /\ ~r.array -> Native(t)
          [] want = "str" /\ t = "string" /\ ~r.array -> Native(t)
          [] want = "string[]" /\ t = "enum" /\ r.array -> Native(t)
          [] ElementOf(want) = t /\ r.array -> Native(t)
          [] OTHER -> NoConverter

\* inferred: the datatype PV Access finds in a record's normative type.
Inferred(r) ==
    CASE r.type = "enum" -> "enum"
      [] r.array /\ r.type = "string" -> "string[]"
      [] r.array -> CHOOSE w \in Wants : ElementOf(w) = r.type
      [] r.type = "string" -> "str"
      [] r.type \in Floats -> "float"
      [] OTHER -> "int"

\* make_converter of PV Access.  An enum array has no datatype there.
PvaConverter(want, r) ==
    LET i == Inferred(r)
    IN  CASE r.type = "enum" /\ r.array -> NoConverter
          [] want = "bool" /\ i = "enum" ->
               IF Len(r.choices) = 2 THEN EnumConv(r.choices) ELSE NoConverter
          [] want = "bool" /\ ~r.array /\ r.type \in {"char", "long"} -> Native(r.type)
          [] i = "enum" -> IF want \in {"str", "number"} THEN EnumConv(r.choices) ELSE NoConverter
          [] want = "int" /\ i = "float" /\ r.prec = 0 -> Native(r.type)
          [] want = "number" /\ i \in {"float", "int"} -> Native(r.type)
          [] i = want -> Native(r.type)
          [] want = "str" /\ i = "char[]" -> LongStr
          [] OTHER -> NoConverter

----------------------------------------------------------------------------
(* Values *)

\* `as i64`: a float loses its fraction, toward zero.
Trunc(h) == IF h >= 0 THEN 2 * (h \div 2) ELSE -2 * ((-h) \div 2)

\* Width of the integer types on the wire, in halves.
Lo(t) == IF t = "short" THEN -65536 ELSE 0
Hi(t) == CASE t = "char" -> 510 [] t = "short" -> 65534 [] OTHER -> 131070
Narrow(t) == t \in {"char", "short", "enum"}

\* f64_to_wire: a float saturates at the ends of the record's type.
F64ToWire(t, h) ==
    LET v == Trunc(h)
    IN  CASE t \in Floats -> h
          [] ~Narrow(t) -> v
          [] v < Lo(t) -> Lo(t)
          [] v > Hi(t) -> Hi(t)
          [] OTHER -> v

\* i64_to_wire: an integer wraps around.
I64ToWire(t, h) ==
    IF Narrow(t) THEN Lo(t) + ((h - Lo(t)) % (Hi(t) - Lo(t) + 2)) ELSE h

\* enum_index_to_label: an index without a choice is its own label.
IndexName(i) == ToString(i)
EnumIndexToLabel(i, choices) == IF i < Len(choices) THEN choices[i + 1] ELSE IndexName(i)

\* enum_label_to_index: the label, or the number of a choice; -1 for neither.
EnumLabelToIndex(s, choices) ==
    LET named == {i \in 0 .. Len(choices) - 1 : choices[i + 1] = s}
        counted == {i \in 0 .. 7 : s = IndexName(i) /\ (choices = <<>> \/ i < Len(choices))}
    IN  IF named # {} THEN CHOOSE i \in named : \A j \in named : i <= j
        ELSE IF counted # {} THEN CHOOSE i \in counted : TRUE
        ELSE -1

\* nul_terminated and long_string: Channel Access cuts at the first NUL, PV Access
\* drops those at the end.
CutAtLastNul(c) == SubSeq(c, 1, Len(c) - 1)
NulTerminated(c) == IF Contains(c, 0) THEN SubSeq(c, 1, SelectInSeq(c, LAMBDA x : x = 0) - 1) ELSE c
LongString(c) == SubSeq(c, 1, SelectLastInSeq(c, LAMBDA x : x # 0))

\* epics_to_f64, and epics_to_i64 and epics_to_bool after it: any scalar but text.
CaNumber(type, array, val) == IF ~array /\ type # "string" THEN Num(val[1]) ELSE NoValue
CaInteger(type, array, val) == IF ~array /\ type # "string" THEN Num(Trunc(val[1])) ELSE NoValue
\* epics_to_enum_label: an index, under any integer type, or the server's label.
CaEnumLabel(type, array, val, choices) ==
    CASE type \in {"enum", "short", "long"} /\ ~array -> Text(EnumIndexToLabel(val[1] \div 2, choices))
      [] type = "string" /\ ~array -> Text(val[1])
      [] OTHER -> NoValue
\* decode_array of strings: an enum waveform gives its indices.
CaStrings(type, val) ==
    CASE type = "string" -> Items(val)
      [] type = "enum" -> Items([i \in DOMAIN val |-> IndexName(val[i] \div 2)])
      [] OTHER -> NoValue
\* The decode functions of the datatypes over Channel Access.
CaDecode(want, conv, type, array, val) ==
    CASE want \in {"float", "number"} -> CaNumber(type, array, val)
      [] want = "int" -> CaInteger(type, array, val)
      [] want = "bool" -> LET n == CaInteger(type, array, val) IN IF n = NoValue THEN n ELSE Truth(n.n # 0)
      [] want = "str" /\ conv.kind = "native" -> IF type = "string" /\ ~array THEN Text(val[1]) ELSE NoValue
      [] want = "str" /\ conv.kind = "longstr" -> IF type = "char" THEN Chars(NulTerminated(val)) ELSE NoValue
      [] want = "str" -> CaEnumLabel(type, array, val, conv.choices)
      [] want = "string[]" -> CaStrings(type, val)
      [] OTHER -> IF type = ElementOf(want) THEN Items(val) ELSE NoValue

\* pv_field_to_f64 and pv_field_to_i64 of a frame's value: no text, no structure.
PvaNumber(r) == IF ~r.array /\ r.type \notin {"string", "enum"} THEN Num(r.val[1]) ELSE NoValue
PvaInteger(r) == IF ~r.array /\ r.type \notin {"string", "enum"} THEN Num(Trunc(r.val[1])) ELSE NoValue
\* enum_index and pv_enum_to_label: a frame of an enum carries its own choices.
EnumIndexOf(r) == IF ~r.array /\ r.type = "enum" THEN Num(r.val[1]) ELSE NoValue
PvaLabel(r) ==
    IF ~r.array /\ r.type = "enum" THEN Text(EnumIndexToLabel(r.val[1] \div 2, r.choices)) ELSE NoValue
\* from_array: the elements of an array of this type and no other.
PvaElements(want, r) == IF r.array /\ r.type = ElementOf(want) THEN Items(r.val) ELSE NoValue
\* The decode functions over PV Access.
PvaDecode(want, conv, r) ==
    CASE want \in {"float", "number"} -> IF conv.kind = "enum" THEN EnumIndexOf(r) ELSE PvaNumber(r)
      [] want = "int" -> PvaInteger(r)
      [] want = "bool" -> LET n == IF conv.kind = "enum" THEN EnumIndexOf(r) ELSE PvaInteger(r)
                          IN  IF n = NoValue THEN n ELSE Truth(n.n # 0)
      [] want = "str" /\ conv.kind = "native" -> IF r.type = "string" /\ ~r.array THEN Text(r.val[1]) ELSE NoValue
      [] want = "str" /\ conv.kind = "longstr" -> IF r.type = "char" /\ r.array THEN Chars(LongString(r.val)) ELSE NoValue
      [] want = "str" -> PvaLabel(r)
      [] OTHER -> PvaElements(want, r)

\* encode over Channel Access: the wire value, <<>> where it is refused.
CaEncode(want, conv, v) ==
    CASE want \in {"float", "number"} -> <<F64ToWire(conv.type, v.n)>>
      [] want = "int" -> <<I64ToWire(conv.type, v.n)>>
      [] want = "bool" -> <<I64ToWire(conv.type, IF v.b THEN 2 ELSE 0)>>
      [] want = "str" ->
           CASE conv.kind = "longstr" -> Append(v.c, 0)
             [] conv.kind = "native" -> <<v.s>>
             [] OTHER -> LET i == EnumLabelToIndex(v.s, conv.choices)
                         IN  IF i < 0 THEN <<>> ELSE <<2 * i>>
      [] OTHER -> v.e

\* encode and put_leaf over PV Access: a label is looked up among the choices the
\* IOC holds as the put begins; another string is left for the IOC to parse.
PvaEncode(want, conv, v, present) ==
    CASE want \in {"float", "number", "int"} -> <<I64ToWire(present.type, v.n)>>
      [] want = "bool" -> <<IF v.b THEN 2 ELSE 0>>
      [] want = "str" ->
           CASE conv.kind = "longstr" -> Append(v.c, 0)
             [] present.type = "enum" -> LET i == EnumLabelToIndex(v.s, present.choices)
                                         IN  IF i < 0 THEN <<>> ELSE <<2 * i>>
             [] OTHER -> <<v.s>>
      [] OTHER -> v.e

----------------------------------------------------------------------------
(* Metadata of the data key *)

NaN == <<>>
NoRange == [low |-> NaN, high |-> NaN]
\* limits_range: neither limit set, or both zero, is no limits at all.
LimitsRange(low, high) ==
    IF low = <<0>> /\ high = <<0>> THEN NoRange ELSE [low |-> low, high |-> high]

\* leaf_f64 and pv_limits: a NaN is an absent limit.
PvaLimits(r) == IF r.low = NaN /\ r.high = NaN THEN NoRange ELSE LimitsRange(r.low, r.high)

NoMeta == [units |-> FALSE, prec |-> -1, limits |-> NoRange, choices |-> <<>>]
Numeric(r) == r.type \in Ints \cup Floats

\* ctrl_metadata and the datakey functions of Channel Access.
CaMetadata(want, conv, r) ==
    CASE want = "bool" -> NoMeta
      [] want = "str" -> [NoMeta EXCEPT !.choices = conv.choices]
      [] OTHER ->
           [NoMeta EXCEPT
              !.units = Numeric(r),
              !.prec = IF want # "int" /\ conv.type \in Floats THEN r.prec ELSE -1,
              !.limits = IF Numeric(r) THEN LimitsRange(r.low, r.high) ELSE NoRange]

\* pv_field_to_metadata of PV Access.
PvaMetadata(want, r) ==
    [units   |-> Numeric(r) /\ want # "str",
     prec    |-> IF r.type \in Floats /\ want # "int" THEN r.prec ELSE -1,
     limits  |-> IF Numeric(r) THEN PvaLimits(r) ELSE NoRange,
     choices |-> IF want = "str" THEN r.choices ELSE <<>>]

----------------------------------------------------------------------------
VARIABLES ebProto,   \* "ca" or "pva"
          ebWant,    \* the datatype of the signal
          ebWrite,   \* the record written: "r", or "w" for a separate setpoint
          ebRec,     \* the IOC's records
          ebEpoch,   \* restarts of the IOC so far
          ebWrites,  \* puts and posts so far
          ebConv,    \* the cached converter, with the epoch it was read in
          ebInit,    \* the cached initial value
          ebMaking,  \* a converter read but not stored yet, or a connect's own
          ebPut,     \* the put in flight
          ebMon,     \* the monitor: [on, conv]
          ebSeen     \* the value handed out by the last step, with the record it came from
backendVars == <<ebProto, ebWant, ebWrite, ebRec, ebEpoch, ebWrites, ebConv, ebInit,
                 ebMaking, ebPut, ebMon, ebSeen>>
ebSetup == <<ebProto, ebWant, ebWrite>>

At(conv) == [conv |-> conv, epoch |-> ebEpoch]
Unmade == [conv |-> NoConverter, epoch |-> -1]
EbIdle == [at |-> "idle"]
Nothing == [got |-> NoValue, from |-> "", epoch |-> -1, now |-> 0, rec |-> <<>>]

Holding(r, v) == [type |-> r.type, array |-> r.array, choices |-> r.choices,
                  prec |-> r.prec, low |-> r.low, high |-> r.high, val |-> v]
FirstValue(r) == Holding(r, CHOOSE v \in ValuesOf(r) : TRUE)

BackendInit ==
    /\ ebProto \in {"ca", "pva"} /\ ebWant \in Wants
    /\ ebWrite \in IF ebProto = "ca" THEN {"r", "w"} ELSE {"r"}
    /\ \E r \in EbRecords, w \in EbRecords :
         /\ ebWrite = "r" => w = r
         /\ ebRec = [n \in {"r", "w"} |-> IF n = "r" THEN FirstValue(r) ELSE FirstValue(w)]
    /\ ebEpoch = 0 /\ ebWrites = 0
    /\ ebConv = Unmade /\ ebInit = NoValue /\ ebMaking = EbIdle
    /\ ebPut = EbIdle /\ ebMon = [on |-> FALSE, made |-> Unmade] /\ ebSeen = Nothing

MakeConverter ==
    IF ebProto = "ca" THEN CaConverter(ebWant, {ebRec["r"], ebRec[ebWrite]})
    ELSE PvaConverter(ebWant, ebRec["r"])
Decode(conv, r) ==
    IF ebProto = "ca" THEN CaDecode(ebWant, conv, r.type, r.array, r.val)
    ELSE PvaDecode(ebWant, conv, r)
Encode(conv, v, present) ==
    IF ebProto = "ca" THEN CaEncode(ebWant, conv, v) ELSE PvaEncode(ebWant, conv, v, present)

Made == ebConv.conv # NoConverter

----------------------------------------------------------------------------
(* Operations *)

\* connect_reading: nothing is stored unless the record is accepted and its value
\* decodes.
ConnectReads ==
    /\ ebMaking = EbIdle
    /\ MakeConverter # NoConverter
    /\ Decode(MakeConverter, ebRec[ebWrite]) # NoValue
    /\ ebMaking' = [at |-> "connect", made |-> At(MakeConverter),
                    initial |-> Decode(MakeConverter, ebRec[ebWrite])]
    /\ ebSeen' = Nothing /\ UNCHANGED <<ebSetup, ebRec, ebEpoch, ebWrites, ebConv, ebInit, ebPut, ebMon>>
ConnectStores ==
    /\ ebMaking.at = "connect"
    /\ ebConv' = ebMaking.made /\ ebInit' = ebMaking.initial /\ ebMaking' = EbIdle
    /\ ebSeen' = Nothing /\ UNCHANGED <<ebSetup, ebRec, ebEpoch, ebWrites, ebPut, ebMon>>

\* converter / read: made by the first use when nobody connected.
FirstUseReads ==
    /\ ebMaking = EbIdle /\ ~Made /\ MakeConverter # NoConverter
    /\ ebMaking' = [at |-> "use", made |-> At(MakeConverter)]
    /\ ebSeen' = Nothing /\ UNCHANGED <<ebSetup, ebRec, ebEpoch, ebWrites, ebConv, ebInit, ebPut, ebMon>>
FirstUseStores ==
    /\ ebMaking.at = "use"
    /\ ebConv' = ebMaking.made /\ ebMaking' = EbIdle
    /\ ebSeen' = Nothing /\ UNCHANGED <<ebSetup, ebRec, ebEpoch, ebWrites, ebInit, ebPut, ebMon>>

\* get_value, get_reading and get_setpoint; an undecodable value is an error.
HandOut(made, n) ==
    ebSeen' = [got |-> Decode(made.conv, ebRec[n]), from |-> n,
               epoch |-> made.epoch, now |-> ebEpoch, rec |-> ebRec[n]]
GetValue(n) ==
    /\ Made /\ Decode(ebConv.conv, ebRec[n]) # NoValue
    /\ HandOut(ebConv, n)
    /\ UNCHANGED <<ebSetup, ebRec, ebEpoch, ebWrites, ebConv, ebInit, ebMaking, ebPut, ebMon>>

\* or_initial: a put without a value writes the initial one, read now if connect
\* has not.
OrInitial(v) ==
    IF v # NoValue THEN v
    ELSE IF ebInit # NoValue THEN ebInit
    ELSE Decode(ebConv.conv, ebRec[ebWrite])

\* The values a user may write through this datatype.
Writable ==
    CASE ebWant \in {"float", "number"} -> {Num(1), Num(4), Num(514)}
      [] ebWant = "int" -> {Num(2), Num(-2), Num(514)}
      [] ebWant = "bool" -> {Truth(TRUE), Truth(FALSE)}
      [] ebWant = "str" /\ ebConv.conv.kind = "longstr" -> {Chars(<<130>>), Chars(<<>>)}
      [] ebWant = "str" -> {Text("On"), Text("1"), Text("5")}
      [] ebWant = "string[]" -> {Items(<<"1">>)}
      [] OTHER -> {Items(<<2, 4>>)}

\* put_value: a refused encoding writes nothing.  A put that asks for no
\* acknowledgement is done at once; the others are when the IOC answers.
PutValue(v, wait) ==
    /\ Made /\ ebPut = EbIdle /\ ebWrites < EbWritesMax
    /\ v = NoValue \/ v \in Writable
    /\ LET value == OrInitial(v)
           wire  == IF value = NoValue THEN <<>>
                    ELSE Encode(ebConv.conv, value, ebRec[ebWrite])
       IN  /\ wire # <<>> \/ ebWant \notin {"str", "float", "number", "int", "bool"}
           /\ value # NoValue
           /\ ebPut' = [at |-> IF wait THEN "sent" ELSE "done", value |-> value, wire |-> wire,
                        epoch |-> ebConv.epoch, waited |-> wait, taken |-> FALSE]
           /\ ebWrites' = ebWrites + 1
           /\ ebInit' = IF v = NoValue THEN value ELSE ebInit
    /\ ebSeen' = Nothing /\ UNCHANGED <<ebSetup, ebRec, ebEpoch, ebConv, ebMaking, ebMon>>

\* The IOC turns strings written to an array of enums into their indices.
IocStores(r, wire) ==
    IF r.type = "enum" /\ r.array THEN [i \in DOMAIN wire |-> 2 * EnumLabelToIndex(wire[i], r.choices)]
    ELSE wire

\* The record takes the put, if it is still of the type it was sent for.
RecordTakesPut ==
    /\ ebPut.at \in {"sent", "done", "dropped"} /\ ~ebPut.taken
    /\ ebPut.epoch = ebEpoch
    /\ ebRec' = [ebRec EXCEPT ![ebWrite].val = IocStores(ebRec[ebWrite], ebPut.wire)]
    /\ ebPut' = [ebPut EXCEPT !.taken = TRUE]
    /\ ebSeen' = Nothing /\ UNCHANGED <<ebSetup, ebEpoch, ebWrites, ebConv, ebInit, ebMaking, ebMon>>

\* The put-callback is answered once the record has taken the value.
PutAnswered ==
    /\ ebPut.at = "sent" /\ ebPut.taken
    /\ ebPut' = [ebPut EXCEPT !.at = "done"]
    /\ ebSeen' = Nothing /\ UNCHANGED <<ebSetup, ebRec, ebEpoch, ebWrites, ebConv, ebInit, ebMaking, ebMon>>

\* await_put times out: the caller stops waiting, the IOC does not.
PutTimesOut ==
    /\ ebPut.at = "sent"
    /\ ebPut' = [ebPut EXCEPT !.at = "dropped"]
    /\ ebSeen' = Nothing /\ UNCHANGED <<ebSetup, ebRec, ebEpoch, ebWrites, ebConv, ebInit, ebMaking, ebMon>>
PutOver ==
    /\ ebPut.at \in {"done", "dropped"} /\ (ebPut.taken \/ ebPut.epoch # ebEpoch)
    /\ ebPut' = EbIdle
    /\ ebSeen' = Nothing /\ UNCHANGED <<ebSetup, ebRec, ebEpoch, ebWrites, ebConv, ebInit, ebMaking, ebMon>>

\* set_callback: the monitor keeps the converter it began with.
EbSubscribe ==
    /\ ~ebMon.on
    /\ IF Made THEN ebMon' = [on |-> TRUE, made |-> ebConv]
       ELSE /\ MakeConverter # NoConverter
            /\ ebMon' = [on |-> TRUE, made |-> At(MakeConverter)]
    /\ ebSeen' = Nothing /\ UNCHANGED <<ebSetup, ebRec, ebEpoch, ebWrites, ebConv, ebInit, ebMaking, ebPut>>
\* forward_monitor: a value that does not decode is skipped.
MonitorDelivers ==
    /\ ebMon.on /\ Decode(ebMon.made.conv, ebRec["r"]) # NoValue
    /\ HandOut(ebMon.made, "r")
    /\ UNCHANGED <<ebSetup, ebRec, ebEpoch, ebWrites, ebConv, ebInit, ebMaking, ebPut, ebMon>>
Unsubscribe ==
    /\ ebMon.on /\ ebMon' = [on |-> FALSE, made |-> Unmade]
    /\ ebSeen' = Nothing /\ UNCHANGED <<ebSetup, ebRec, ebEpoch, ebWrites, ebConv, ebInit, ebMaking, ebPut>>

\* The IOC: a record changes by itself; a restart puts other records there.
RecordPosts(n) ==
    /\ ebWrites < EbWritesMax /\ n \in {"r", ebWrite}
    /\ \E v \in ValuesOf(ebRec[n]) : ebRec' = [ebRec EXCEPT ![n].val = v]
    /\ ebWrites' = ebWrites + 1
    /\ ebSeen' = Nothing /\ UNCHANGED <<ebSetup, ebEpoch, ebConv, ebInit, ebMaking, ebPut, ebMon>>
IocRestarts ==
    /\ ebEpoch < EbRestartsMax
    /\ \E r \in EbRecords : ebRec' = [n \in {"r", "w"} |-> FirstValue(r)]
    /\ ebEpoch' = ebEpoch + 1
    /\ ebSeen' = Nothing /\ UNCHANGED <<ebSetup, ebWrites, ebConv, ebInit, ebMaking, ebPut, ebMon>>

BackendNext ==
    \/ ConnectReads \/ ConnectStores \/ FirstUseReads \/ FirstUseStores
    \/ \E n \in {"r", ebWrite} : GetValue(n) \/ RecordPosts(n)
    \/ \E v \in Writable \cup {NoValue}, wait \in BOOLEAN : PutValue(v, wait)
    \/ RecordTakesPut \/ PutAnswered \/ PutTimesOut \/ PutOver
    \/ EbSubscribe \/ MonitorDelivers \/ Unsubscribe \/ IocRestarts

----------------------------------------------------------------------------
(* Properties *)

\* The reference: what a record with this value says, to a user of this datatype.
Meaning(want, r) ==
    CASE want \in {"float", "number"} -> Num(r.val[1])
      [] want = "int" -> Num(Trunc(r.val[1]))
      [] want = "bool" -> Truth(Trunc(r.val[1]) # 0)
      [] want = "str" /\ r.type = "string" -> Text(r.val[1])
      [] want = "str" /\ r.type = "enum" ->
           Text(IF r.val[1] \div 2 < Len(r.choices) THEN r.choices[r.val[1] \div 2 + 1]
                ELSE IndexName(r.val[1] \div 2))
      [] want = "str" -> Chars(SelectSeq(r.val, LAMBDA x : x # 0))
      [] r.type = "enum" -> Items([i \in DOMAIN r.val |-> IndexName(r.val[i] \div 2)])
      [] OTHER -> Items(r.val)

\* A value handed out by a get or a monitor says what the record said, unless the
\* IOC restarted after the converter was made.
ReadsTrue == ebSeen.epoch = ebSeen.now => ebSeen.got = Meaning(ebWant, ebSeen.rec)

\* A datatype accepts only records it can read: whatever value the record takes
\* next, a get decodes it.
AcceptedDecodes ==
    Made /\ ebConv.epoch = ebEpoch =>
        \A v \in ValuesOf(ebRec["r"]) : Decode(ebConv.conv, Holding(ebRec["r"], v)) # NoValue

\* What a record of this type can hold of a value, and labels given by name.
Representable(r, v) ==
    CASE v.k = "num" -> r.type \in Floats \/ (Trunc(v.n) = v.n /\ v.n \in Lo(r.type) .. Hi(r.type))
      [] v.k = "str" -> r.type = "string" \/ Contains(r.choices, v.s)
      [] OTHER -> TRUE

\* A put that its caller saw done after waiting was taken by the record, and what
\* the record can hold of the value reads back as it was written, the initial
\* value of a put without one included.
WritesTrue ==
    /\ ebPut.at = "done" /\ ebPut.waited => ebPut.taken
    /\ ebPut.at # "idle" /\ ebPut.taken /\ ebPut.epoch = ebEpoch
         /\ ebRec[ebWrite].val = IocStores(ebRec[ebWrite], ebPut.wire)
         /\ Representable(ebRec[ebWrite], ebPut.value) =>
        Meaning(ebWant, ebRec[ebWrite]) = ebPut.value

\* Both transports read one record alike, and describe it alike to numbers.
TransportsAgree ==
    LET r == ebRec["r"]
        c == CaConverter(ebWant, {r})
        p == PvaConverter(ebWant, r)
    IN  c # NoConverter /\ p # NoConverter =>
          /\ CaDecode(ebWant, c, r.type, r.array, r.val) = PvaDecode(ebWant, p, r)
          /\ ebWant \notin {"bool", "str"} => CaMetadata(ebWant, c, r) = PvaMetadata(ebWant, r)
          /\ ebWant = "str" => CaMetadata(ebWant, c, r).choices = PvaMetadata(ebWant, r).choices

BackendSound == ReadsTrue /\ AcceptedDecodes /\ WritesTrue /\ TransportsAgree

=============================================================================
