------------------------------ MODULE NdTables ------------------------------
(***************************************************************************)
(* Array and table values: NdArray (core/ndarray.rs), Table and the typed  *)
(* tables that derive(Table) makes of a struct (core/table.rs, bsrs-derive *)
(* lib.rs), and what an NTNDArray or an NTTable PV carries of them         *)
(* (backends/epics_pva/real.rs).  One case is chosen in the initial state: *)
(* the laws are about what the operators return for it.                    *)
(*                                                                         *)
(* A number is [sign, e, d, part]: zero for sign 0, else plus or minus     *)
(* 2^e + d, with d in -1 .. 1 and part "half" for a half more (never with  *)
(* d = 1), or part "inf" or "nan".  The ends of every integer type, the    *)
(* integers a float rounds and a float64 beyond float32 are among them.    *)
(* A bool column holds zeros and ones; the cells of a string column are    *)
(* records [text], which no number is.                                     *)
(*                                                                         *)
(* A PV's value is [kind, type, values]: kind "typed" for a typed array of *)
(* that element type, "any" or "union" for one inside, "scalars" for a     *)
(* list of scalars (then type is the sequence of their types), "other".    *)
(***************************************************************************)
EXTENDS Integers, Sequences, FiniteSets, SequencesExt, Functions

CONSTANTS
  NtTables,  \* lists of columns to make tables of
  NtStructs, \* structs: sequences of [name, dtype]
  NtDims,    \* sizes of a dimension, as the PV gives them
  NtRankMax  \* bound on the number of dimensions

ASSUME TableAssumption == NtDims \subseteq Int /\ NtRankMax \in Nat

VARIABLE ntCase  \* [columns, struct, dims]
ntVars == <<ntCase>>

Failed == [failed |-> TRUE]

-----------------------------------------------------------------------------
(* NdData.                                                                 *)

IntBits == [i8 |-> 8, u8 |-> 8, i16 |-> 16, u16 |-> 16, i32 |-> 32, u32 |-> 32, i64 |-> 64, u64 |-> 64]
Signed == {"i8", "i16", "i32", "i64"}
IntTypes == DOMAIN IntBits
FloatTypes == {"f32", "f64"}
NdDtypes == IntTypes \cup FloatTypes \cup {"bool"}
\* A column is an array of one of them, or of strings.
ColumnDtypes == NdDtypes \cup {"str"}

\* numpy's dtype.str: byte order, kind and size in bytes.
NdDtypeStr(d) ==
  CASE d \in Signed -> [order |-> IF d = "i8" THEN "|" ELSE "<", kind |-> "i", size |-> IntBits[d] \div 8]
    [] d \in IntTypes \ Signed -> [order |-> IF d = "u8" THEN "|" ELSE "<", kind |-> "u", size |-> IntBits[d] \div 8]
    [] d = "bool" -> [order |-> "|", kind |-> "b", size |-> 1]
    [] d = "f32" -> [order |-> "<", kind |-> "f", size |-> 4]
    [] d = "f64" -> [order |-> "<", kind |-> "f", size |-> 8]
DtypeStr(d) == IF d = "str" THEN [order |-> "|", kind |-> "S", size |-> 40] ELSE NdDtypeStr(d)

\* A PV's element type: pva_element pairs each with its Rust type.
ScalarTypeOf == [bool |-> "Boolean", i8 |-> "Byte", u8 |-> "UByte", i16 |-> "Short",
                 u16 |-> "UShort", i32 |-> "Int", u32 |-> "UInt", i64 |-> "Long", u64 |-> "ULong",
                 f32 |-> "Float", f64 |-> "Double", str |-> "String"]
DtypeOfScalar == AntiFunction(ScalarTypeOf)
ArrayOf(d, values) == [kind |-> "typed", type |-> ScalarTypeOf[d], values |-> values]
Got(values) == [failed |-> FALSE, values |-> values]

\* Vec<E>: an array is read by its own element type alone, and a list of
\* scalars if each is of it.
FromArray(d, pv) == IF pv.type = ScalarTypeOf[d] THEN Got(pv.values) ELSE Failed
FromScalars(d, pv) == IF \A i \in DOMAIN pv.values : pv.type[i] = ScalarTypeOf[d] THEN Got(pv.values) ELSE Failed
DecodeVec(d, pv) ==
  CASE pv.kind = "typed" -> FromArray(d, pv)
    [] pv.kind = "scalars" -> FromScalars(d, pv)
    [] OTHER -> Failed
EncodeVec(d, values) == ArrayOf(d, values)
VecDatakey(d, pv) ==
  LET v == DecodeVec(d, pv)
  IN  IF v.failed THEN Failed ELSE [failed |-> FALSE, shape |-> <<Len(v.values)>>, dtype |-> DtypeStr(d)]

-----------------------------------------------------------------------------
(* NdArray.                                                                *)

Product(s) == FoldLeft(LAMBDA a, b : a * b, 1, s)
\* NdArray::new: data reshaped, refused unless the counts agree.
NdArrayNew(shape, data) ==
  IF Product(shape) # Len(data) THEN Failed ELSE [failed |-> FALSE, shape |-> shape, data |-> data]

\* The flat index of an element in C order, the last index fastest.
COrder(shape, idx) ==
  FoldLeft(LAMBDA at, k : at * shape[k] + idx[k], 0, [k \in DOMAIN shape |-> k])

\* Nested: shape.len() levels of lists; a level of n lists takes its i-th
\* stride of the data.
Nest[shape \in Seq(Nat), data \in Seq(Nat)] ==
  IF shape = <<>> THEN data[1]
  ELSE LET inner == Tail(shape)
           stride == Product(inner)
       IN  [i \in 1 .. Head(shape) |-> Nest[inner, SubSeq(data, (i - 1) * stride + 1, i * stride)]]
\* The element the nested lists hold at idx, each index from 0.
ElementAt(nested, idx) == FoldLeft(LAMBDA x, k : x[k + 1], nested, idx)

\* Mutant: NTNDArray's own order of dimensions is kept.
DimensionsKept(dims) == dims
\* NTNDArray lists the fastest dimension first, NdArray last.
ShapeOf(dims) == Reverse(dims)
\* typed_nd_data, nd_data: a string array is no numeric one, and an
\* NTNDArray's value is an `any` or a union.
TypedNdData(pv) ==
  IF pv.type = "String" THEN Failed ELSE [failed |-> FALSE, dtype |-> DtypeOfScalar[pv.type], values |-> pv.values]
NdDataOf(pv) == IF pv.kind \in {"any", "union"} THEN TypedNdData(pv) ELSE Failed
\* decode; a negative size stands for any that is no usize.
DecodeNdArray(dims, pv) ==
  LET data == NdDataOf(pv)
      a == NdArrayNew(ShapeOf(dims), data.values)
  IN  IF data.failed \/ (\E k \in DOMAIN dims : dims[k] < 0) THEN Failed
      ELSE IF a.failed THEN Failed
      ELSE [failed |-> FALSE, shape |-> a.shape, data |-> a.data, dtype |-> data.dtype]
\* An NdArray is never written.
EncodeNdArray(a) == Failed
NdArrayDatakey(dims, pv) ==
  LET a == DecodeNdArray(dims, pv)
  IN  IF a.failed THEN Failed ELSE [failed |-> FALSE, shape |-> a.shape, dtype |-> NdDtypeStr(a.dtype)]

-----------------------------------------------------------------------------
(* Table.                                                                  *)

\* check_lengths
SameLengths(lengths) == Cardinality(lengths) < 2
ColumnLen(c) == Len(c.values)
ColumnNames(cols) == [i \in DOMAIN cols |-> cols[i].name]
TableNew(cols) ==
  IF IsInjective(ColumnNames(cols)) /\ SameLengths({ColumnLen(cols[i]) : i \in DOMAIN cols})
  THEN [failed |-> FALSE, columns |-> cols] ELSE Failed
\* Table::column
ColumnNamed(t, name) == SelectSeq(t.columns, LAMBDA c : c.name = name)
TableLen(t) == IF t.columns = <<>> THEN 0 ELSE ColumnLen(t.columns[1])

\* dtype_numpy: a void of the row's size for fewer than two columns.
DtypeNumpy(t) ==
  IF Len(t.columns) > 1
  THEN [structured |-> [i \in DOMAIN t.columns |-> <<t.columns[i].name, DtypeStr(t.columns[i].dtype)>>]]
  ELSE [void |-> FoldLeft(LAMBDA n, c : n + DtypeStr(c.dtype).size, 0, t.columns)]

-----------------------------------------------------------------------------
(* The casts of a typed table's columns.                                   *)

Zero == [sign |-> 0, e |-> 0, d |-> 0, part |-> "whole"]
One == [sign |-> 1, e |-> 0, d |-> 0, part |-> "whole"]

\* The magnitude is at most 2^b + k, for k in {-1, 0}.
AtMost(x, b, k) == x.sign = 0 \/ x.e < b \/ (x.e = b /\ x.d <= k)
InRange(t, x) ==
  IF t \in Signed THEN AtMost(x, IntBits[t] - 1, IF x.sign < 0 THEN 0 ELSE -1)
  ELSE x.sign >= 0 /\ AtMost(x, IntBits[t], -1)
\* The bits between the first and the last 1 of x.
Significant(x) ==
  IF x.sign = 0 THEN 1
  ELSE (IF x.d = -1 THEN x.e ELSE IF x.d = 0 /\ x.part = "whole" THEN 1 ELSE x.e + 1) + (IF x.part = "half" THEN 1 ELSE 0)
\* x in a float of m significant bits, to the nearest, ties to even.
Rounded(x, m) == IF x.part \in {"inf", "nan"} \/ Significant(x) <= m THEN x ELSE [x EXCEPT !.d = 0, !.part = "whole"]
AsF64(x) == Rounded(x, 53)
\* ... and from 2^128 on an infinity.
AsF32(x) ==
  LET r == Rounded(x, 24)
  IN  IF r.part \notin {"inf", "nan"} /\ ~AtMost(r, 128, -1) THEN [One EXCEPT !.sign = x.sign, !.part = "inf"] ELSE r

\* Mutant: an as-cast, its end one too far.
ExactIntTooFar(t, x) == x.part = "whole" /\ (x.sign >= 0 \/ t \in Signed) /\ AtMost(x, IntBits[t], 0)
\* exact_int: a whole float is taken for its integer.
ExactInt(t, x) == x.part = "whole" /\ InRange(t, x)
ExactBool(x) == x \in {Zero, One}
\* Any number that is not a NaN: an integer rounds, as numpy compares it.
ExactF64(x) == x.part # "nan"
ExactF32(x) == x.part # "nan" /\ AsF32(x) = AsF64(x)
Exact(t, x) ==
  CASE t \in IntTypes -> ExactInt(t, x)
    [] t = "bool" -> ExactBool(x)
    [] t = "f64" -> ExactF64(x)
    [] t = "f32" -> ExactF32(x)
\* What the cast makes of it.
CastOne(t, x) == IF t = "f64" THEN AsF64(x) ELSE IF t = "f32" THEN AsF32(x) ELSE x

\* TableElement::from_column: strings only to strings, numbers exactly.
StringColumn(c) == IF c.dtype = "str" THEN Got(c.values) ELSE Failed
NumericColumn(c, d) ==
  IF c.dtype # "str" /\ \A i \in DOMAIN c.values : Exact(d, c.values[i])
  THEN Got([i \in DOMAIN c.values |-> CastOne(d, c.values[i])]) ELSE Failed
FromColumn(c, d) == IF d = "str" THEN StringColumn(c) ELSE NumericColumn(c, d)

\* TableFields::take: the column of that name, or an empty one.
Take(t, f) ==
  LET named == ColumnNamed(t, f.name) IN IF named = <<>> THEN Got(<<>>) ELSE FromColumn(Head(named), f.dtype)
\* Mutant: a column no field took is dropped.
FinishLeavesExtra(t, struct, taken) == SameLengths({Len(taken[i].values) : i \in DOMAIN struct})
\* finish: no column left over, and the fields of one length.
FinishFields(t, struct, taken) ==
  /\ ToSet(ColumnNames(t.columns)) \subseteq ToSet(ColumnNames(struct))
  /\ SameLengths({Len(taken[i].values) : i \in DOMAIN struct})
\* derive(Table)'s from_table and into_table.
FromTable(struct, t) ==
  LET taken == [i \in DOMAIN struct |-> Take(t, struct[i])]
  IN  IF (\E i \in DOMAIN struct : taken[i].failed) \/ ~FinishFields(t, struct, taken) THEN Failed
      ELSE [failed |-> FALSE, fields |-> [i \in DOMAIN struct |-> taken[i].values]]
IntoTable(struct, s) ==
  TableNew([i \in DOMAIN struct |-> [name |-> struct[i].name, dtype |-> struct[i].dtype, values |-> s.fields[i]]])

-----------------------------------------------------------------------------
(* The NTTable.                                                            *)

\* table_value
TableValue(t) == [i \in DOMAIN t.columns |-> <<t.columns[i].name, ArrayOf(t.columns[i].dtype, t.columns[i].values)>>]
\* table: a column of strings, or a numeric one; nothing if one is no typed
\* array.
ColumnOfValue(pv) ==
  IF pv.type = "String" THEN [dtype |-> "str", values |-> FromArray("str", pv).values]
  ELSE LET data == TypedNdData(pv) IN [dtype |-> data.dtype, values |-> data.values]
TableOf(value) ==
  IF \E i \in DOMAIN value : value[i][2].kind # "typed" THEN Failed
  ELSE TableNew([i \in DOMAIN value |-> [name |-> value[i][1], dtype |-> ColumnOfValue(value[i][2]).dtype,
                                         values |-> ColumnOfValue(value[i][2]).values]])
\* PvaType for a typed table.
DecodeTyped(struct, value) ==
  LET t == TableOf(value) IN IF t.failed THEN Failed ELSE FromTable(struct, t)
EncodeTyped(struct, s) ==
  LET t == IntoTable(struct, s) IN IF t.failed THEN Failed ELSE [failed |-> FALSE, value |-> TableValue(t)]
\* The datakey of a typed table: a column of rows.
TypedDatakey(struct, value) ==
  LET s == DecodeTyped(struct, value)
  IN  IF s.failed THEN Failed
      ELSE LET t == IntoTable(struct, s) IN [failed |-> FALSE, shape |-> <<TableLen(t)>>, dtype |-> DtypeNumpy(t)]

-----------------------------------------------------------------------------
NdInit ==
  \/ ntCase \in [columns : NtTables, struct : NtStructs, dims : {<<>>}]
  \/ ntCase \in [columns : {<<>>}, struct : {<<>>}, dims : UNION {[1 .. r -> NtDims] : r \in 0 .. NtRankMax}]

Indices(shape) == {idx \in [DOMAIN shape -> 0 .. 4] : \A k \in DOMAIN shape : idx[k] < shape[k]}

\* An image read over PVA keeps its pixels: the element whose place in the
\* IOC's buffer the first dimension varies fastest is found, in the nested
\* lists a document carries, under the same indices in reverse; its datakey
\* names that shape.  A count that does not fit, a negative size, strings
\* or an array that is not in an any or a union is refused.
PixelsKept ==
  LET dims == ntCase.dims
      wrong == \E k \in DOMAIN dims : dims[k] < 0
      data == [i \in 1 .. (IF wrong THEN 1 ELSE Product(dims)) |-> i]
      Pv(kind, type, values) == [kind |-> kind, type |-> type, values |-> values]
      pv == Pv("union", "UByte", data)
      a == DecodeNdArray(dims, pv)
      FirstFastest(idx) == FoldLeft(LAMBDA at, k : at * dims[k] + idx[k], 0, Reverse([k \in DOMAIN dims |-> k]))
  IN  /\ a.failed = wrong
      /\ ~a.failed =>
           LET nested == Nest[a.shape, a.data]
           IN  /\ \A idx \in Indices(dims) :
                    Reverse(idx) \in Indices(a.shape) /\ ElementAt(nested, Reverse(idx)) = data[FirstFastest(idx) + 1]
               /\ \A idx \in Indices(a.shape) : ElementAt(nested, idx) = data[COrder(a.shape, idx) + 1]
               /\ NdArrayDatakey(dims, pv) = [failed |-> FALSE, shape |-> a.shape, dtype |-> DtypeStr("u8")]
      /\ \A refused \in {Pv("any", "UByte", Append(data, 0)), Pv("any", "String", data), Pv("typed", "UByte", data)} :
           DecodeNdArray(dims, refused).failed

\* An array written is read back by a signal of its own element type and by
\* no other; as a list of scalars also an empty one is.
SequenceReadsBack ==
  \A c \in ToSet(ntCase.columns) : \A d \in ColumnDtypes :
    LET pv == EncodeVec(c.dtype, c.values)
        scalars == [kind |-> "scalars", type |-> [i \in DOMAIN c.values |-> pv.type], values |-> c.values]
    IN  /\ DecodeVec(d, pv) = IF d = c.dtype THEN Got(c.values) ELSE Failed
        /\ DecodeVec(d, scalars) = IF d = c.dtype \/ c.values = <<>> THEN Got(c.values) ELSE Failed
        /\ d = c.dtype => VecDatakey(d, pv).shape = <<Len(c.values)>>

\* A table put to a PV whose columns have its types, and read back, is the
\* table; with a column that is no array nothing is read.
PutTableReadsBack ==
  LET t == TableNew(ntCase.columns)
  IN  ~t.failed => /\ TableOf(TableValue(t)) = t
                   /\ TableOf(Append(TableValue(t), <<"w", [kind |-> "other"]>>)).failed

\* A typed table holds every column of what it was read from and nothing
\* else, with its values unchanged but for an integer a float field rounds
\* as float64 does; a column that is missing goes only with a table of no
\* rows.
TypedKeepsValues ==
  LET t == TableNew(ntCase.columns)
      struct == ntCase.struct
      s == FromTable(struct, t)
      u == IntoTable(struct, s)
      Kept(c, d) == /\ d.name = c.name /\ Len(d.values) = Len(c.values)
                    /\ \A i \in DOMAIN c.values : \/ d.values[i] = c.values[i]
                                                  \/ d.dtype \in FloatTypes /\ d.values[i] = AsF64(c.values[i])
  IN  ~t.failed /\ ~s.failed =>
        /\ ~u.failed /\ (t.columns # <<>> => TableLen(u) = TableLen(t))
        /\ \A c \in ToSet(t.columns) : \E d \in ToSet(u.columns) : Kept(c, d)
        /\ \A d \in ToSet(u.columns) : TableLen(t) = 0 \/ d.name \in ToSet(ColumnNames(t.columns))

\* A cast value is one its new type holds.
TypedFits ==
  LET s == FromTable(ntCase.struct, TableNew(ntCase.columns))
  IN  ~TableNew(ntCase.columns).failed /\ ~s.failed =>
        \A i \in DOMAIN ntCase.struct : \A x \in ToSet(s.fields[i]) :
          LET d == ntCase.struct[i].dtype
          IN  CASE d \in IntTypes -> x.part = "whole" /\ InRange(d, x)
                [] d = "f32" -> AsF32(x) = x
                [] d = "f64" -> AsF64(x) = x
                [] OTHER -> TRUE

\* What a typed signal encodes it decodes to the same struct, and its
\* datakey has the rows and the columns of what it reads.
TypedRoundTrip ==
  LET t == TableNew(ntCase.columns)
      s == FromTable(ntCase.struct, t)
      e == EncodeTyped(ntCase.struct, s)
  IN  ~t.failed /\ ~s.failed =>
        /\ ~e.failed /\ DecodeTyped(ntCase.struct, e.value) = s
        /\ TypedDatakey(ntCase.struct, e.value).shape = <<TableLen(IntoTable(ntCase.struct, s))>>

TablesSound == PixelsKept /\ SequenceReadsBack /\ PutTableReadsBack /\ TypedKeepsValues /\ TypedFits /\ TypedRoundTrip
=============================================================================
