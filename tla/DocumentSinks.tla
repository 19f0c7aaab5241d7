--------------------------- MODULE DocumentSinks ----------------------------
(***************************************************************************)
(* Where documents go (callbacks/, engine/sink.rs).  RunEngine::broadcast  *)
(* awaits each sink in turn; the engine's task and a monitor pump may be   *)
(* in it at the same time.  The sinks: a JSON-lines file, a Kafka topic, a *)
(* Tiled catalog, a 0MQ publisher with a ZmqDocumentSource on the other    *)
(* side that feeds a second engine, and the in-process BroadcastSink with  *)
(* a receiver that may lag.  Files, brokers and servers may fail any call. *)
(***************************************************************************)
EXTENDS Integers, Sequences, FiniteSets, SequencesExt

CONSTANTS
  DsScript,    \* the engine's documents: [name, run, body], body a sequence of words
  DsPump,      \* the pump's documents
  DsPrefixes,  \* prefixes the publisher is given: sequences of characters
  DsFaultsMax, \* bound on failed calls
  DsRing       \* capacity of the broadcast channel

ASSUME DsRing \in Nat \ {0}

VARIABLES
  dsLeft,    \* emitter -> documents still to broadcast
  dsAt,      \* emitter -> <<sink index, stage>>; <<0, "idle">> outside broadcast
  dsDone,    \* documents whose broadcast returned, per emitter
  dsLog,     \* sink -> what it recorded: documents in order
  dsFailed,  \* sink -> documents it returned an error for
  dsFile,    \* the JSON-lines file: lines, each a sequence of documents; one is good
  dsCut,     \* the file's last line has no end yet
  dsSeen,    \* TiledSink.runs_started
  dsCat,     \* the catalog: run -> "none", "started", "stopped"
  dsPub,     \* the publisher: [prefix, ser]
  dsSub,     \* the subscriber: [joined, from, filter, ser, cancelled]; from the documents sent before it joined
  dsWire,    \* envelopes on their way
  dsGot,     \* documents injected into the second engine
  dsPos,     \* the receiver's place in the channel
  dsMissed,  \* documents it was told it had missed
  dsOverflow, \* BroadcastSink.overflow
  dsFaults

sinkVars == <<dsLeft, dsAt, dsDone, dsLog, dsFailed, dsFile, dsCut, dsSeen, dsCat, dsPub, dsSub,
              dsWire, dsGot, dsPos, dsMissed, dsOverflow, dsFaults>>

Sinks == <<"jsonl", "kafka", "tiled", "zmq", "channel">>
Emitters == {"engine", "pump"}
Sp == " "
Serializers == {"msgpack", "json"}
Names == {"start", "descriptor", "event", "event_page", "resource", "datum", "datum_page",
          "stream_resource", "stream_datum", "stop"}
Runs == {d.run : d \in ToSet(DsScript)}

\* Mutant: the prefix is taken as it comes.
AnyPrefix(p) == TRUE
\* with_prefix refuses one with a space.
PrefixAllowed(p) == Sp \notin ToSet(p)

SinksInit ==
  /\ dsLeft = [e \in Emitters |-> IF e = "engine" THEN DsScript ELSE DsPump]
  /\ dsAt = [e \in Emitters |-> <<0, "idle">>] /\ dsDone = [e \in Emitters |-> <<>>]
  /\ dsLog = [s \in ToSet(Sinks) |-> <<>>] /\ dsFailed = [s \in ToSet(Sinks) |-> {}]
  /\ dsFile = <<>> /\ dsCut = FALSE /\ dsSeen = {} /\ dsCat = [r \in Runs |-> "none"]
  /\ \E p \in {x \in DsPrefixes : PrefixAllowed(x)} : dsPub = [prefix |-> p, ser |-> "msgpack"]
  /\ \E f \in {<<>>, <<"p">>}, s \in Serializers :
       dsSub = [joined |-> FALSE, from |-> 0, filter |-> f, ser |-> s, cancelled |-> FALSE]
  /\ dsWire = <<>> /\ dsGot = <<>> /\ dsPos = 0 /\ dsMissed = 0 /\ dsOverflow = 0 /\ dsFaults = 0

Fault == dsFaults < DsFaultsMax /\ dsFaults' = dsFaults + 1
Current(e) == Head(dsLeft[e])
AtSink(e, s) == dsAt[e][1] # 0 /\ Sinks[dsAt[e][1]] = s

-----------------------------------------------------------------------------
(* broadcast.                                                              *)

\* Mutant: the first sink that fails ends the fan-out.
StopsAtError(e, ok) == IF ok /\ dsAt[e][1] < Len(Sinks) THEN <<dsAt[e][1] + 1, "call">> ELSE <<0, "idle">>
\* An error is logged and the next sink is served.
AfterSink(e, ok) == IF dsAt[e][1] < Len(Sinks) THEN <<dsAt[e][1] + 1, "call">> ELSE <<0, "idle">>

Dispatched(e, s, ok) ==
  LET next == AfterSink(e, ok) IN
  /\ dsAt' = [dsAt EXCEPT ![e] = next]
  /\ dsLog' = IF ok THEN [dsLog EXCEPT ![s] = Append(@, Current(e))] ELSE dsLog
  /\ dsFailed' = IF ok THEN dsFailed ELSE [dsFailed EXCEPT ![s] = @ \cup {Current(e)}]
  /\ dsLeft' = IF next[1] = 0 THEN [dsLeft EXCEPT ![e] = Tail(@)] ELSE dsLeft
  /\ dsDone' = IF next[1] = 0 THEN [dsDone EXCEPT ![e] = Append(@, Current(e))] ELSE dsDone

\* The engine's documents follow one another; the pump's come while its run is open.
MayEmit(e) ==
  e = "pump" => \E d \in ToSet(dsDone["engine"]) : d.name = "start" /\ d.run = Current(e).run
Emit(e) ==
  /\ dsAt[e][1] = 0 /\ dsLeft[e] # <<>> /\ MayEmit(e)
  /\ dsAt' = [dsAt EXCEPT ![e] = <<1, "call">>]
  /\ UNCHANGED <<dsLeft, dsDone, dsLog, dsFailed, dsFile, dsCut, dsSeen, dsCat, dsPub, dsSub, dsWire, dsGot, dsPos, dsMissed, dsOverflow, dsFaults>>

-----------------------------------------------------------------------------
(* The sinks.                                                              *)

\* A line and its end, then a flush; a write that fails may have put part of
\* the line there, behind which the next one lands.
Line(d) == IF dsCut THEN Front(dsFile) \o <<Append(Last(dsFile), d)>> ELSE Append(dsFile, <<d>>)
JsonlDispatch(e) ==
  /\ AtSink(e, "jsonl")
  /\ \/ /\ dsFile' = Line(Current(e)) /\ dsCut' = FALSE
        /\ Dispatched(e, "jsonl", TRUE) /\ UNCHANGED dsFaults
     \/ /\ Fault /\ Dispatched(e, "jsonl", FALSE)
        /\ \E part \in BOOLEAN : dsFile' = (IF part THEN Line(Current(e)) ELSE dsFile) /\ dsCut' = (dsCut \/ part)
  /\ UNCHANGED <<dsSeen, dsCat, dsPub, dsSub, dsWire, dsGot, dsPos, dsMissed, dsOverflow>>

\* produce: the broker has the record or it has not.
KafkaDispatch(e) ==
  /\ AtSink(e, "kafka")
  /\ \/ Dispatched(e, "kafka", TRUE) /\ UNCHANGED dsFaults
     \/ Fault /\ Dispatched(e, "kafka", FALSE)
  /\ UNCHANGED <<dsFile, dsCut, dsSeen, dsCat, dsPub, dsSub, dsWire, dsGot, dsPos, dsMissed, dsOverflow>>

\* A run is entered in runs_started before the POST, which may fail; every
\* document but start and stop is dropped.
TiledDispatch(e) ==
  /\ AtSink(e, "tiled")
  /\ LET d == Current(e) IN
     \/ /\ dsAt[e][2] = "call" /\ d.name = "start" /\ d.run \notin dsSeen
        /\ dsSeen' = dsSeen \cup {d.run}
        /\ dsAt' = [dsAt EXCEPT ![e] = <<@[1], "post">>]
        /\ UNCHANGED <<dsCat, dsLeft, dsDone, dsLog, dsFailed, dsFaults>>
     \/ /\ dsAt[e][2] = "post"
        /\ \E ok \in BOOLEAN :
             /\ IF ok THEN UNCHANGED dsFaults ELSE Fault
             /\ dsCat' = IF ok THEN [dsCat EXCEPT ![d.run] = "started"] ELSE dsCat
             /\ Dispatched(e, "tiled", ok)
        /\ UNCHANGED dsSeen
     \/ /\ dsAt[e][2] = "call" /\ d.name = "stop"
        \* The server refuses a patch of a key it does not have.
        /\ \E ok \in BOOLEAN :
             /\ ok => dsCat[d.run] # "none"
             /\ IF ok \/ dsCat[d.run] = "none" THEN UNCHANGED dsFaults ELSE Fault
             /\ dsCat' = IF ok THEN [dsCat EXCEPT ![d.run] = "stopped"] ELSE dsCat
             /\ Dispatched(e, "tiled", ok)
        /\ UNCHANGED dsSeen
     \/ /\ dsAt[e][2] = "call" /\ (d.name \notin {"start", "stop"} \/ (d.name = "start" /\ d.run \in dsSeen))
        /\ Dispatched(e, "tiled", TRUE) /\ UNCHANGED <<dsSeen, dsCat, dsFaults>>
  /\ UNCHANGED <<dsFile, dsCut, dsPub, dsSub, dsWire, dsGot, dsPos, dsMissed, dsOverflow>>

\* The body of the inner document, in the serializer's coding.
EncodeBody(ser, d) == [ser |-> ser, doc |-> d]
\* `<prefix> <name> <body>`: the body is the last word and may hold spaces.
BuildEnvelope(pub, d) == pub.prefix \o <<Sp, d.name, Sp>> \o [i \in 1 .. Len(d.body) |-> d.body[i]]
Publish(d) == [text |-> BuildEnvelope(dsPub, d), body |-> EncodeBody(dsPub.ser, d)]

\* A publisher drops what no joined subscriber's filter matches.
ZmqDispatch(e) ==
  /\ AtSink(e, "zmq")
  /\ \/ /\ Dispatched(e, "zmq", TRUE) /\ UNCHANGED dsFaults
        /\ dsWire' = IF dsSub.joined /\ IsPrefix(dsSub.filter, Publish(Current(e)).text) THEN Append(dsWire, Publish(Current(e))) ELSE dsWire
     \/ Fault /\ Dispatched(e, "zmq", FALSE) /\ UNCHANGED dsWire
  /\ UNCHANGED <<dsFile, dsCut, dsSeen, dsCat, dsPub, dsSub, dsGot, dsPos, dsMissed, dsOverflow>>

\* BroadcastSink: send never fails and `overflow` is not touched.
ChannelDispatch(e) ==
  /\ AtSink(e, "channel")
  /\ Dispatched(e, "channel", TRUE)
  /\ UNCHANGED <<dsFile, dsCut, dsSeen, dsCat, dsPub, dsSub, dsWire, dsGot, dsPos, dsMissed, dsOverflow, dsFaults>>

-----------------------------------------------------------------------------
(* The receivers.                                                          *)

\* The channel keeps the last DsRing documents; a receiver behind them is
\* told how many it missed and goes on with the oldest kept.
ChannelRecv ==
  LET sent == Len(dsLog["channel"]) IN
  /\ dsPos < sent
  /\ IF sent - dsPos > DsRing
       THEN dsMissed' = dsMissed + (sent - DsRing - dsPos) /\ dsPos' = sent - DsRing
       ELSE dsPos' = dsPos + 1 /\ UNCHANGED dsMissed
  /\ UNCHANGED <<dsLeft, dsAt, dsDone, dsLog, dsFailed, dsFile, dsCut, dsSeen, dsCat, dsPub, dsSub, dsWire, dsGot, dsOverflow, dsFaults>>

SourceJoin ==
  /\ ~dsSub.joined /\ dsSub' = [dsSub EXCEPT !.joined = TRUE, !.from = Len(dsLog["zmq"])]
  /\ UNCHANGED <<dsLeft, dsAt, dsDone, dsLog, dsFailed, dsFile, dsCut, dsSeen, dsCat, dsPub, dsWire, dsGot, dsPos, dsMissed, dsOverflow, dsFaults>>

\* decode_envelope: the name lies between the first two spaces.
SpaceAfter(text, i) == {j \in DOMAIN text : j > i /\ text[j] = Sp}
First(S) == CHOOSE i \in S : \A j \in S : i <= j
DecodeEnvelope(ser, env) ==
  LET p1 == SpaceAfter(env.text, 0)
      p2 == IF p1 = {} THEN {} ELSE SpaceAfter(env.text, First(p1))
      name == SubSeq(env.text, First(p1) + 1, First(p2) - 1)
  IN IF p2 # {} /\ Len(name) = 1 /\ name[1] \in Names /\ env.body.ser = ser
       THEN [ok |-> TRUE, doc |-> [env.body.doc EXCEPT !.name = name[1]]] ELSE [ok |-> FALSE]

\* run_into_engine: an envelope that does not decode is logged and skipped;
\* cancellation is looked at between messages.
SourceStep ==
  /\ ~dsSub.cancelled /\ dsWire # <<>>
  /\ dsWire' = Tail(dsWire)
  /\ LET r == DecodeEnvelope(dsSub.ser, Head(dsWire))
     IN dsGot' = IF r.ok THEN Append(dsGot, r.doc) ELSE dsGot
  /\ UNCHANGED <<dsLeft, dsAt, dsDone, dsLog, dsFailed, dsFile, dsCut, dsSeen, dsCat, dsPub, dsSub, dsPos, dsMissed, dsOverflow, dsFaults>>
SourceCancel ==
  /\ dsSub.joined /\ ~dsSub.cancelled /\ dsSub' = [dsSub EXCEPT !.cancelled = TRUE]
  /\ UNCHANGED <<dsLeft, dsAt, dsDone, dsLog, dsFailed, dsFile, dsCut, dsSeen, dsCat, dsPub, dsWire, dsGot, dsPos, dsMissed, dsOverflow, dsFaults>>

SinksNext ==
  \/ \E e \in Emitters : \/ Emit(e) \/ JsonlDispatch(e) \/ KafkaDispatch(e) \/ TiledDispatch(e)
                         \/ ZmqDispatch(e) \/ ChannelDispatch(e)
  \/ ChannelRecv \/ SourceJoin \/ SourceStep \/ SourceCancel

-----------------------------------------------------------------------------
Only(s, docs) == SelectSeq(s, LAMBDA d : d \in ToSet(docs))
Docs(e) == IF e = "engine" THEN DsScript ELSE DsPump
Without(docs, S) == SelectSeq(docs, LAMBDA d : d \notin S)

\* Every sink is served every document, in the order its emitter sent them,
\* whatever the sinks before it did and whoever else was broadcasting: what
\* it does not have, it returned an error for.
EverySinkServed ==
  \A s \in ToSet(Sinks), e \in Emitters :
    /\ IsPrefix(Only(dsLog[s], Docs(e)), Without(Docs(e), dsFailed[s]))
    /\ ToSet(dsDone[e]) \subseteq ToSet(dsLog[s]) \cup dsFailed[s]
\* A run is stopped in the catalog only after its start is there, and one
\* that was entered but is not there had its registration refused.
CatalogTrue ==
  \A r \in Runs :
    /\ dsCat[r] = "stopped" => \E d \in ToSet(dsLog["tiled"]) : d.name = "start" /\ d.run = r
    /\ r \in dsSeen /\ dsCat[r] = "none" =>
         (\E d \in dsFailed["tiled"] : d.run = r) \/ (\E e \in Emitters : dsAt[e][2] = "post")
\* Every document written without error is a line of its own or shares it
\* only with one that failed half way.
LinesHold ==
  \A i \in DOMAIN dsFile : Cardinality(ToSet(dsFile[i]) \ dsFailed["jsonl"]) <= 1
\* The second engine is given the publisher's documents, in order and under
\* their own names, whatever prefix, filter and coding the two ends use.
RelayedTrue ==
  /\ ToSet(dsGot) \subseteq ToSet(dsLog["zmq"])
  /\ \A i, j \in DOMAIN dsGot : i < j => \E a, b \in DOMAIN dsLog["zmq"] : a < b /\ dsLog["zmq"][a] = dsGot[i] /\ dsLog["zmq"][b] = dsGot[j]
  /\ dsSub.ser = dsPub.ser /\ dsSub.joined /\ IsPrefix(dsSub.filter, dsPub.prefix) /\ dsWire = <<>> =>
       dsGot = SubSeq(dsLog["zmq"], dsSub.from + 1, Len(dsLog["zmq"]))

SinksSound == EverySinkServed /\ CatalogTrue /\ LinesHold /\ RelayedTrue

\* Lag on a bounded channel is counted: every document a receiver missed is
\* in the sink's overflow count.
LagCounted == dsMissed <= dsOverflow
=============================================================================
