------------------------------ MODULE Documents ------------------------------
(***************************************************************************)
(* How the documents of one run are composed and put on the wire: the      *)
(* descriptor generations and sequence counters of RunBundle               *)
(* (event_model/compose.rs), the bundler's configuration cache and stream  *)
(* declarations (engine/bundler.rs), the engine's Save, Collect, Configure *)
(* and Monitor handlers with the validation of external assets, and the    *)
(* fan-out to sinks and subscribers (engine/run_engine.rs).  The plan and  *)
(* a monitor pump compose concurrently; each hands a document to one sink  *)
(* at a time.  Object "a" is read into "primary" and monitored into "mon", *)
(* a step detector adds the external key "img" to "primary", and a flyer   *)
(* collects the external keys "x" and "y" into "fly".                      *)
(***************************************************************************)
EXTENDS Integers, Sequences, FiniteSets, SequencesExt, FiniteSetsExt

CONSTANTS
  DcSinks,     \* the sinks, in fan-out order; the last stands for the subscribers
  DcDrains,    \* what a writer may hand over: sequences of raw asset documents
  DcOpsMax,    \* bound on plan messages
  DcConfMax,   \* bound on configuration versions
  DcPostsMax,  \* bound on readings of the monitored signal
  DcFaultsMax, \* bound on failures of devices, writers and sinks
  DcCarryOn    \* TRUE: the plan goes on after a failed message (contingency)

ASSUME DcCarryOn \in BOOLEAN

VARIABLES
  dcStreams,   \* RunBundle.streams: stream -> [desc, seq], desc 0 before it is declared
  dcDescs,     \* the descriptors minted; a uid is the place in this sequence
  dcDevice,    \* the version of a's configuration in the device
  dcCached,    \* RunBundler.config_cache for a, 0 until it is read
  dcRegistry,  \* RunBundler.stream_resource_data_keys: set of <<uid, key>>
  dcEngine,    \* the handler that runs: [at, out, sink, install, ev]
  dcPump,      \* the monitor pump: [at, ev, sink, queued]
  dcLog,       \* sink -> the documents it took
  dcLame,      \* the sinks that failed once
  dcBroken,    \* the messages that failed midway: a subset of {"configure", "save", "collect"}
  dcOps, dcPosts, dcFaults

documentVars == <<dcStreams, dcDescs, dcDevice, dcCached, dcRegistry, dcEngine, dcPump, dcLog,
                  dcLame, dcBroken, dcOps, dcPosts, dcFaults>>

DcStreamNames  == {"primary", "mon", "fly"}
ExternalKeys(s) == CASE s = "primary" -> {"img"} [] s = "fly" -> {"x", "y"} [] OTHER -> {}
HoldsA(s)      == s \in {"primary", "mon"}
DescDoc(u)     == [kind |-> "descriptor", desc |-> u]
DcIdle == [at |-> "idle", out |-> <<>>, sink |-> 1, install |-> {}, ev |-> DescDoc(0)]

-----------------------------------------------------------------------------
(* RunBundle and RunBundler.                                               *)

Declared(s) == dcStreams[s].desc # 0

\* descriptor(): the first call mints, a later one returns what is there.
Declare(s, conf) ==
  IF Declared(s) THEN UNCHANGED <<dcStreams, dcDescs>>
  ELSE /\ dcDescs' = Append(dcDescs, [stream |-> s, conf |-> conf])
       /\ dcStreams' = [dcStreams EXCEPT ![s] = [desc |-> Len(dcDescs) + 1, seq |-> 0]]

EventDoc(s, u, n, by) == [kind |-> "event", stream |-> s, desc |-> u, seq |-> n, device |-> dcDevice, by |-> by]

\* ensure_object_configuration: the cache, or the device on first use.
Ensured == IF dcCached # 0 THEN dcCached ELSE dcDevice
ConfOf(s) == IF HoldsA(s) THEN Ensured ELSE 0

\* compose_reconfigure: one candidate per declared stream that holds a; the
\* order is that of a HashMap's keys, any.
Reconfigurable == {s \in DcStreamNames : Declared(s) /\ HoldsA(s)}

-----------------------------------------------------------------------------
(* pack_external_assets over one drain: the documents stamped, or the      *)
(* error; the registry keeps what was entered before the error.            *)

Width(d) == IF d.stop > d.start THEN d.stop - d.start ELSE 0
KeyOf(reg, uid) == (CHOOSE p \in reg : p[1] = uid)[2]
Known(reg, uid) == \E p \in reg : p[1] = uid

PackStart(reg) == [ok |-> TRUE, reg |-> reg, width |-> -1, got |-> {}, out |-> <<>>]

PackResource(p, r, ext) ==
  IF Known(p.reg, r.uid) \/ r.key \notin ext THEN [p EXCEPT !.ok = FALSE]
  ELSE [p EXCEPT !.reg = @ \cup {<<r.uid, r.key>>},
                 !.out = Append(@, [kind |-> "resource", uid |-> r.uid])]

PackDatum(p, d, next, desc) ==
  IF d.filled \/ ~Known(p.reg, d.uid) \/ p.width \notin {-1, Width(d)} THEN [p EXCEPT !.ok = FALSE]
  ELSE [p EXCEPT !.width = Width(d), !.got = @ \cup {KeyOf(p.reg, d.uid)},
                 !.out = Append(@, [kind |-> "datum", uid |-> d.uid, key |-> KeyOf(p.reg, d.uid), desc |-> desc,
                                    start |-> next, stop |-> next + Width(d)])]

Pack(reg, drain, next, ext, desc) ==
  LET p == FoldLeft(LAMBDA q, d : IF ~q.ok THEN q
                                  ELSE IF d.kind = "resource" THEN PackResource(q, d, ext)
                                  ELSE PackDatum(q, d, next, desc),
                    PackStart(reg), drain)
  IN [p EXCEPT !.ok = @ /\ (p.got = {} \/ p.got = ext)]

PackedWidth(p) == IF p.width = -1 THEN 0 ELSE p.width

-----------------------------------------------------------------------------
DcInit ==
  /\ dcStreams = [s \in DcStreamNames |-> [desc |-> 0, seq |-> 0]]
  /\ dcDescs = <<>> /\ dcDevice = 1 /\ dcCached = 0 /\ dcRegistry = {}
  /\ dcEngine = DcIdle
  /\ dcPump = [at |-> "none", ev |-> DescDoc(0), sink |-> 1, queued |-> 0]
  /\ dcLog = [k \in DOMAIN DcSinks |-> <<>>]
  /\ dcLame = {} /\ dcBroken = {} /\ dcOps = 0 /\ dcPosts = 0 /\ dcFaults = 0

\* The plan issues its next message: none after a failure it does not catch.
MayIssue ==
  /\ dcEngine.at = "idle" /\ dcOps < DcOpsMax
  /\ dcBroken = {} \/ DcCarryOn
  /\ dcOps' = dcOps + 1
DcFault == dcFaults < DcFaultsMax /\ dcFaults' = dcFaults + 1

\* broadcast starts: `out` goes to sink after sink, then `install` is done.
Sends(docs, install) == dcEngine' = [DcIdle EXCEPT !.at = "send", !.out = docs, !.install = install]
Fails(what) == dcBroken' = dcBroken \cup {what} /\ dcEngine' = DcIdle

CurrentDesc(s) == IF Declared(s) THEN dcStreams[s].desc ELSE Len(dcDescs) + 1
Fresh(s)       == IF Declared(s) THEN <<>> ELSE <<DescDoc(Len(dcDescs) + 1)>>
Minted(s)      == IF Declared(s) THEN dcDescs ELSE Append(dcDescs, [stream |-> s, conf |-> ConfOf(s)])

\* DeclareStream: the descriptor goes out again when the stream was declared.
DeclareStream(s) ==
  /\ MayIssue
  /\ Declare(s, ConfOf(s))
  /\ dcCached' = IF HoldsA(s) THEN Ensured ELSE dcCached
  /\ Sends(<<DescDoc(CurrentDesc(s))>>, {})
  /\ UNCHANGED <<dcDevice, dcRegistry, dcPump, dcLog, dcLame, dcBroken, dcPosts, dcFaults>>

\* Create, Read and Save: the descriptor when the stream has none, and the
\* event, composed in one lock.
Save ==
  /\ MayIssue
  /\ dcDescs' = Minted("primary")
  /\ dcStreams' = [dcStreams EXCEPT !["primary"] = [desc |-> CurrentDesc("primary"), seq |-> @.seq + 1]]
  /\ dcCached' = Ensured
  /\ dcEngine' = [DcIdle EXCEPT !.at = "save", !.out = Fresh("primary"),
       !.ev = EventDoc("primary", CurrentDesc("primary"), dcStreams["primary"].seq + 1, "plan")]
  /\ UNCHANGED <<dcDevice, dcRegistry, dcPump, dcLog, dcLame, dcBroken, dcPosts, dcFaults>>

\* The detector's documents are drained and packed against that event; then
\* descriptor, assets, event.
SavePack(drain) ==
  /\ dcEngine.at = "save"
  /\ LET p == Pack(dcRegistry, drain, dcEngine.ev.seq, ExternalKeys("primary"), dcEngine.ev.desc)
     IN /\ dcRegistry' = p.reg
        /\ IF p.ok THEN Sends(dcEngine.out \o p.out \o <<dcEngine.ev>>, {}) /\ UNCHANGED <<dcBroken, dcFaults>>
           ELSE Fails("save") /\ DcFault
  /\ UNCHANGED <<dcStreams, dcDescs, dcDevice, dcCached, dcPump, dcLog, dcLame, dcOps, dcPosts>>

\* collect_object: a stream nobody declared is declared here.
Collect ==
  /\ MayIssue
  /\ Declare("fly", ConfOf("fly"))
  /\ dcEngine' = [DcIdle EXCEPT !.at = "declared", !.out = Fresh("fly")]
  /\ UNCHANGED <<dcDevice, dcCached, dcRegistry, dcPump, dcLog, dcLame, dcBroken, dcPosts, dcFaults>>

\* The counter is read, the drain stamped with it, and advanced by its width.
CollectPack(drain) ==
  /\ dcEngine.at = "collect"
  /\ LET st == dcStreams["fly"]
         p  == Pack(dcRegistry, drain, st.seq + 1, ExternalKeys("fly"), st.desc)
     IN /\ dcRegistry' = p.reg
        /\ IF p.ok
             THEN /\ dcStreams' = [dcStreams EXCEPT !["fly"].seq = @ + PackedWidth(p)]
                  /\ dcEngine' = [DcIdle EXCEPT !.at = "collected", !.out = p.out]
                  /\ UNCHANGED <<dcBroken, dcFaults>>
             ELSE Fails("collect") /\ DcFault /\ UNCHANGED dcStreams
  /\ UNCHANGED <<dcDescs, dcDevice, dcCached, dcPump, dcLog, dcLame, dcOps, dcPosts>>

\* collect_dyn: the index event the flyer adds.
CollectEvent ==
  /\ dcEngine.at = "events"
  /\ dcStreams' = [dcStreams EXCEPT !["fly"].seq = @ + 1]
  /\ Sends(<<EventDoc("fly", dcStreams["fly"].desc, dcStreams["fly"].seq + 1, "plan")>>, {})
  /\ UNCHANGED <<dcDescs, dcDevice, dcCached, dcRegistry, dcPump, dcLog, dcLame, dcBroken, dcOps, dcPosts, dcFaults>>

\* Configure: the device takes the new configuration, which is read back.
Configure ==
  /\ MayIssue
  /\ dcDevice < DcConfMax /\ dcDevice' = dcDevice + 1
  /\ dcEngine' = [DcIdle EXCEPT !.at = "configured"]
  /\ UNCHANGED <<dcStreams, dcDescs, dcCached, dcRegistry, dcPump, dcLog, dcLame, dcBroken, dcPosts, dcFaults>>

ConfigureUnread ==
  /\ dcEngine.at = "configured" /\ DcFault
  /\ Fails("configure")
  /\ UNCHANGED <<dcStreams, dcDescs, dcDevice, dcCached, dcRegistry, dcPump, dcLog, dcLame, dcOps, dcPosts>>

\* read_object_configuration: what the device reports now.
ReadBack == dcDevice
\* compose_redescribe: a new uid and the fresh configuration, all else kept.
NewGenerations(order) == [i \in DOMAIN order |-> [stream |-> order[i], conf |-> ReadBack]]
Installed(pairs) ==
  [s \in DcStreamNames |->
     IF \E p \in pairs : p[1] = s THEN [dcStreams[s] EXCEPT !.desc = (CHOOSE p \in pairs : p[1] = s)[2]]
     ELSE dcStreams[s]]

\* Mutant: the new generations are installed before they are broadcast.
ComposeAndInstall(order) ==
  /\ dcEngine.at = "configured"
  /\ dcCached' = ReadBack
  /\ dcDescs' = dcDescs \o NewGenerations(order)
  /\ dcStreams' = Installed({<<order[i], Len(dcDescs) + i>> : i \in DOMAIN order})
  /\ Sends([i \in DOMAIN order |-> DescDoc(Len(dcDescs) + i)], {})
  /\ UNCHANGED <<dcDevice, dcRegistry, dcPump, dcLog, dcLame, dcBroken, dcOps, dcPosts, dcFaults>>

\* The cache is refreshed and the candidates composed; they are installed
\* when every sink has them.
ComposeReconfigure(order) ==
  /\ dcEngine.at = "configured"
  /\ dcCached' = ReadBack
  /\ dcDescs' = dcDescs \o NewGenerations(order)
  /\ Sends([i \in DOMAIN order |-> DescDoc(Len(dcDescs) + i)],
           {<<order[i], Len(dcDescs) + i>> : i \in DOMAIN order})
  /\ UNCHANGED <<dcStreams, dcDevice, dcRegistry, dcPump, dcLog, dcLame, dcBroken, dcOps, dcPosts, dcFaults>>

\* start_monitor: the stream is declared and broadcast, then the pump starts.
Monitor ==
  /\ MayIssue /\ dcPump.at = "none"
  /\ Declare("mon", ConfOf("mon"))
  /\ dcCached' = Ensured
  /\ dcEngine' = [DcIdle EXCEPT !.at = "monitor", !.out = Fresh("mon")]
  /\ UNCHANGED <<dcDevice, dcRegistry, dcPump, dcLog, dcLame, dcBroken, dcPosts, dcFaults>>

-----------------------------------------------------------------------------
(* The fan-out: one sink at a time; a sink that fails is logged and passed *)
(* over.                                                                   *)

Took(k, doc, broke) == dcLog' = IF broke THEN dcLog ELSE [dcLog EXCEPT ![k] = Append(@, doc)]
Broke(k, broke) ==
  IF broke THEN DcFault /\ dcLame' = dcLame \cup {k} ELSE UNCHANGED <<dcFaults, dcLame>>

Sending == dcEngine.at \in {"send", "declared", "collected", "monitor", "stop"}
Broadcast ==
  /\ Sending /\ dcEngine.out # <<>>
  /\ \E broke \in BOOLEAN : Took(dcEngine.sink, Head(dcEngine.out), broke) /\ Broke(dcEngine.sink, broke)
  /\ dcEngine' = IF dcEngine.sink < Len(DcSinks) THEN [dcEngine EXCEPT !.sink = @ + 1]
                 ELSE [dcEngine EXCEPT !.sink = 1, !.out = Tail(@)]
  /\ UNCHANGED <<dcStreams, dcDescs, dcDevice, dcCached, dcRegistry, dcPump, dcBroken, dcOps, dcPosts>>

\* Everything is on the wire: what the handler does next.
AfterBroadcast ==
  /\ Sending /\ dcEngine.out = <<>>
  /\ dcStreams' = Installed(dcEngine.install)
  /\ dcEngine' = [DcIdle EXCEPT !.at = CASE dcEngine.at = "declared"  -> "collect"
                                        [] dcEngine.at = "collected" -> "events"
                                        [] dcEngine.at = "stop"      -> "closed"
                                        [] OTHER                     -> "idle"]
  /\ dcPump' = IF dcEngine.at = "monitor" THEN [dcPump EXCEPT !.at = "wait"] ELSE dcPump
  /\ UNCHANGED <<dcDescs, dcDevice, dcCached, dcRegistry, dcLog, dcLame, dcBroken, dcOps, dcPosts, dcFaults>>

\* The monitored signal posts a reading.
PostReading ==
  /\ dcPump.at # "none" /\ dcPosts < DcPostsMax /\ dcEngine.at \notin {"stop", "closed"}
  /\ dcPosts' = dcPosts + 1
  /\ dcPump' = [dcPump EXCEPT !.queued = @ + 1]
  /\ UNCHANGED <<dcStreams, dcDescs, dcDevice, dcCached, dcRegistry, dcEngine, dcLog, dcLame, dcBroken, dcOps, dcFaults>>

Configuring == dcEngine.at = "configured" \/ dcEngine.install # {}
\* The pump composes against the stream's current descriptor.
PumpCompose ==
  /\ dcPump.at = "wait" /\ dcPump.queued > 0
  /\ LET st == dcStreams["mon"]
     IN /\ dcStreams' = [dcStreams EXCEPT !["mon"].seq = @ + 1]
        /\ dcPump' = [at |-> "send", sink |-> 1, queued |-> dcPump.queued - 1,
                      ev |-> EventDoc("mon", st.desc, st.seq + 1, IF Configuring THEN "between" ELSE "pump")]
  /\ UNCHANGED <<dcDescs, dcDevice, dcCached, dcRegistry, dcEngine, dcLog, dcLame, dcBroken, dcOps, dcPosts, dcFaults>>

PumpSend ==
  /\ dcPump.at = "send"
  /\ \E broke \in BOOLEAN : Took(dcPump.sink, dcPump.ev, broke) /\ Broke(dcPump.sink, broke)
  /\ dcPump' = IF dcPump.sink < Len(DcSinks) THEN [dcPump EXCEPT !.sink = @ + 1]
               ELSE [dcPump EXCEPT !.at = "wait", !.sink = 1]
  /\ UNCHANGED <<dcStreams, dcDescs, dcDevice, dcCached, dcRegistry, dcEngine, dcBroken, dcOps, dcPosts>>

\* CloseRun: the pump is drained and joined, then the counters are written
\* into the stop document.
CloseRun ==
  /\ dcEngine.at = "idle"
  /\ dcPump.at \in {"none", "wait"} /\ dcPump.queued = 0
  /\ dcEngine' = [DcIdle EXCEPT !.at = "stop",
       !.out = <<[kind |-> "stop", counts |-> [s \in DcStreamNames |-> dcStreams[s].seq]]>>]
  /\ UNCHANGED <<dcStreams, dcDescs, dcDevice, dcCached, dcRegistry, dcPump, dcLog, dcLame, dcBroken, dcOps, dcPosts, dcFaults>>

Orders(set) == {o \in [1 .. Cardinality(set) -> set] : \A i, j \in DOMAIN o : i # j => o[i] # o[j]}

DocumentNext ==
  \/ \E s \in {"primary", "fly"} : DeclareStream(s)
  \/ Save \/ Collect \/ CollectEvent \/ Configure \/ ConfigureUnread \/ Monitor
  \/ \E d \in DcDrains["save"] : SavePack(d)
  \/ \E d \in DcDrains["collect"] : CollectPack(d)
  \/ \E o \in Orders(Reconfigurable) : ComposeReconfigure(o)
  \/ Broadcast \/ AfterBroadcast \/ PostReading \/ PumpCompose \/ PumpSend \/ CloseRun

-----------------------------------------------------------------------------
Healthy == DOMAIN DcSinks \ dcLame
At(k, kind) == {i \in DOMAIN dcLog[k] : dcLog[k][i].kind = kind}

\* No sink is handed an event or a datum before the descriptor it names, nor
\* a datum before its resource, whichever of plan and pump composed it and
\* however their deliveries interleave (compose.rs: "hold by construction").
DescriptorFirst ==
  \A k \in Healthy : \A i \in At(k, "event") \cup At(k, "datum") :
    /\ \E j \in At(k, "descriptor") : j < i /\ dcLog[k][j].desc = dcLog[k][i].desc
    /\ dcLog[k][i].kind = "datum" =>
         \E j \in At(k, "resource") : j < i /\ dcLog[k][j].uid = dcLog[k][i].uid

\* An event names the descriptor that carries the configuration its object
\* had when it was composed, unless a Configure is under way or failed after
\* it had changed the device.
ConfigurationTrue ==
  \A k \in DOMAIN DcSinks : \A i \in At(k, "event") :
    LET e == dcLog[k][i]
    IN (HoldsA(e.stream) /\ e.by # "between" /\ "configure" \notin dcBroken) => dcDescs[e.desc].conf = e.device

\* The sequence numbers of a stream form one axis: events never repeat or
\* skip a number across descriptor generations, and the spans stamped on the
\* datums of a collected stream's keys tile it together with its events.
EventsOf(k, s) == SelectSeq(dcLog[k], LAMBDA d : d.kind = "event" /\ d.stream = s)
SpansOf(k, key) == SelectSeq(dcLog[k], LAMBDA d : d.kind = "datum" /\ d.key = key)
OneAxis ==
  \A k \in Healthy :
    /\ \A s \in {"primary", "mon"} :
         dcBroken = {} => \A i \in DOMAIN EventsOf(k, s) : EventsOf(k, s)[i].seq = i
    /\ \A x \in ExternalKeys("fly") :
         LET sp == SpansOf(k, x)
         IN /\ \A i, j \in DOMAIN sp : i < j => sp[i].stop <= sp[j].start
            /\ \A i \in DOMAIN sp, e \in ToSet(EventsOf(k, "fly")) : e.seq \notin sp[i].start .. sp[i].stop - 1

\* The counts of the stop document are what a sink received: the events of
\* each stream, and for the collected one the frames of every external key.
Frames(k, key) == FoldLeft(LAMBDA n, d : n + d.stop - d.start, 0, SpansOf(k, key))
StopCounts ==
  \A k \in Healthy : \A i \in At(k, "stop") : dcBroken = {} =>
    /\ \A s \in {"primary", "mon"} : dcLog[k][i].counts[s] = Len(EventsOf(k, s))
    /\ \A x \in ExternalKeys("fly") :
         dcLog[k][i].counts["fly"] = Frames(k, x) + Len(EventsOf(k, "fly"))

DocumentsSound == DescriptorFirst /\ ConfigurationTrue /\ OneAxis /\ StopCounts

=============================================================================
