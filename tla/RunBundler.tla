----------------------------- MODULE RunBundler -----------------------------
(***************************************************************************)
(* One open run: engine/bundler.rs (RunBundler), the sequence counters of  *)
(* event_model/compose.rs (RunBundle) and the registries that              *)
(* engine/run_engine.rs keeps beside them (RunSlot), as operators on one   *)
(* record:                                                                 *)
(*                                                                         *)
(*   uid          the RunStart uid                                         *)
(*   open         the bundle between create and save: its stream and the   *)
(*                objects read into it, or NoBundle                        *)
(*   declared     the streams with a descriptor                            *)
(*   seq          the sequence counter of each stream; 0 while undeclared  *)
(*   snap         the counters at the last checkpoint reset, or NoSnapshot *)
(*   monitored    the monitor registrations, kept across a pause           *)
(*   pumps        the live monitor tasks                                   *)
(*   uncollected  the flyers kicked off and not yet collected              *)
(*                                                                         *)
(* What a document says beyond its stream and sequence number is left out. *)
(***************************************************************************)
EXTENDS Naturals

CONSTANTS
    Streams,     \* names a plan may create or declare
    Devices,     \* movable, readable, stageable and monitorable objects
    Flyers       \* flyable, collectable objects

(* A monitor and a collect each write to a stream named after the object. *)
Interruptions == "interruptions"
AllStreams == Streams \cup Devices \cup Flyers \cup {Interruptions}

NoBundle   == [stream |-> Interruptions, objs |-> {}]
NoSnapshot == [n \in {} |-> 0]

(* RunSlot::new(RunBundler::new(..)); the interruptions stream is declared *)
(* at open, when recording is on.                                          *)
NewSlot(uid, recording) ==
    [uid |-> uid, open |-> NoBundle,
     declared |-> IF recording THEN {Interruptions} ELSE {},
     seq |-> [n \in AllStreams |-> 0], snap |-> NoSnapshot,
     monitored |-> {}, pumps |-> {}, uncollected |-> {}]

IsBundling(slot) == slot.open # NoBundle

(* create; the caller has checked that no bundle is open. *)
Create(slot, stream) ==
    [slot EXCEPT !.open = [stream |-> stream, objs |-> {}]]

(* add_read: an object read twice into one bundle collides with itself. *)
Collides(slot, obj) == obj \in slot.open.objs
AddRead(slot, obj) == [slot EXCEPT !.open.objs = @ \cup {obj}]

DropBundle(slot) == [slot EXCEPT !.open = NoBundle]

(* declare_stream / prepare_stream: a second declaration changes nothing. *)
DeclareStream(slot, stream) == [slot EXCEPT !.declared = @ \cup {stream}]

(* RunBundle::event: the counter moves, and its new value is the number of *)
(* the event.                                                              *)
ComposeEvent(slot, stream) ==
    [slot EXCEPT !.declared = @ \cup {stream}, !.seq[stream] = @ + 1]

(* save: an empty bundle closes without an event. *)
HasEvent(slot) == slot.open.objs # {}
SaveAdvancing(slot) ==           \* mutant: an empty bundle takes a number
    DropBundle(ComposeEvent(slot, slot.open.stream))
Save(slot) == IF HasEvent(slot)
              THEN DropBundle(ComposeEvent(slot, slot.open.stream))
              ELSE DropBundle(slot)

(* reset_checkpoint_state, clear_checkpoint. *)
ResetCheckpoint(slot) == [slot EXCEPT !.snap = slot.seq]
ClearCounters(slot) ==           \* mutant: the counters go too
    [slot EXCEPT !.snap = NoSnapshot, !.seq = NoSnapshot]
ClearSnapshot(slot) == [slot EXCEPT !.snap = NoSnapshot]

(* rewind: the open bundle is cancelled and the counters return to the     *)
(* snapshot, when there is one; a stream declared since returns to 0.      *)
RewindToZero(slot) ==            \* mutant: the snapshot is not used
    [slot EXCEPT !.open = NoBundle, !.seq = [n \in AllStreams |-> 0]]
Rewind(slot) ==
    [slot EXCEPT !.open = NoBundle,
                 !.seq = IF slot.snap = NoSnapshot THEN @ ELSE slot.snap]

=============================================================================
