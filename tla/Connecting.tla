------------------------------ MODULE Connecting ------------------------------
(***************************************************************************)
(* How a device tree connects and is waited for: ConnectOnce and             *)
(* wait_for_connection (devices/device.rs) over the trees of                 *)
(* host/areadetector.rs, set_and_wait_for_other_value (devices/observe.rs)   *)
(* and the conditions of a suspender (engine/suspender.rs).                  *)
(* Attempts end when the backend answers; the backend is external.           *)
(***************************************************************************)
EXTENDS Integers, FiniteSets, Sequences, FiniteSetsExt, SequencesExt

CONSTANTS CnCallers,     \* tasks that connect and wait
          CnAttemptsMax, \* bound on connection attempts started
          CnPostsMax     \* bound on values the watched signal posts

ASSUME ConnectingBounds == CnAttemptsMax \in Nat /\ CnPostsMax \in Nat

----------------------------------------------------------------------------
(* Device trees: each device lists its children; a name without children is a *)
(* signal.                                                                    *)
CamSignals == {"image_mode", "num_images", "acquire", "acquire_time", "acquire_period",
               "array_counter", "detector_state", "nd_attributes_file", "wait_for_plugins"}
FrameInfoSignals == {"shape0", "shape1", "shape2", "data_type", "color_mode"}
PluginSignals == {"enable_callbacks", "blocking_callbacks", "nd_array_port", "queue_size"}
FileSignals == {"file_path", "file_name", "file_template", "auto_increment", "file_write_mode",
                "capture", "num_capture", "num_captured", "full_file_name", "file_number",
                "file_path_exists", "create_directory"}
Hdf5Signals == {"num_frames_chunks", "chunk_size_auto", "lazy_open", "swmr_mode",
                "num_extra_dims", "xml_file_name", "flush_now"}
StatsSignals == {"compute_statistics", "compute_centroid", "compute_profiles",
                 "compute_histogram", "total"}
RoiSignals == {"min_x", "min_y", "size_x", "size_y", "enable_x", "enable_y"}

Cam == CamSignals \cup {"frame_info"}
Hdf5 == Hdf5Signals \cup {"file"}
DetectorRoots == {"cam", "hdf", "stats", "roi"}
ChildrenOf(n) ==
    CASE n = "detector" -> DetectorRoots
      [] n = "cam" -> Cam
      [] n = "frame_info" -> FrameInfoSignals
      [] n = "hdf" -> Hdf5
      [] n = "file" -> FileSignals \cup {"plugin"}
      [] n = "plugin" -> PluginSignals
      [] n = "stats" -> StatsSignals \cup {"plugin"}
      [] n = "roi" -> RoiSignals \cup {"plugin"}
      [] OTHER -> {}

\* wait_for_connection: every child is awaited; the error names, level by level,
\* each child that failed.  A failure is the path from the root to it.
Reports(n, failing) ==
    LET R[k \in 0 .. 4, m \in {n} \cup UNION {ChildrenOf(x) : x \in
             {"detector", "cam", "frame_info", "hdf", "file", "plugin", "stats", "roi"}}] ==
          IF ChildrenOf(m) = {} THEN IF m \in failing THEN {<<m>>} ELSE {}
          ELSE IF k = 0 THEN {}
          ELSE {<<m>> \o p : p \in UNION {R[k - 1, c] : c \in ChildrenOf(m)}}
    IN  R[4, n]

\* What the report is for: a leaf fails the tree exactly when it is reported, and
\* a tree that reports nothing has no leaf that failed.
LeavesOf(n) == {p[Len(p)] : p \in Reports(n, UNION {ChildrenOf(x) : x \in
    {"cam", "frame_info", "hdf", "file", "plugin", "stats", "roi"}})}

----------------------------------------------------------------------------
VARIABLES cnSlot,    \* ConnectOnce: the attempt in the slot, 0 if none
          cnTry,     \* attempt -> [state, fails]
          cnCall,    \* caller -> [at, try]
          cnPosts,   \* values posted by the watched signal
          cnWait,    \* the waiter of set_and_wait_for_other_value
          cnHold,    \* the watch of a suspender: [at, seen]
          cnKind,    \* its predicate
          cnDelay,   \* whether it has a resume delay
          cnGone     \* whether the source was dropped
connectVars == <<cnSlot, cnTry, cnCall, cnPosts, cnKind, cnDelay, cnGone, cnWait, cnHold>>
cnTree == <<cnSlot, cnTry, cnCall>>
cnWatch == <<cnPosts, cnKind, cnDelay, cnGone, cnWait, cnHold>>

ConnectInit ==
    /\ cnSlot = 0 /\ cnTry = <<>>
    /\ cnCall = [c \in CnCallers |-> [at |-> "idle", try |-> 0]]
    /\ cnPosts = <<0>>
    /\ cnWait = [at |-> "idle", from |-> 0, seen |-> 0]
    /\ cnHold = [at |-> "idle", seen |-> 0]
    /\ cnKind \in {"high", "low", "above", "below", "band", "changed", "changed_resume"}
    /\ cnDelay \in BOOLEAN /\ cnGone = FALSE

----------------------------------------------------------------------------
(* ConnectOnce::join *)

\* The attempt in the slot is joined unless the caller forces a new one or it has
\* been seen to fail.
Joins(force) == cnSlot # 0 /\ ~force /\ cnTry[cnSlot].state # "failed"
Join(c, force) ==
    /\ cnCall[c].at \in {"idle", "failed"}
    /\ IF Joins(force)
       THEN /\ cnCall' = [cnCall EXCEPT ![c] = [at |-> "waiting", try |-> cnSlot]]
            /\ UNCHANGED <<cnSlot, cnTry>>
       ELSE /\ Len(cnTry) < CnAttemptsMax
            /\ \E failing \in {{}, {"capture"}, {"enable_callbacks", "total"}} :
                 cnTry' = Append(cnTry, [state |-> "running", fails |-> failing])
            /\ cnSlot' = Len(cnTry) + 1
            /\ cnCall' = [cnCall EXCEPT ![c] = [at |-> "waiting", try |-> Len(cnTry) + 1]]
    /\ UNCHANGED <<cnWatch>>

\* The spawned attempt ends, whoever still waits for it.
AttemptEnds(t) ==
    /\ cnTry[t].state = "running"
    /\ cnTry' = [cnTry EXCEPT ![t].state =
                   IF Reports("detector", cnTry[t].fails) = {} THEN "connected" ELSE "failed"]
    /\ UNCHANGED <<cnSlot, cnCall, cnWatch>>

JoinReturns(c) ==
    /\ cnCall[c].at = "waiting" /\ cnTry[cnCall[c].try].state # "running"
    /\ cnCall' = [cnCall EXCEPT ![c].at = cnTry[cnCall[c].try].state]
    /\ UNCHANGED <<cnSlot, cnTry, cnWatch>>

\* The caller's own timeout drops its future, not the attempt.
JoinDropped(c) ==
    /\ cnCall[c].at = "waiting"
    /\ cnCall' = [cnCall EXCEPT ![c] = [at |-> "idle", try |-> 0]]
    /\ UNCHANGED <<cnSlot, cnTry, cnWatch>>

----------------------------------------------------------------------------
(* A signal posts values (1 is the wanted one); every subscription *)
(* has them all, in order.                                                    *)
CnPost(v) ==
    /\ ~cnGone /\ Len(cnPosts) <= CnPostsMax /\ cnPosts' = Append(cnPosts, v)
    /\ UNCHANGED <<cnKind, cnDelay, cnGone, cnWait, cnHold, cnTree>>

\* set_and_wait_for_other_value: the first value is in hand before the set, so
\* that a change the set causes is behind it, even one already undone.
WaitSubscribes ==
    /\ cnWait.at = "idle" /\ cnWait' = [at |-> "first", from |-> Len(cnPosts), seen |-> Len(cnPosts)]
    /\ UNCHANGED <<cnPosts, cnKind, cnDelay, cnGone, cnHold, cnTree>>
\* (the set: the signal goes to the wanted value, and may come back at once)
FirstThenSet ==
    /\ cnWait.at = "first" /\ cnWait' = [cnWait EXCEPT !.at = "set"]
    /\ cnPosts' \in {cnPosts \o <<1>>, cnPosts \o <<1, 0>>}
    /\ UNCHANGED <<cnKind, cnDelay, cnGone, cnHold, cnTree>>
SetThenFirst ==
    /\ cnWait.at = "first"
    /\ cnPosts' \in {cnPosts \o <<1>>, cnPosts \o <<1, 0>>}
    /\ cnWait' = [at |-> "set", from |-> Len(cnPosts'), seen |-> Len(cnPosts')]
    /\ UNCHANGED <<cnKind, cnDelay, cnGone, cnHold, cnTree>>
WaitSets == FirstThenSet
\* next_match
WaitReceives ==
    /\ cnWait.at = "set"
    /\ IF cnPosts[cnWait.seen] = 1 THEN cnWait' = [cnWait EXCEPT !.at = "matched"]
       ELSE cnWait.seen < Len(cnPosts) /\ cnWait' = [cnWait EXCEPT !.seen = @ + 1]
    /\ UNCHANGED <<cnPosts, cnKind, cnDelay, cnGone, cnHold, cnTree>>

\* The values a suspender calls bad: a bool high or low, a number beyond a
\* threshold (1) or outside a band (0, 2), any but the expected one (1).
BoolBad(kind, v) == IF kind = "high" THEN v # 0 ELSE v = 0
ThresholdBad(kind, v) == IF kind = "above" THEN v > 1 ELSE v < 1
BandBad(v) == v <= 0 \/ v >= 2
ChangedBad(v) == v # 1
Bad(v) ==
    CASE cnKind \in {"high", "low"} -> BoolBad(cnKind, v)
      [] cnKind \in {"above", "below"} -> ThresholdBad(cnKind, v)
      [] cnKind = "band" -> BandBad(v)
      [] cnKind \in {"changed", "changed_resume"} -> ChangedBad(v)
\* Without allow_resume a changed value is lifted by hand only.
AutoResumes == cnKind # "changed"

\* Mutant: a listener misses the value the source has when it joins.
ListensFromNext == Len(cnPosts)
\* Fanout::listen: the first value received is the one the source has now.
ListensFrom == Len(cnPosts) - 1
HoldListens ==
    /\ cnHold.at = "idle" /\ ~cnGone /\ cnHold' = [at |-> "armed", seen |-> ListensFrom]
    /\ UNCHANGED <<cnPosts, cnKind, cnDelay, cnGone, cnWait, cnTree>>
\* await_bad
HoldTrips ==
    /\ cnHold.at = "armed" /\ cnHold.seen < Len(cnPosts)
    /\ cnHold' = [at |-> IF Bad(cnPosts[cnHold.seen + 1]) THEN "tripped" ELSE "armed", seen |-> cnHold.seen + 1]
    /\ UNCHANGED <<cnPosts, cnKind, cnDelay, cnGone, cnWait, cnTree>>
\* watch: a listener of its own, begun later; closed if the source is gone.
HoldWatches ==
    /\ cnHold.at = "tripped" /\ AutoResumes
    /\ cnHold' = IF cnGone THEN [cnHold EXCEPT !.at = "closed"] ELSE [at |-> "bad", seen |-> ListensFrom]
    /\ UNCHANGED <<cnPosts, cnKind, cnDelay, cnGone, cnWait, cnTree>>
\* await_good_stable: a good value lifts, at once or after a delay that any
\* value restarts.
HoldReceives ==
    /\ cnHold.at \in {"bad", "delay"} /\ cnHold.seen < Len(cnPosts)
    /\ cnHold' = [at |-> CASE Bad(cnPosts[cnHold.seen + 1]) -> "bad" [] cnDelay -> "delay" [] OTHER -> "lifted",
                  seen |-> cnHold.seen + 1]
    /\ UNCHANGED <<cnPosts, cnKind, cnDelay, cnGone, cnWait, cnTree>>
\* The sleep ends; a value that arrives at that moment may be left unread.
HoldReleases ==
    /\ cnHold.at = "delay"
    /\ cnHold' = [cnHold EXCEPT !.at = "lifted"]
    /\ UNCHANGED <<cnPosts, cnKind, cnDelay, cnGone, cnWait, cnTree>>
\* The source is dropped by its producers: what waits for good is let go, what
\* waits for bad never ends.
SourceDrops ==
    /\ ~cnGone /\ cnGone' = TRUE
    /\ UNCHANGED <<cnPosts, cnKind, cnDelay, cnHold, cnWait, cnTree>>
HoldCloses ==
    /\ cnGone /\ cnHold.at \in {"bad", "delay"} /\ cnHold.seen = Len(cnPosts)
    /\ cnHold' = [cnHold EXCEPT !.at = "closed"]
    /\ UNCHANGED <<cnPosts, cnKind, cnDelay, cnGone, cnWait, cnTree>>

ConnectNext ==
    \/ \E c \in CnCallers : \/ \E f \in BOOLEAN : Join(c, f)
                            \/ JoinReturns(c) \/ JoinDropped(c)
    \/ \E t \in DOMAIN cnTry : AttemptEnds(t)

WatchNext ==
    \/ (\E v \in 0 .. 2 : CnPost(v)) \/ WaitSubscribes \/ WaitSets \/ WaitReceives
    \/ HoldListens \/ HoldTrips \/ HoldWatches \/ HoldReceives \/ HoldReleases \/ SourceDrops \/ HoldCloses

----------------------------------------------------------------------------
\* A device is reported connected exactly when every signal of its tree, at any
\* depth, connected in the attempt that the caller joined, whoever started it and
\* whoever stopped waiting for it.
ConnectedMeansAll ==
    \A c \in CnCallers :
      /\ cnCall[c].at = "connected" => cnTry[cnCall[c].try].fails \cap LeavesOf("detector") = {}
      /\ cnCall[c].at = "failed" => cnTry[cnCall[c].try].fails \cap LeavesOf("detector") # {}

\* The waiter of a set sees the change the set caused, even one undone before it
\* was looked for: with everything received, it has matched.
SetChangeSeen ==
    cnWait.at = "set" => \E k \in cnWait.seen .. Len(cnPosts) : cnPosts[k] = 1

\* A suspender that has received everything and whose signal is bad is not
\* armed: it tripped, whether the value came before or after it began.
TripsOnBad ==
    cnHold.at \in {"armed", "delay"} /\ cnHold.seen = Len(cnPosts) => ~Bad(cnPosts[Len(cnPosts)])
\* A suspension of a source that lives lifts by itself only on a good value,
\* the last it was given, and one that is to be lifted by hand never does.
LiftsOnGood ==
    /\ cnHold.at = "lifted" => AutoResumes /\ ~Bad(cnPosts[cnHold.seen])
    /\ cnHold.at = "closed" => cnGone

ConnectSound == ConnectedMeansAll /\ SetChangeSeen /\ TripsOnBad /\ LiftsOnGood
=============================================================================
