------------------------------- MODULE Staging -------------------------------
(***************************************************************************)
(* Staging of a StandardReadable (devices/standard_readable.rs) whose      *)
(* children carry stage_sigs (devices/stage_sigs.rs), as the area-detector *)
(* plugins do (select_save_plugin, num_rois in host/areadetector.rs).      *)
(* Every put is awaited, so the children of one parent stage side by side; *)
(* a put may fail, and may have reached the IOC all the same.  Settings    *)
(* are made and cleared at any time, on other threads too, and the future  *)
(* of a stage or unstage may be dropped at any await.                      *)
(***************************************************************************)
EXTENDS Integers, FiniteSets, Sequences, SequencesExt

CONSTANTS StgDevices,      \* the children, in the order they are offered
          StgSignals,      \* device -> its signals, in the order settings are made
          StgHints,        \* device -> the hint fields it brings
          StgSetsMax,      \* bound on settings made
          StgFaultsMax,    \* bound on failing gets and puts and on dropped futures
          StgRoundsMax     \* bound on stagings of the parent

ASSUME StagingBounds ==
  /\ StgSetsMax \in Nat /\ StgFaultsMax \in Nat /\ StgRoundsMax \in Nat
  /\ StgDevices \in Seq(Range(StgDevices)) /\ DOMAIN StgSignals = Range(StgDevices)
  /\ \A d, e \in Range(StgDevices) : d # e => Range(StgSignals[d]) \cap Range(StgSignals[e]) = {}

VARIABLES stgVal,      \* signal -> its value in the IOC (0: as it was found)
          stgList,     \* device -> settings in insertion order
          stgObj,      \* setting -> [sig, want, orig]; orig 0-based, NoOrig if none is held
          stgFlag,     \* device -> StageSigs.staged
          stgTask,     \* device -> [op, i, list, got]
          stgKids,     \* the parent's stageables, in order
          stgFields,   \* the parent's hints
          stgOffered,  \* how many children were offered
          stgDirty,    \* signals a put of which has failed or was given up
          stgLost,     \* signals whose setting was replaced or cleared while its device was staged
          stgAsked,    \* what was last asked of the parent: "stage", "unstage" or "none"
          stgErrs,     \* device -> an error is to be reported
          stgFaults, stgRounds
stagingVars == <<stgVal, stgList, stgObj, stgFlag, stgTask, stgKids, stgFields, stgOffered,
                 stgDirty, stgLost, stgAsked, stgErrs, stgFaults, stgRounds>>

AllStgSignals == UNION {Range(StgSignals[d]) : d \in Range(StgDevices)}
StgDevs == Range(StgDevices)
NoOrig == -1
StgRest == [op |-> "rest", i |-> 0, list |-> <<>>, got |-> NoOrig]

StagingInit ==
    /\ stgVal = [s \in AllStgSignals |-> 0]
    /\ stgList = [d \in StgDevs |-> <<>>] /\ stgObj = <<>>
    /\ stgFlag = [d \in StgDevs |-> FALSE]
    /\ stgTask = [d \in StgDevs |-> StgRest]
    /\ stgKids = <<>> /\ stgFields = {} /\ stgOffered = 0 /\ stgDirty = {} /\ stgLost = {}
    /\ stgAsked = "none" /\ stgErrs = [d \in StgDevs |-> FALSE]
    /\ stgFaults = 0 /\ stgRounds = 0

----------------------------------------------------------------------------
(* Configuration of the parent and of the settings *)

\* add_hints refuses a field that is already there; add_child asks it first, so
\* that a refused child is neither read nor staged.  Children are added before
\* the parent is shared.
HintsFree(d) == StgHints[d] \cap stgFields = {}
AddChild ==
    /\ stgOffered < Len(StgDevices) /\ stgAsked = "none"
    /\ LET d == StgDevices[stgOffered + 1]
       IN  /\ stgOffered' = stgOffered + 1
           /\ IF HintsFree(d)
              THEN stgKids' = Append(stgKids, d) /\ stgFields' = stgFields \cup StgHints[d]
              ELSE UNCHANGED <<stgKids, stgFields>>
    /\ UNCHANGED <<stgVal, stgList, stgObj, stgFlag, stgTask, stgDirty, stgLost, stgAsked, stgErrs,
                   stgFaults, stgRounds>>

StgAtRest == \A d \in StgDevs : stgTask[d] = StgRest

\* StageSigs::set, push: a setting of the same signal is replaced by a new one
\* that holds no original.  While the device is staged what the old one held is
\* lost; a stage or unstage under way goes on with the list it cloned.
SlotOf(d, s) == {k \in DOMAIN stgList[d] : stgObj[stgList[d][k]].sig = s}
LostOf(d, sigs) == IF stgFlag[d] THEN sigs ELSE {}
StgSet(d, s) ==
    /\ s \in Range(StgSignals[d]) /\ Len(stgObj) < StgSetsMax
    /\ stgObj' = Append(stgObj, [sig |-> s, want |-> Len(stgObj) + 1, orig |-> NoOrig])
    /\ stgList' = [stgList EXCEPT ![d] =
                     IF SlotOf(d, s) = {} THEN Append(@, Len(stgObj) + 1)
                     ELSE [k \in DOMAIN @ |-> IF k \in SlotOf(d, s) THEN Len(stgObj) + 1 ELSE @[k]]]
    /\ stgLost' = stgLost \cup LostOf(d, IF SlotOf(d, s) = {} THEN {} ELSE {s})
    /\ UNCHANGED <<stgVal, stgFlag, stgTask, stgKids, stgFields, stgOffered, stgDirty, stgAsked, stgErrs,
                   stgFaults, stgRounds>>

\* StageSigs::clear: nothing is restored.
StgClear(d) ==
    /\ stgList[d] # <<>>
    /\ stgList' = [stgList EXCEPT ![d] = <<>>]
    /\ stgLost' = stgLost \cup LostOf(d, {stgObj[o].sig : o \in Range(stgList[d])})
    /\ UNCHANGED <<stgVal, stgObj, stgFlag, stgTask, stgKids, stgFields, stgOffered, stgDirty, stgAsked, stgErrs,
                   stgFaults, stgRounds>>

----------------------------------------------------------------------------
(* StandardReadable::stage and unstage: every child at once, all awaited. *)

\* StageSigs::stage: a second staging is refused before anything is read.
BeginStage(d) ==
    IF stgFlag[d] THEN StgRest ELSE [op |-> "read", i |-> 1, list |-> stgList[d], got |-> NoOrig]
ParentStage ==
    /\ stgOffered = Len(StgDevices) /\ StgAtRest /\ stgRounds < StgRoundsMax
    /\ stgRounds' = stgRounds + 1 /\ stgAsked' = "stage"
    /\ stgTask' = [d \in StgDevs |-> IF d \in Range(stgKids) THEN BeginStage(d) ELSE StgRest]
    /\ stgFlag' = [d \in StgDevs |-> stgFlag[d] \/ d \in Range(stgKids)]
    /\ stgErrs' = [d \in StgDevs |-> d \in Range(stgKids) /\ stgFlag[d]]
    /\ UNCHANGED <<stgVal, stgList, stgObj, stgKids, stgFields, stgOffered, stgDirty, stgLost, stgFaults>>

\* StageSigs::unstage, staged or not: every setting is restored, last first.
BeginUnstage(d) == [op |-> "restore", i |-> Len(stgList[d]), list |-> stgList[d], got |-> NoOrig]
ParentUnstage ==
    /\ stgOffered = Len(StgDevices) /\ StgAtRest /\ stgAsked' = "unstage"
    /\ stgTask' = [d \in StgDevs |-> IF d \in Range(stgKids) THEN BeginUnstage(d) ELSE StgRest]
    /\ stgErrs' = [d \in StgDevs |-> FALSE]
    /\ UNCHANGED <<stgVal, stgList, stgObj, stgFlag, stgKids, stgFields, stgOffered, stgDirty, stgLost,
                   stgFaults, stgRounds>>

----------------------------------------------------------------------------
(* The steps of one child, between two awaits *)
stgKept == <<stgList, stgKids, stgFields, stgOffered, stgLost, stgAsked, stgRounds>>
SettingOf(d) == stgTask[d].list[stgTask[d].i]
SigOf(d) == stgObj[SettingOf(d)].sig
MoreSettings(d) == stgTask[d].i \in DOMAIN stgTask[d].list
StgFault == stgFaults < StgFaultsMax /\ stgFaults' = stgFaults + 1

\* On a failure the settings already applied are restored in reverse.
TaskAt(d, op, i, got) == [op |-> op, i |-> i, list |-> stgTask[d].list, got |-> got]
RollBack(d) == TaskAt(d, "rollback", stgTask[d].i - 1, NoOrig)
LeaveApplied(d) == TaskAt(d, "rollback", 0, NoOrig)
OnApplyFailure(d) == RollBack(d)

\* TypedStageSetting::apply: the current value is read, the desired one put, and
\* the original recorded once the put has succeeded.
ApplyRead(d) ==
    /\ stgTask[d].op = "read" /\ MoreSettings(d)
    /\ \/ /\ stgTask' = [stgTask EXCEPT ![d] = TaskAt(d, "put", stgTask[d].i, stgVal[SigOf(d)])]
          /\ UNCHANGED <<stgErrs, stgFaults>>
       \/ /\ StgFault /\ stgErrs' = [stgErrs EXCEPT ![d] = TRUE]
          /\ stgTask' = [stgTask EXCEPT ![d] = OnApplyFailure(d)]
    /\ UNCHANGED <<stgVal, stgObj, stgFlag, stgDirty, stgKept>>

ApplyPut(d) ==
    /\ stgTask[d].op = "put"
    /\ \/ /\ stgVal' = [stgVal EXCEPT ![SigOf(d)] = stgObj[SettingOf(d)].want]
          /\ stgObj' = [stgObj EXCEPT ![SettingOf(d)].orig = stgTask[d].got]
          /\ stgTask' = [stgTask EXCEPT ![d] = TaskAt(d, "read", stgTask[d].i + 1, NoOrig)]
          /\ UNCHANGED <<stgDirty, stgErrs, stgFaults>>
       \/ /\ StgFault /\ stgErrs' = [stgErrs EXCEPT ![d] = TRUE]
          /\ stgDirty' = stgDirty \cup {SigOf(d)}
          /\ stgVal' \in {stgVal, [stgVal EXCEPT ![SigOf(d)] = stgObj[SettingOf(d)].want]}
          /\ stgTask' = [stgTask EXCEPT ![d] = OnApplyFailure(d)]
          /\ UNCHANGED stgObj
    /\ UNCHANGED <<stgFlag, stgKept>>

\* All applied: the child is staged.
StageDone(d) ==
    /\ stgTask[d].op = "read" /\ ~MoreSettings(d)
    /\ stgTask' = [stgTask EXCEPT ![d] = StgRest]
    /\ UNCHANGED <<stgVal, stgObj, stgFlag, stgDirty, stgErrs, stgFaults, stgKept>>

\* TypedStageSetting::restore: the original is taken, then put; in a rollback
\* (which stops at the first setting) and in an unstage an error does not stop it.
Restore(d) ==
    /\ stgTask[d].op \in {"rollback", "restore"} /\ MoreSettings(d)
    /\ LET o == stgObj[SettingOf(d)].orig
       IN  /\ stgObj' = [stgObj EXCEPT ![SettingOf(d)].orig = NoOrig]
           /\ stgTask' = [stgTask EXCEPT ![d] = TaskAt(d, stgTask[d].op, stgTask[d].i - 1, NoOrig)]
           /\ \/ /\ stgVal' = IF o = NoOrig THEN stgVal ELSE [stgVal EXCEPT ![SigOf(d)] = o]
                 /\ UNCHANGED <<stgDirty, stgErrs, stgFaults>>
              \/ /\ o # NoOrig /\ StgFault
                 /\ stgDirty' = stgDirty \cup {SigOf(d)}
                 /\ stgVal' \in {stgVal, [stgVal EXCEPT ![SigOf(d)] = o]}
                 /\ stgErrs' = [stgErrs EXCEPT ![d] = TRUE]
    /\ UNCHANGED <<stgFlag, stgKept>>

RestoreDone(d) ==
    /\ stgTask[d].op \in {"rollback", "restore"} /\ ~MoreSettings(d)
    /\ stgTask' = [stgTask EXCEPT ![d] = StgRest]
    /\ stgFlag' = [stgFlag EXCEPT ![d] = FALSE]
    /\ UNCHANGED <<stgVal, stgObj, stgDirty, stgErrs, stgFaults, stgKept>>

\* The parent's future is dropped and with it every child's, at the await it is
\* at: the devices stay flagged, and the puts given up, the one of an apply or of
\* a restore that had taken its original, may have reached the IOC.
RestoresPut == {d \in StgDevs : /\ stgTask[d].op \in {"rollback", "restore"} /\ MoreSettings(d)
                                /\ stgObj[SettingOf(d)].orig # NoOrig}
ParentDropped ==
    /\ ~StgAtRest /\ StgFault
    /\ stgTask' = [d \in StgDevs |-> StgRest] /\ stgAsked' = "none"
    /\ \E D \in SUBSET RestoresPut :
         LET puts  == {d \in StgDevs : stgTask[d].op = "put"}
             given == {SigOf(d) : d \in puts \cup D}
         IN  /\ stgDirty' = stgDirty \cup given
             /\ stgObj' = [o \in DOMAIN stgObj |->
                             IF o \in {SettingOf(d) : d \in D} THEN [stgObj[o] EXCEPT !.orig = NoOrig] ELSE stgObj[o]]
             /\ \E arrived \in SUBSET (puts \cup D) :
                  stgVal' = [s \in AllStgSignals |->
                               IF \E d \in arrived : SigOf(d) = s
                               THEN LET d == CHOOSE e \in arrived : SigOf(e) = s
                                    IN  IF d \in puts THEN stgObj[SettingOf(d)].want ELSE stgObj[SettingOf(d)].orig
                               ELSE stgVal[s]]
    /\ UNCHANGED <<stgList, stgFlag, stgKids, stgFields, stgOffered, stgLost, stgErrs, stgRounds>>

StagingNext ==
    \/ AddChild \/ ParentStage \/ ParentUnstage \/ ParentDropped
    \/ \E d \in StgDevs, s \in AllStgSignals : StgSet(d, s)
    \/ \E d \in StgDevs : StgClear(d)
    \/ \E d \in StgDevs : ApplyRead(d) \/ ApplyPut(d) \/ StageDone(d) \/ Restore(d) \/ RestoreDone(d)

StagingSpec == StagingInit /\ [][StagingNext]_stagingVars

----------------------------------------------------------------------------
\* What staging cannot be held to: a put to that very signal failed or was given
\* up, or its setting was replaced or cleared while the device was staged.
Excused(s) == s \in stgDirty \cup stgLost

\* Unstaging returns the devices to the state they were found in: at rest, a
\* signal of an unstaged device is as it was found unless that very signal is
\* excused; a failure elsewhere, a rollback, a sibling's failure or a dropped
\* future never leaves a staged value behind.
StageRestores ==
    StgAtRest => \A d \in StgDevs : ~stgFlag[d] => \A s \in Range(StgSignals[d]) : stgVal[s] = 0 \/ Excused(s)

\* A staged device has every setting's original to return to, so that the unstage
\* to come can restore it.
OriginalsHeld ==
    StgAtRest => \A d \in StgDevs : \A s \in Range(StgSignals[d]) :
      stgVal[s] # 0 /\ ~Excused(s) =>
        \E k \in DOMAIN stgList[d] : stgObj[stgList[d][k]].sig = s /\ stgObj[stgList[d][k]].orig = 0

\* A child refused for its hints is never staged with the parent; a stage that
\* ended without an error has staged every child, and one that reported an error
\* has a child that is not staged or that was staged before.
RefusedUnstaged == \A d \in StgDevs : d \notin Range(stgKids) => ~stgFlag[d]
StageTold ==
    StgAtRest /\ stgAsked = "stage" => \A d \in Range(stgKids) : stgErrs[d] \/ stgFlag[d]

\* A stage that fails puts back what it had written, an unstage restores every
\* value found before the stage, a device refused staging is not left staged, and
\* each child that is not staged has reported an error to the parent's join, which
\* ends when all have and returns the first (stage_sigs.rs, standard_readable.rs).
StagingSound == StageRestores /\ OriginalsHeld /\ RefusedUnstaged /\ StageTold
=============================================================================
