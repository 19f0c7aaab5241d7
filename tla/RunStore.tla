------------------------------ MODULE RunStore ------------------------------
(***************************************************************************)
(* The crash-recovery journal (host/checkpoint_store.rs) and its writers:  *)
(* the Checkpoint and CloseRun hooks of the engine, behind the per-second  *)
(* coalescing of into_hook, append records to a file that is opened        *)
(* lazily and rotated to one backup; a daemon that starts reads the tail   *)
(* to find the run the last one abandoned (bin/bsrs/manager.rs).  The      *)
(* daemon may go down between any two file operations and in the middle    *)
(* of a write.  A line is a unit of size.                                  *)
(***************************************************************************)
EXTENDS Integers, Sequences, FiniteSets, SequencesExt

CONSTANTS
  RsRunsMax,    \* bound on runs; a run is its number, 0 is no run
  RsHooksMax,   \* bound on hook calls
  RsMaxLines,   \* max_bytes, in lines
  RsInterval,   \* MID_RUN_APPEND_INTERVAL_NS, in ticks
  RsTicksMax,   \* bound on the clock
  RsCrashesMax, \* bound on crashes
  RsTearsMax,   \* bound on crashes in the middle of a write
  RsFaultsMax   \* bound on renames and opens that fail

ASSUME RsMaxLines \in Nat \ {0}

VARIABLES
  rsMain, rsBackup,  \* the two files: sequences of [ok, run, done]
  rsCut,        \* the current file ends in the middle of a line
  rsHandle,     \* Writer: [open, bytes]
  rsThrottle,   \* last_mid_run: <<run, time>>, <<-1, 0>> for None
  rsWrite,      \* append under way: [at: "no" | "open" | "write", rec]
  rsRun,        \* the open run, 0 for none
  rsMarked,     \* the open run reached a checkpoint
  rsKnown,      \* what the hooks that returned said last: [run, done]
  rsTold,       \* what the last boot reported: a run, 0 for none
  rsBoot,       \* this state is a boot
  rsNow, rsRuns, rsHooks, rsCrashes, rsTears, rsFaults

storeVars == <<rsMain, rsBackup, rsCut, rsHandle, rsThrottle, rsWrite, rsRun, rsMarked, rsKnown,
               rsTold, rsBoot, rsNow, rsRuns, rsHooks, rsCrashes, rsTears, rsFaults>>

Rec(run, done) == [ok |-> TRUE, run |-> run, done |-> done]
NoRec  == [ok |-> FALSE, run |-> 0, done |-> FALSE]
NoWrite == [at |-> "no", rec |-> NoRec]

StoreInit ==
  /\ rsMain = <<>> /\ rsBackup = <<>> /\ rsCut = FALSE
  /\ rsHandle = [open |-> FALSE, bytes |-> 0] /\ rsThrottle = <<-1, 0>> /\ rsWrite = NoWrite
  /\ rsRun = 0 /\ rsMarked = FALSE /\ rsKnown = Rec(0, TRUE) /\ rsTold = 0 /\ rsBoot = FALSE
  /\ rsNow = 0 /\ rsRuns = 0 /\ rsHooks = 0 /\ rsCrashes = 0 /\ rsTears = 0 /\ rsFaults = 0

Running == rsWrite.at = "no"
FileFault == rsFaults < RsFaultsMax /\ rsFaults' = rsFaults + 1

-----------------------------------------------------------------------------
(* The engine: runs are serialized; both hooks run in the engine's task.   *)

OpenRun ==
  /\ Running /\ rsRun = 0 /\ rsRuns < RsRunsMax
  /\ rsRuns' = rsRuns + 1 /\ rsRun' = rsRuns + 1 /\ rsMarked' = FALSE /\ rsBoot' = FALSE
  /\ UNCHANGED <<rsMain, rsBackup, rsCut, rsHandle, rsThrottle, rsWrite, rsKnown, rsTold, rsNow, rsHooks, rsCrashes, rsTears, rsFaults>>

Tick ==
  /\ rsNow < RsTicksMax /\ rsNow' = rsNow + 1 /\ rsBoot' = FALSE
  /\ UNCHANGED <<rsMain, rsBackup, rsCut, rsHandle, rsThrottle, rsWrite, rsRun, rsMarked, rsKnown, rsTold, rsRuns, rsHooks, rsCrashes, rsTears, rsFaults>>

HookCall == Running /\ rsHooks < RsHooksMax /\ rsHooks' = rsHooks + 1 /\ rsBoot' = FALSE

\* Mutant: the throttle forgets whose checkpoint it was.
CoalescedAny(run) == rsThrottle[1] # -1 /\ rsNow - rsThrottle[2] < RsInterval
Coalesced(run) == rsThrottle[1] = run /\ rsNow - rsThrottle[2] < RsInterval

\* The Checkpoint hook: the open run's uid, or none outside a run.
Checkpoint ==
  /\ HookCall
  /\ rsMarked' = (rsRun # 0)
  /\ IF Coalesced(rsRun)
       THEN UNCHANGED <<rsThrottle, rsWrite>>
       ELSE rsThrottle' = <<rsRun, rsNow>> /\ rsWrite' = [at |-> "open", rec |-> Rec(rsRun, FALSE)]
  /\ UNCHANGED <<rsMain, rsBackup, rsCut, rsHandle, rsRun, rsKnown, rsTold, rsNow, rsRuns, rsCrashes, rsTears, rsFaults>>

\* close_run_if_open: the RunStop went out; the record is always appended.
CloseRunHook ==
  /\ HookCall /\ rsRun # 0
  /\ rsThrottle' = <<-1, 0>>
  /\ rsWrite' = [at |-> "open", rec |-> Rec(rsRun, TRUE)]
  /\ rsRun' = 0 /\ rsMarked' = FALSE
  /\ UNCHANGED <<rsMain, rsBackup, rsCut, rsHandle, rsKnown, rsTold, rsNow, rsRuns, rsCrashes, rsTears, rsFaults>>

-----------------------------------------------------------------------------
(* append.                                                                 *)

\* ensure_open seeds the byte count from the file.
EnsuredOpen == IF rsHandle.open THEN rsHandle ELSE [open |-> TRUE, bytes |-> Len(rsMain)]

\* The file opens; one at its limit is renamed over the backup first, and a
\* rename that fails leaves it to be opened again.
OpenForAppend ==
  /\ rsWrite.at = "open"
  /\ \/ /\ EnsuredOpen.bytes < RsMaxLines
        /\ rsHandle' = EnsuredOpen
        /\ rsWrite' = [rsWrite EXCEPT !.at = "write"]
        /\ UNCHANGED <<rsMain, rsBackup, rsCut, rsFaults>>
     \/ /\ EnsuredOpen.bytes >= RsMaxLines
        /\ rsHandle' = [open |-> FALSE, bytes |-> 0]
        /\ rsBackup' = rsMain /\ rsMain' = <<>> /\ rsCut' = FALSE
        /\ UNCHANGED <<rsWrite, rsFaults>>
     \/ /\ EnsuredOpen.bytes >= RsMaxLines /\ FileFault
        /\ rsHandle' = [open |-> TRUE, bytes |-> Len(rsMain)]
        /\ rsWrite' = [rsWrite EXCEPT !.at = "write"]
        /\ UNCHANGED <<rsMain, rsBackup, rsCut>>
  /\ rsBoot' = FALSE
  /\ UNCHANGED <<rsThrottle, rsRun, rsMarked, rsKnown, rsTold, rsNow, rsRuns, rsHooks, rsCrashes, rsTears>>

\* The file cannot be opened: the record is given up.
OpenFails ==
  /\ rsWrite.at = "open" /\ ~rsHandle.open /\ FileFault
  /\ rsWrite' = NoWrite /\ rsBoot' = FALSE
  /\ UNCHANGED <<rsMain, rsBackup, rsCut, rsHandle, rsThrottle, rsRun, rsMarked, rsKnown, rsTold, rsNow, rsRuns, rsHooks, rsCrashes, rsTears>>

\* writeln!: a record written behind half a line makes one unreadable line.
Written(rec) == IF rsCut THEN Front(rsMain) \o <<NoRec>> ELSE Append(rsMain, rec)
WriteLine ==
  /\ rsWrite.at = "write"
  /\ rsMain' = Written(rsWrite.rec) /\ rsCut' = FALSE
  /\ rsHandle' = [rsHandle EXCEPT !.bytes = @ + 1]
  /\ rsKnown' = rsWrite.rec /\ rsWrite' = NoWrite /\ rsBoot' = FALSE
  /\ UNCHANGED <<rsBackup, rsThrottle, rsRun, rsMarked, rsTold, rsNow, rsRuns, rsHooks, rsCrashes, rsTears, rsFaults>>

-----------------------------------------------------------------------------
(* Boot: the last parseable line, of the backup when there is none.        *)

TailRecord(file) ==
  LET good == {i \in DOMAIN file : file[i].ok}
  IN IF good = {} THEN NoRec ELSE file[CHOOSE i \in good : \A j \in good : j <= i]
Latest(main, backup) == IF TailRecord(main).ok THEN TailRecord(main) ELSE TailRecord(backup)
UnfinishedRun(main, backup) ==
  LET r == Latest(main, backup) IN IF r.ok /\ ~r.done THEN r.run ELSE 0

\* The daemon goes down, with `file` on disk, and the next one boots.
Reboot(file) ==
  /\ rsCrashes < RsCrashesMax /\ rsCrashes' = rsCrashes + 1
  /\ rsMain' = file
  /\ rsTold' = UnfinishedRun(file, rsBackup) /\ rsBoot' = TRUE
  /\ rsHandle' = [open |-> FALSE, bytes |-> 0] /\ rsThrottle' = <<-1, 0>>
  /\ UNCHANGED <<rsBackup, rsRun, rsMarked, rsWrite, rsKnown, rsNow, rsRuns, rsHooks, rsFaults>>

Crash == ~rsBoot /\ Reboot(rsMain) /\ UNCHANGED <<rsCut, rsTears>>
\* In the middle of the write: half a line is left.
CrashTorn ==
  /\ rsWrite.at = "write" /\ ~rsBoot
  /\ rsTears < RsTearsMax /\ rsTears' = rsTears + 1
  /\ Reboot(IF rsCut THEN rsMain ELSE Append(rsMain, NoRec)) /\ rsCut' = TRUE

\* What the boot left behind of the last daemon is gone.
Booted ==
  /\ rsBoot /\ rsBoot' = FALSE
  /\ rsRun' = 0 /\ rsMarked' = FALSE /\ rsWrite' = NoWrite
  /\ rsKnown' = Rec(rsTold, rsTold = 0)
  /\ UNCHANGED <<rsMain, rsBackup, rsCut, rsHandle, rsThrottle, rsTold, rsNow, rsRuns, rsHooks, rsCrashes, rsTears, rsFaults>>

StoreNext ==
  \/ (~rsBoot /\ (OpenRun \/ Tick \/ Checkpoint \/ CloseRunHook \/ OpenForAppend \/ OpenFails \/ WriteLine))
  \/ Crash \/ CrashTorn \/ Booted

-----------------------------------------------------------------------------
Unfinished(rec) == IF rec.ok /\ ~rec.done THEN rec.run ELSE 0

\* The boot detects the run that reached a checkpoint and was never closed.
DetectsAbandoned ==
  rsBoot /\ rsRun # 0 /\ rsMarked /\ rsWrite.at = "no" /\ rsFaults = 0 => rsTold = rsRun

\* As long as no earlier crash left half a line behind, a boot reports what
\* the hooks last put on record, or what the append the crash interrupted was
\* putting there: through coalescing, rotation and a crash at any point of
\* either, the run abandoned after a checkpoint is found and one that closed
\* is not.
BootTellsTruth ==
  (rsBoot /\ (rsTears = 0 \/ rsCut) /\ rsFaults = 0) =>
    /\ DetectsAbandoned
    /\ \/ rsTold = Unfinished(rsKnown)
       \/ rsWrite.at # "no" /\ rsTold = Unfinished(rsWrite.rec)

\* Neither file outgrows the limit unless a rename failed.
JournalBounded == rsFaults = 0 => Len(rsMain) <= RsMaxLines + rsTears /\ Len(rsBackup) <= RsMaxLines + rsTears

StoreSound == BootTellsTruth /\ JournalBounded
=============================================================================
