--------------------------- MODULE PathProviders ----------------------------
(***************************************************************************)
(* Where detectors write (devices/path_provider.rs): path algebra of both  *)
(* pathlib flavors, and the providers that number files and directories.   *)
(* Detectors that prepare at one time ask one provider: a call first takes *)
(* a filename, then a directory, each under its own lock.  The directory   *)
(* is created some time later, days change, other programs' directories    *)
(* are there already and reading them may fail.  A name is a sequence of   *)
(* atoms; a text is what a path or a segment is written as, its drive      *)
(* `C:`, `\\server` or `\\server\share` the sequence of its names.          *)
(***************************************************************************)
EXTENDS Integers, Sequences, FiniteSets, SequencesExt, FiniteSetsExt

CONSTANTS
  PpTexts,     \* texts the algebra is checked on
  PpBases,     \* bases of the providers: [flavor, text]
  PpKeys,      \* data keys writers ask with: sequences of names, NoKey is none
  PpCallsMax,  \* bound on path_info calls
  PpDaysMax,   \* bound on the date
  PpDigitsMax, \* the largest file number max_digits can show
  PpPerDir     \* num_calls_per_inc

ASSUME PpPerDir \in Nat \ {0} /\ PpDigitsMax \in Nat

VARIABLES
  ppKind,    \* the provider: "static", "autoinc", "ymd", "automax", "dated"
  ppNamer,   \* its filename provider: "static", "auto" or "uuid"
  ppBase,    \* base_directory_path
  ppUri,     \* base_directory_uri: "none", "good" or "bad"
  ppKeyLast, \* datakey_name_as_base_dir
  ppNamed,   \* base_name is set
  ppFile,    \* AutoIncrementFilenameProvider.current_value; how many UUIDs were drawn
  ppDir,     \* DirCounter: [value, calls]
  ppNext,    \* AutoMaxIncrementingPathProvider.next_value
  ppDirs,    \* numbered directories that exist: <<day, number>>, day 0 when not dated
  ppToday,
  ppAsking,  \* calls that have their filename and not yet their directory: [key, file]
  ppGiven,   \* what was handed out: [dir, file, uri, num, there, made];
             \* there the numbered directories it was chosen among, made once it is created
  ppRefused  \* calls that returned an error

pathVars == <<ppKind, ppNamer, ppBase, ppUri, ppKeyLast, ppNamed, ppFile, ppDir, ppNext, ppDirs, ppToday,
              ppAsking, ppGiven, ppRefused>>

-----------------------------------------------------------------------------
(* PurePath.                                                               *)

Dot == <<".">>
TextOf(drive, root, names) == [drive |-> drive, root |-> root, names |-> names]
Letters == {<<"C">>, <<"c">>, <<"D">>}
HalfShare(drive) == Len(drive) = 1 /\ drive \notin Letters
Fold(drive) == IF drive = <<"c">> THEN <<"C">> ELSE drive

\* split_windows_root: the first name after a bare server is its share.
SplitWindows(t) ==
  IF HalfShare(t.drive) /\ t.names # <<>>
  THEN TextOf(Append(t.drive, Head(t.names)), IF Len(t.names) = 1 THEN "" ELSE "/", Tail(t.names)) ELSE t
\* windows_root: a complete share is always rooted.
WindowsRoot(drive, root) == IF Len(drive) = 2 THEN "/" ELSE root
Parse(flavor, t) ==
  LET w == SplitWindows(t)
      u == IF flavor = "posix" THEN t ELSE [w EXCEPT !.root = WindowsRoot(w.drive, w.root)]
  IN  [flavor |-> flavor, drive |-> u.drive, root |-> u.root, parts |-> SelectSeq(u.names, LAMBDA n : n # Dot)]
Display(p) == TextOf(p.drive, p.root, p.parts)
Plain(names) == TextOf(<<>>, "", names)

IsAbsolute(p) == p.root # "" /\ (p.flavor = "windows" => p.drive # <<>>)

PosixJoin(p, s) == IF s.root # "" THEN s ELSE TextOf(<<>>, p.root, p.names \o s.names)
\* A segment with a root keeps its own drive or takes the path's; one that
\* names another drive replaces the path; else it goes below it.
WindowsJoin(p, s) ==
  IF s.root # "" THEN TextOf(IF s.drive = <<>> THEN p.drive ELSE s.drive, s.root, s.names)
  ELSE IF s.drive # <<>> /\ Fold(s.drive) # Fold(p.drive) THEN s
  ELSE LET drive == IF s.drive = <<>> THEN p.drive ELSE s.drive
           names == p.names \o s.names
       IN  TextOf(drive, IF names # <<>> /\ drive # <<>> /\ drive \notin Letters THEN "/" ELSE p.root, names)
Join(p, s) ==
  Parse(p.flavor, IF p.flavor = "posix" THEN PosixJoin(Display(p), s) ELSE WindowsJoin(Display(p), SplitWindows(s)))

\* Windows paths compare without case; only drives differ in case here.
SamePath(p, q) == [p EXCEPT !.drive = Fold(@)] = [q EXCEPT !.drive = Fold(@)]

\* to_path_buf on a posix host: a letter is then a name like another, a share
\* comes after two slashes.
HostText(p) ==
  IF p.drive = <<>> THEN TextOf(<<>>, p.root, p.parts)
  ELSE IF p.drive \in Letters THEN TextOf(<<>>, "", <<p.drive>> \o p.parts)
  ELSE TextOf(<<>>, "//", [i \in DOMAIN p.drive |-> <<p.drive[i]>>] \o p.parts)

-----------------------------------------------------------------------------
(* URIs: whether scheme, host and path are there, and the path's names.    *)

DirectoryUri(p) == [ok |-> TRUE, parts |-> [i \in DOMAIN p.drive |-> <<p.drive[i]>>] \o p.parts]
BaseUri == IF ppUri = "none" THEN DirectoryUri(ppBase) ELSE [ok |-> ppUri = "good", parts |-> << <<"base">> >>]
Under(uri, names) == [uri EXCEPT !.parts = @ \o names]
\* A path printed in the Windows flavor is one name of a URI.
Printed(p) == IF p.flavor = "posix" \/ Len(p.parts) < 2 THEN p.parts ELSE << FlattenSeq(p.parts) >>

\* PathInfo::new refuses a relative path, and a URI without scheme, host or path.
Refuses(dir, uri) == ~IsAbsolute(dir) \/ ~uri.ok

-----------------------------------------------------------------------------
(* The providers.                                                          *)

NoKey == <<>>
Number(n) == <<"#", n>>
PathInit ==
  /\ ppKind \in {"static", "autoinc", "ymd", "automax", "dated"}
  /\ ppNamer \in {"static", "auto", "uuid"}
  /\ ppBase \in {Parse(b.flavor, b.text) : b \in PpBases}
  /\ ppUri \in {"none", "good", "bad"} /\ ppKeyLast \in BOOLEAN /\ ppNamed \in BOOLEAN
  /\ (ppKeyLast => ppKind = "ymd") /\ (ppNamed => ppKind = "autoinc")
  /\ ppFile = 0 /\ ppDir = [value |-> 0, calls |-> 0] /\ ppNext = 0 /\ ppToday = 1
  /\ ppDirs \in (IF ppKind = "automax" THEN {{}, {<<0, 1>>}} ELSE IF ppKind = "dated" THEN {{}, {<<1, 0>>}, {<<2, 1>>}} ELSE {{}})
  /\ ppAsking = <<>> /\ ppGiven = <<>> /\ ppRefused = 0

Calls == Len(ppAsking) + Len(ppGiven) + ppRefused
ppSet == <<ppKind, ppNamer, ppBase, ppUri, ppKeyLast, ppNamed>>

\* AutoIncrementFilenameProvider: the number no longer fits.
FileOverflows == ppNamer = "auto" /\ ppFile > PpDigitsMax
FileAfter == IF ppNamer = "static" THEN ppFile ELSE ppFile + 1

\* The base of the numbering providers is a static one, asked first: what it
\* refuses is refused before any number is looked for.
BaseRefuses == ppKind \in {"automax", "dated"} /\ Refuses(ppBase, BaseUri)
AskName(key) ==
  /\ Calls < PpCallsMax
  /\ IF FileOverflows
     THEN ppRefused' = ppRefused + 1 /\ UNCHANGED <<ppFile, ppAsking>>
     ELSE /\ ppFile' = FileAfter
          /\ IF BaseRefuses THEN ppRefused' = ppRefused + 1 /\ UNCHANGED ppAsking
             ELSE ppAsking' = Append(ppAsking, [key |-> key, file |-> ppFile]) /\ UNCHANGED ppRefused
  /\ UNCHANGED <<ppSet, ppDir, ppNext, ppDirs, ppToday, ppGiven>>

\* highest_numbered_dir looks at these.
NumbersOf(day) == {d[2] : d \in {x \in ppDirs : x[1] = day}}
AutoMaxDay == IF ppKind = "dated" THEN ppToday ELSE 0

\* The end of call i: its name is used up even when it is refused.
Give(i, dir, uri, num) ==
  /\ ppAsking' = RemoveAt(ppAsking, i)
  /\ IF Refuses(dir, uri)
     THEN ppRefused' = ppRefused + 1 /\ UNCHANGED ppGiven
     ELSE ppGiven' = Append(ppGiven, [dir |-> dir, file |-> ppAsking[i].file, uri |-> uri, num |-> num,
                                      there |-> NumbersOf(AutoMaxDay), made |-> FALSE]) /\ UNCHANGED ppRefused

GiveStatic(i) ==
  /\ ppKind = "static" /\ Give(i, ppBase, BaseUri, <<0, 0>>)
  /\ UNCHANGED <<ppDir, ppNext>>

DirAfter(d) ==
  IF d.calls + 1 = PpPerDir THEN [value |-> d.value + 1, calls |-> 0] ELSE [d EXCEPT !.calls = @ + 1]
\* The number follows the base name, else the last name of the key, else stands alone.
NumberedName(key) ==
  IF ppNamed THEN << <<"base">> \o Number(ppDir.value) >>
  ELSE IF key = NoKey THEN << Number(ppDir.value) >>
  ELSE Append(Front(key), Last(key) \o Number(ppDir.value))
GiveAutoInc(i) ==
  /\ ppKind = "autoinc" /\ ppDir' = DirAfter(ppDir)
  /\ LET names == NumberedName(ppAsking[i].key)
     IN  Give(i, Join(ppBase, Plain(names)), Under(BaseUri, names), <<0, ppDir.value>>)
  /\ UNCHANGED ppNext

GiveYmd(i) ==
  /\ ppKind = "ymd"
  /\ LET Below(p, names) == Join(p, Plain(names))
         date == << <<"y">>, Number(ppToday) >>
         key  == ppAsking[i].key
         none == Parse(ppBase.flavor, Plain(<<>>))
         ymd  == IF ppKeyLast THEN Below(Below(none, date), key) ELSE Below(Below(none, key), date)
     IN  Give(i, Below(ppBase, ymd.parts), Under(BaseUri, Printed(ymd)), <<ppToday, 0>>)
  /\ UNCHANGED <<ppDir, ppNext>>

\* A dated provider first looks at every day's directories.
NextSeen(dirs) == IF ppKind = "dated" THEN Max({ppNext} \cup {d[2] + 1 : d \in dirs}) ELSE ppNext
\* One past the highest directory there; its own count when there is none.
AutoMaxValue(day) == IF NumbersOf(day) # {} THEN Max(NumbersOf(day)) + 1 ELSE NextSeen(ppDirs)
GiveAutoMax(i) ==
  /\ ppKind \in {"automax", "dated"}
  /\ LET v   == AutoMaxValue(AutoMaxDay)
         day == IF ppKind = "dated" THEN << Number(ppToday) >> ELSE <<>>
         dir == Join(Join(Parse("posix", HostText(ppBase)), Plain(day)), Plain(<< Number(v) \o Number(ppAsking[i].file) >>))
     IN  ppNext' = v + 1 /\ Give(i, dir, DirectoryUri(dir), <<AutoMaxDay, v>>)
  /\ UNCHANGED ppDir
\* A directory cannot be read: what was seen of the others' stays counted.
CannotRead(i) ==
  /\ ppKind \in {"automax", "dated"}
  /\ \E seen \in SUBSET {d \in ppDirs : ppKind = "dated"} : ppNext' = NextSeen(seen)
  /\ ppAsking' = RemoveAt(ppAsking, i) /\ ppRefused' = ppRefused + 1
  /\ UNCHANGED <<ppDir, ppGiven>>

GiveDir(i) ==
  /\ GiveStatic(i) \/ GiveAutoInc(i) \/ GiveYmd(i) \/ GiveAutoMax(i) \/ CannotRead(i)
  /\ UNCHANGED <<ppSet, ppFile, ppDirs, ppToday>>

\* The writer's IOC creates the directory it was given.
MakeDir(i) ==
  /\ ~ppGiven[i].made
  /\ ppGiven' = [ppGiven EXCEPT ![i].made = TRUE]
  /\ ppDirs' = IF ppKind \in {"automax", "dated"} THEN ppDirs \cup {ppGiven[i].num} ELSE ppDirs
  /\ UNCHANGED <<ppSet, ppFile, ppDir, ppNext, ppToday, ppAsking, ppRefused>>

NextDay ==
  /\ ppToday < PpDaysMax /\ ppToday' = ppToday + 1
  /\ UNCHANGED <<ppSet, ppFile, ppDir, ppNext, ppDirs, ppAsking, ppGiven, ppRefused>>

PathNext ==
  \/ \E key \in PpKeys : AskName(key)
  \/ \E i \in DOMAIN ppAsking : GiveDir(i)
  \/ \E i \in DOMAIN ppGiven : MakeDir(i)
  \/ NextDay

-----------------------------------------------------------------------------
\* Joining is associative unless a segment is relative to a drive or to a bare
\* server, a plain segment stays below the path it is joined to, and an absolute
\* one replaces it: what PurePath takes from pathlib, in both flavors.
OwnRoot(t) == t.drive = <<>> \/ (t.root # "" /\ ~HalfShare(t.drive))
JoinLaws ==
  Calls = 0 => \A s, t \in {x \in PpTexts : IF ppBase.flavor = "posix" THEN x.drive = <<>> ELSE x.root # "//"} :
    LET p == ppBase
        ps == Parse(p.flavor, s)
    IN  /\ OwnRoot(s) /\ OwnRoot(t) => SamePath(Join(Join(p, s), t), Join(p, Display(Join(ps, t))))
        /\ s.root = "" /\ s.drive = <<>> => IsAbsolute(Join(p, s)) = IsAbsolute(p) /\ IsPrefix(p.parts, Join(p, s).parts)
        /\ IsAbsolute(ps) /\ s.root # "" => Join(p, s) = ps

\* No two writers are given one file, in whatever order they ask and create
\* their directories: file numbers are never reused, and a numbered directory
\* that existed when a writer asked is not given to it.
OwnFiles ==
  /\ ppNamer # "static" =>
       \A i, j \in DOMAIN ppGiven : i < j => <<ppGiven[i].dir, ppGiven[i].file>> # <<ppGiven[j].dir, ppGiven[j].file>>
  /\ \A i \in DOMAIN ppGiven : ppKind \in {"automax", "dated"} => ppGiven[i].num[2] \notin ppGiven[i].there
\* A numbered directory holds no more files than it was to hold, and the next
\* one is used only when it is full, however the calls interleave.
DirsFill ==
  ppKind = "autoinc" /\ ppUri # "bad" =>
    \A i \in DOMAIN ppGiven : ppGiven[i].num[2] = (i - 1) \div PpPerDir
\* The URI a reader is given names the directory the writer was given.
UriNamesDir ==
  ppBase.flavor = "posix" /\ (ppUri = "none" \/ ppKind \in {"automax", "dated"}) =>
    \A i \in DOMAIN ppGiven : ppGiven[i].uri.parts = ppGiven[i].dir.parts

PathsSound == JoinLaws /\ OwnFiles /\ DirsFill /\ UriNamesDir
=============================================================================
