---------------------------- MODULE AtomicWrite -----------------------------
(***************************************************************************)
(* The path-based write API (write.go: writeFromBlocks; atomic_write.go:   *)
(* writeFileAtomic; replace_file_unix.go, replace_file_windows.go) against *)
(* a directory shared by several writers and readers of one destination.   *)
(*                                                                         *)
(* A directory maps names to inodes and an inode holds the segments written*)
(* to it.  Each system call of writeFileAtomic is an action, and each one  *)
(* that the code checks may fail.  A writer may die between any two of     *)
(* them.  A reader keeps the inode it opened, whatever the name does next. *)
(***************************************************************************)
EXTENDS Naturals, Sequences

CONSTANTS
  Writers,          \* concurrent callers of Write* for the same path
  Readers,          \* concurrent callers of Read* for that path
  Images,           \* what the callers write
  Segments,         \* the pieces of the encoded files
  Layout,           \* Layout[v]: the Write calls that encode image v, in order
  Torn,             \* what a Write that failed half-way leaves in the file
  Target,           \* the destination path
  TempNames,        \* the names os.CreateTemp may draw for that path
  Inodes,           \* files the filesystem can hold at once
  None,             \* no inode, no image, no name
  ReplaceWhileOpen  \* the platform renames over a file that readers have open:
                    \* TRUE for replace_file_unix.go, FALSE for ..._windows.go

ASSUME LayoutAssumption ==
  /\ Layout \in [Images -> Seq(Segments)]
  /\ \A v \in Images : Layout[v] # << >>
ASSUME TornAssumption == Torn \notin Segments
ASSUME NoneAssumption ==
  /\ None \notin Images
  /\ None \notin Inodes
  /\ None \notin TempNames
  /\ \A v \in Images : Layout[v] # None
ASSUME TargetAssumption == Target \notin TempNames
ASSUME PlatformAssumption == ReplaceWhileOpen \in BOOLEAN

VARIABLES
  dir,         \* dir[n]: the inode name n leads to, or None
  data,        \* data[i]: the segments in inode i
  pc,          \* pc[w]: where w is in writeFileAtomic
  img,         \* img[w]: the image of w's running call, or None
  temp,        \* temp[w]: tempPath, or None before CreateTemp
  fd,          \* fd[w]: the inode temp is open on, or None once it is closed
  removeTemp,  \* removeTemp[w]: the deferred function has to clean up
  outcome,     \* outcome[w]: what w's last call returned
  rfd,         \* rfd[r]: the inode r's running read has open, or None
  got,         \* got[r]: the segments that read has taken so far
  seen,        \* seen[r]: what r's last read returned, None for ErrOpenFile
  orphans      \* history: temporary names nobody is going to remove any more

wvars == <<pc, img, temp, fd, removeTemp, outcome>>
rvars == <<rfd, got, seen>>
vars == <<dir, data, pc, img, temp, fd, removeTemp, outcome, rfd, got, seen, orphans>>

Names == TempNames \cup {Target}
Contents == {Layout[v] : v \in Images}
Stages == {"idle", "create", "write", "close", "replace", "deferred", "remove"}

(* The inode behind w's temporary name, while w has one.                   *)
TempInode(w) == dir[temp[w]]

(* An inode is in use while a name or a descriptor leads to it.            *)
InUse(i) ==
  \/ \E n \in Names : dir[n] = i
  \/ \E w \in Writers : fd[w] = i
  \/ \E r \in Readers : rfd[r] = i

(* The destination is absent or a file that an earlier call has written.   *)
Init ==
  /\ \/ /\ dir = [n \in Names |-> None]
        /\ data = [j \in Inodes |-> << >>]
     \/ \E i \in Inodes, v \in Images :
          /\ dir = [n \in Names |-> IF n = Target THEN i ELSE None]
          /\ data = [j \in Inodes |-> IF j = i THEN Layout[v] ELSE << >>]
  /\ pc = [w \in Writers |-> "idle"]
  /\ img = [w \in Writers |-> None]
  /\ temp = [w \in Writers |-> None]
  /\ fd = [w \in Writers |-> None]
  /\ removeTemp = [w \in Writers |-> FALSE]
  /\ outcome = [w \in Writers |-> "none"]
  /\ rfd = [r \in Readers |-> None]
  /\ got = [r \in Readers |-> << >>]
  /\ seen = [r \in Readers |-> None]
  /\ orphans = {}

-----------------------------------------------------------------------------
(***************************************************************************)
(* Writers                                                                 *)
(***************************************************************************)

(* A call whose blocks are all built: nothing is on disk yet.              *)
Begin(w, v) ==
  /\ pc[w] = "idle"
  /\ pc' = [pc EXCEPT ![w] = "create"]
  /\ img' = [img EXCEPT ![w] = v]
  /\ outcome' = [outcome EXCEPT ![w] = "none"]
  /\ UNCHANGED <<dir, data, temp, fd, removeTemp, rvars, orphans>>

(* A call refused while its header or its blocks are built: empty mip      *)
(* list, unsupported format, a payload of the wrong size, a failed         *)
(* compression.  It returns before writeFileAtomic is reached.             *)
Reject(w) ==
  /\ pc[w] = "idle"
  /\ outcome' = [outcome EXCEPT ![w] = "error"]
  /\ UNCHANGED <<dir, data, pc, img, temp, fd, removeTemp, rvars, orphans>>

(* The call returns and the goroutine's locals are gone.                   *)
Return(w, o) ==
  /\ pc' = [pc EXCEPT ![w] = "idle"]
  /\ img' = [img EXCEPT ![w] = None]
  /\ temp' = [temp EXCEPT ![w] = None]
  /\ fd' = [fd EXCEPT ![w] = None]
  /\ removeTemp' = [removeTemp EXCEPT ![w] = FALSE]
  /\ outcome' = [outcome EXCEPT ![w] = o]

(* Mutant: the temporary name is opened with O_TRUNC instead of O_EXCL.    *)
CreateTempShared(w, n, i) ==
  /\ pc[w] = "create"
  /\ ~InUse(i)
  /\ dir' = [dir EXCEPT ![n] = i]
  /\ data' = [data EXCEPT ![i] = << >>]
  /\ pc' = [pc EXCEPT ![w] = "write"]
  /\ temp' = [temp EXCEPT ![w] = n]
  /\ fd' = [fd EXCEPT ![w] = i]
  /\ removeTemp' = [removeTemp EXCEPT ![w] = TRUE]
  /\ UNCHANGED <<img, outcome, rvars, orphans>>

(* os.CreateTemp opens a name that does not exist (O_EXCL), on a new inode. *)
CreateTemp(w, n, i) ==
  /\ pc[w] = "create"
  /\ dir[n] = None
  /\ ~InUse(i)
  /\ dir' = [dir EXCEPT ![n] = i]
  /\ data' = [data EXCEPT ![i] = << >>]
  /\ pc' = [pc EXCEPT ![w] = "write"]
  /\ temp' = [temp EXCEPT ![w] = n]
  /\ fd' = [fd EXCEPT ![w] = i]
  /\ removeTemp' = [removeTemp EXCEPT ![w] = TRUE]
  /\ UNCHANGED <<img, outcome, rvars, orphans>>

(* Mutant: the deferred function is registered before the error is checked. *)
CreateFailsIntoDefer(w) ==
  /\ pc[w] = "create"
  /\ pc' = [pc EXCEPT ![w] = "deferred"]
  /\ removeTemp' = [removeTemp EXCEPT ![w] = TRUE]
  /\ UNCHANGED <<dir, data, img, temp, fd, outcome, rvars, orphans>>

(* ErrCreateFile: returned before the deferred function is registered.     *)
CreateFails(w) ==
  /\ pc[w] = "create"
  /\ Return(w, "error")
  /\ UNCHANGED <<dir, data, rvars, orphans>>

(* The next Write of the callback; the last one lets it return nil.        *)
WriteSegment(w) ==
  LET k == Len(data[fd[w]]) + 1
  IN  /\ pc[w] = "write"
      /\ k <= Len(Layout[img[w]])
      /\ data' = [data EXCEPT ![fd[w]] = Append(@, Layout[img[w]][k])]
      /\ pc' = [pc EXCEPT ![w] = IF k = Len(Layout[img[w]]) THEN "close" ELSE @]
      /\ UNCHANGED <<dir, img, temp, fd, removeTemp, outcome, rvars, orphans>>

(* Mutant: the error of a Write is dropped.                                *)
WriteErrorIgnored(w) ==
  /\ pc[w] = "write"
  /\ data' = [data EXCEPT ![fd[w]] = Append(@, Torn)]
  /\ pc' = [pc EXCEPT ![w] = "close"]
  /\ UNCHANGED <<dir, img, temp, fd, removeTemp, outcome, rvars, orphans>>

(* A Write fails, having stored nothing or a part of its bytes.            *)
WriteFails(w) ==
  /\ pc[w] = "write"
  /\ \/ data' = [data EXCEPT ![fd[w]] = Append(@, Torn)]
     \/ data' = data
  /\ pc' = [pc EXCEPT ![w] = "deferred"]
  /\ UNCHANGED <<dir, img, temp, fd, removeTemp, outcome, rvars, orphans>>

(* temp.Close: an error reports lost data, so the segments may be torn;    *)
(* the descriptor is released either way.                                  *)
CloseTemp(w) ==
  /\ pc[w] = "close"
  /\ pc' = [pc EXCEPT ![w] = "replace"]
  /\ fd' = [fd EXCEPT ![w] = None]
  /\ UNCHANGED <<dir, data, img, temp, removeTemp, outcome, rvars, orphans>>

CloseFails(w) ==
  /\ pc[w] = "close"
  /\ data' = [data EXCEPT ![fd[w]] = <<Torn>>]
  /\ pc' = [pc EXCEPT ![w] = "deferred"]
  /\ fd' = [fd EXCEPT ![w] = None]
  /\ UNCHANGED <<dir, img, temp, removeTemp, outcome, rvars, orphans>>

(* Mutant: the content is copied over the destination instead of renamed.  *)
ReplaceByCopy(w) ==
  /\ pc[w] = "replace"
  /\ dir[Target] # None
  /\ data' = [data EXCEPT ![dir[Target]] = data[TempInode(w)]]
  /\ dir' = [dir EXCEPT ![temp[w]] = None]
  /\ pc' = [pc EXCEPT ![w] = "deferred"]
  /\ removeTemp' = [removeTemp EXCEPT ![w] = FALSE]
  /\ UNCHANGED <<img, temp, fd, outcome, rvars, orphans>>

(* Mutant: removeTemp is never reset.                                      *)
ReplaceKeepsFlag(w) ==
  /\ pc[w] = "replace"
  /\ dir' = [dir EXCEPT ![Target] = TempInode(w), ![temp[w]] = None]
  /\ pc' = [pc EXCEPT ![w] = "deferred"]
  /\ UNCHANGED <<data, img, temp, fd, removeTemp, outcome, rvars, orphans>>

(* replaceFile and removeTemp = false.  Windows refuses to replace a file  *)
(* that is open, and to rename one that is.                                *)
Replace(w) ==
  /\ pc[w] = "replace"
  /\ dir[temp[w]] # None
  /\ \/ ReplaceWhileOpen
     \/ /\ \A r \in Readers : rfd[r] # None => rfd[r] # dir[Target]
        /\ \A x \in Writers : fd[x] # None => fd[x] # TempInode(w)
  /\ dir' = [dir EXCEPT ![Target] = TempInode(w), ![temp[w]] = None]
  /\ pc' = [pc EXCEPT ![w] = "deferred"]
  /\ removeTemp' = [removeTemp EXCEPT ![w] = FALSE]
  /\ UNCHANGED <<data, img, temp, fd, outcome, rvars, orphans>>

(* Mutant: removeTemp is reset before the rename instead of after it.      *)
ReplaceFailsUnflagged(w) ==
  /\ pc[w] = "replace"
  /\ pc' = [pc EXCEPT ![w] = "deferred"]
  /\ removeTemp' = [removeTemp EXCEPT ![w] = FALSE]
  /\ UNCHANGED <<dir, data, img, temp, fd, outcome, rvars, orphans>>

(* Mutant: a refused rename is tried again until it works.                 *)
ReplaceRetries(w) == pc[w] = "replace" /\ UNCHANGED vars

(* ErrAtomicWrite: the rename is refused, both names keep their files.     *)
ReplaceFails(w) ==
  /\ pc[w] = "replace"
  /\ pc' = [pc EXCEPT ![w] = "deferred"]
  /\ UNCHANGED <<dir, data, img, temp, fd, removeTemp, outcome, rvars, orphans>>

(* The deferred function after success: nothing to clean up, return nil.   *)
DeferredReturn(w) ==
  /\ pc[w] = "deferred"
  /\ ~removeTemp[w]
  /\ Return(w, "ok")
  /\ UNCHANGED <<dir, data, rvars, orphans>>

(* Mutant: the deferred function does not close.                           *)
DeferredKeepsOpen(w) ==
  /\ pc[w] = "deferred"
  /\ removeTemp[w]
  /\ pc' = [pc EXCEPT ![w] = "remove"]
  /\ UNCHANGED <<dir, data, img, temp, fd, removeTemp, outcome, rvars, orphans>>

(* The deferred function after a failure: Close, its error ignored ...     *)
DeferredClose(w) ==
  /\ pc[w] = "deferred"
  /\ removeTemp[w]
  /\ fd' = [fd EXCEPT ![w] = None]
  /\ pc' = [pc EXCEPT ![w] = "remove"]
  /\ UNCHANGED <<dir, data, img, temp, removeTemp, outcome, rvars, orphans>>

(* ... and Remove of whatever tempPath names by now ...                    *)
DeferredRemove(w) ==
  /\ pc[w] = "remove"
  /\ dir' = [dir EXCEPT ![temp[w]] = None]
  /\ Return(w, "error")
  /\ UNCHANGED <<data, rvars, orphans>>

(* ... its error ignored too, which leaves the temporary file behind.      *)
RemoveFails(w) ==
  /\ pc[w] = "remove"
  /\ orphans' = orphans \cup {temp[w]}
  /\ Return(w, "error")
  /\ UNCHANGED <<dir, data, rvars>>

(* The process of w dies: no deferred function runs, descriptors close.    *)
Crash(w) ==
  /\ pc[w] # "idle"
  /\ orphans' = orphans \cup (IF removeTemp[w] THEN {temp[w]} ELSE {})
  /\ Return(w, "none")
  /\ UNCHANGED <<dir, data, rvars>>

-----------------------------------------------------------------------------
(***************************************************************************)
(* Readers: ReadWithOptions and ReadConfig, from os.Open to their return,  *)
(* as far as the file under them matters: they read on through the one     *)
(* descriptor they opened.                                                 *)
(***************************************************************************)

OpenFile(r) ==
  /\ rfd[r] = None
  /\ dir[Target] # None
  /\ rfd' = [rfd EXCEPT ![r] = dir[Target]]
  /\ got' = [got EXCEPT ![r] = << >>]
  /\ seen' = [seen EXCEPT ![r] = None]
  /\ UNCHANGED <<dir, data, wvars, orphans>>

OpenFails(r) ==
  /\ rfd[r] = None
  /\ dir[Target] = None
  /\ seen' = [seen EXCEPT ![r] = None]
  /\ UNCHANGED <<dir, data, wvars, rfd, got, orphans>>

(* Mutant: a read waits until nobody writes to the path.                   *)
ReadWhenQuiet(r) ==
  /\ rfd[r] # None
  /\ Len(got[r]) < Len(data[rfd[r]])
  /\ \A w \in Writers : pc[w] = "idle"
  /\ got' = [got EXCEPT ![r] = Append(@, data[rfd[r]][Len(@) + 1])]
  /\ UNCHANGED <<dir, data, wvars, rfd, seen, orphans>>

ReadSegment(r) ==
  /\ rfd[r] # None
  /\ Len(got[r]) < Len(data[rfd[r]])
  /\ got' = [got EXCEPT ![r] = Append(@, data[rfd[r]][Len(@) + 1])]
  /\ UNCHANGED <<dir, data, wvars, rfd, seen, orphans>>

(* The end of the file: the call closes it and returns what it has read.   *)
ReadEnds(r) ==
  /\ rfd[r] # None
  /\ Len(got[r]) = Len(data[rfd[r]])
  /\ seen' = [seen EXCEPT ![r] = got[r]]
  /\ rfd' = [rfd EXCEPT ![r] = None]
  /\ got' = [got EXCEPT ![r] = << >>]
  /\ UNCHANGED <<dir, data, wvars, orphans>>

-----------------------------------------------------------------------------
(* What a running call does next, short of dying.                          *)
WriterStep(w) ==
  \/ \E n \in TempNames, i \in Inodes : CreateTemp(w, n, i)
  \/ CreateFails(w)
  \/ WriteSegment(w)
  \/ WriteFails(w)
  \/ CloseTemp(w)
  \/ CloseFails(w)
  \/ Replace(w)
  \/ ReplaceFails(w)
  \/ DeferredReturn(w)
  \/ DeferredClose(w)
  \/ DeferredRemove(w)
  \/ RemoveFails(w)

ReaderStep(r) == ReadSegment(r) \/ ReadEnds(r)

Next ==
  \/ \E w \in Writers :
       \/ \E v \in Images : Begin(w, v)
       \/ Reject(w)
       \/ WriterStep(w)
       \/ Crash(w)
  \/ \E r \in Readers : OpenFile(r) \/ OpenFails(r) \/ ReaderStep(r)

Spec == Init /\ [][Next]_vars

(* The code blocks on nothing but its system calls, which return: a        *)
(* goroutine inside a call takes its next step.  Nobody owes a new call.   *)
Fairness ==
  /\ \A w \in Writers : WF_vars(WriterStep(w))
  /\ \A r \in Readers : WF_vars(ReaderStep(r))

FairSpec == Spec /\ Fairness

-----------------------------------------------------------------------------
(***************************************************************************)
(* Properties                                                              *)
(***************************************************************************)

TypeOK ==
  /\ dir \in [Names -> Inodes \cup {None}]
  /\ data \in [Inodes -> Seq(Segments \cup {Torn})]
  /\ pc \in [Writers -> Stages]
  /\ img \in [Writers -> Images \cup {None}]
  /\ temp \in [Writers -> TempNames \cup {None}]
  /\ fd \in [Writers -> Inodes \cup {None}]
  /\ removeTemp \in [Writers -> BOOLEAN]
  /\ outcome \in [Writers -> {"none", "ok", "error"}]
  /\ rfd \in [Readers -> Inodes \cup {None}]
  /\ got \in [Readers -> Seq(Segments \cup {Torn})]
  /\ seen \in [Readers -> Seq(Segments \cup {Torn}) \cup {None}]
  /\ orphans \subseteq TempNames

(* Whoever opens the destination, at any moment, finds a complete file:    *)
(* after failed writes, failed closes, lost races and crashes.             *)
TargetWhole == dir[Target] # None => data[dir[Target]] \in Contents

(* While a call still has to remove its temporary file, that name leads to *)
(* the file it created and no other call counts it as its own: what it     *)
(* renames or removes is never the file of another call.                   *)
TempIsOwn ==
  \A w \in Writers : removeTemp[w] =>
    /\ TempInode(w) # None
    /\ fd[w] # None => fd[w] = TempInode(w)
    /\ \A x \in Writers \ {w} : removeTemp[x] => temp[x] # temp[w]

(* No temporary file is forgotten: each one belongs to a running call that *)
(* will remove it, or to a call that died or whose os.Remove failed.       *)
TempsAccounted ==
  \A n \in TempNames : dir[n] # None =>
    n \in orphans \/ \E w \in Writers : removeTemp[w] /\ temp[w] = n

(* A temporary file is renamed or removed only when no descriptor is open  *)
(* on it, which Windows requires of both.                                  *)
ClosedWhenMoved ==
  \A w \in Writers : pc[w] \in {"replace", "remove"} =>
    \A x \in Writers : fd[x] # None => fd[x] # TempInode(w)

(* The file under an open reader never changes, however often the path is  *)
(* replaced meanwhile: header, table and body come from one version.       *)
OpenFilesFrozen ==
  [][\A r \in Readers : rfd[r] # None => data'[rfd[r]] = data[rfd[r]]]_vars

(* Every call returns or dies, and every read returns.                     *)
CallsReturn == \A w \in Writers : pc[w] # "idle" ~> pc[w] = "idle"
ReadsReturn == \A r \in Readers : rfd[r] # None ~> rfd[r] = None

(***************************************************************************)
(* The protocol implements AtomicFile: the content of the path is what the *)
(* inode under its name holds, a call is pending from Begin to its return  *)
(* and has published once it no longer owes the removal of its temporary.  *)
(***************************************************************************)
ContentAt(i) == IF i = None THEN None ELSE data[i]

Abstract == INSTANCE AtomicFile WITH
  file <- ContentAt(dir[Target]),
  pending <- [w \in Writers |-> IF img[w] = None THEN None ELSE Layout[img[w]]],
  published <- [w \in Writers |-> pc[w] = "deferred" /\ ~removeTemp[w]],
  view <- [r \in Readers |-> ContentAt(rfd[r])]

(* Seen from outside, a write is one atomic replacement or nothing, and a  *)
(* read is a snapshot of the moment it opened the path.                    *)
ImplementsAtomicFile == Abstract!Spec

=============================================================================
