------------------------- MODULE AtomicWriteProofs --------------------------
(***************************************************************************)
(* What AtomicWrite keeps for every number of writers, readers, temporary  *)
(* names and inodes, every layout, and both platforms.                     *)
(***************************************************************************)
EXTENDS AtomicWrite, SequenceTheorems, TLAPS

(* A name shares its inode with no other: rename moves a name, and         *)
(* CreateTemp takes an inode that is not in use.                           *)
OneNamePerInode ==
  \A m, n \in Names : dir[m] # None /\ dir[m] = dir[n] => m = n

(* Sequence s holds the first Len(s) segments of sequence t.               *)
PartOf(s, t) == Len(s) <= Len(t) /\ \A k \in 1..Len(s) : s[k] = t[k]

(* The locals of writeFileAtomic at each of its points.                    *)
LocalsAt(w) ==
  /\ pc[w] = "idle" <=> img[w] = None
  /\ pc[w] \in {"idle", "create"} => temp[w] = None /\ fd[w] = None /\ ~removeTemp[w]
  /\ pc[w] \in {"write", "close"} => removeTemp[w] /\ fd[w] = dir[temp[w]]
  /\ pc[w] = "replace" => removeTemp[w] /\ fd[w] = None
  /\ pc[w] = "deferred" /\ removeTemp[w] => fd[w] \in {None, dir[temp[w]]}
  /\ pc[w] = "deferred" /\ ~removeTemp[w] => fd[w] = None
  /\ pc[w] = "remove" => removeTemp[w] /\ fd[w] = None

(* What the temporary file holds at each of those points.                  *)
FileAt(w) ==
  /\ removeTemp[w] => temp[w] \in TempNames /\ dir[temp[w]] # None
  /\ pc[w] = "write" =>
       /\ PartOf(data[fd[w]], Layout[img[w]])
       /\ Len(data[fd[w]]) < Len(Layout[img[w]])
  /\ pc[w] = "close" => data[fd[w]] = Layout[img[w]]
  /\ pc[w] = "replace" => data[dir[temp[w]]] = Layout[img[w]]

(* Two calls never hold the same temporary name.                           *)
NamesDistinct ==
  \A w, x \in Writers : removeTemp[w] /\ removeTemp[x] /\ temp[w] = temp[x] => w = x

(* A reader has a complete file open, and no call's temporary file.        *)
ReaderAt(r) ==
  rfd[r] # None =>
    /\ data[rfd[r]] \in Contents
    /\ \A w \in Writers : removeTemp[w] => dir[temp[w]] # rfd[r]
    /\ PartOf(got[r], data[rfd[r]])

IInv ==
  /\ TypeOK
  /\ OneNamePerInode
  /\ \A w \in Writers : LocalsAt(w)
  /\ \A w \in Writers : FileAt(w)
  /\ NamesDistinct
  /\ TargetWhole
  /\ \A r \in Readers : ReaderAt(r)

-----------------------------------------------------------------------------
(* The next segment of t, appended to a part of t, makes a longer part.    *)
LEMMA NextSegment ==
  ASSUME NEW S, NEW T, NEW s \in Seq(S), NEW t \in Seq(T),
         PartOf(s, t), Len(s) < Len(t)
  PROVE  /\ t[Len(s) + 1] \in T
         /\ PartOf(Append(s, t[Len(s) + 1]), t)
         /\ Len(Append(s, t[Len(s) + 1])) = Len(s) + 1
BY DEF PartOf

(* A part of t that is as long as t is t.                                  *)
LEMMA WholePart ==
  ASSUME NEW S, NEW s \in Seq(S), NEW t \in Seq(S),
         PartOf(s, t), Len(s) = Len(t)
  PROVE  s = t
BY SeqEqual DEF PartOf

(* Layouts are complete files: sequences of at least one segment, and none *)
(* of them is torn.                                                        *)
LEMMA LayoutFacts ==
  ASSUME NEW v \in Images
  PROVE  /\ Layout[v] \in Seq(Segments)
         /\ Layout[v] \in Seq(Segments \cup {Torn})
         /\ Len(Layout[v]) \in Nat
         /\ Len(Layout[v]) > 0
         /\ Layout[v] \in Contents
         /\ v # None
BY LayoutAssumption, NoneAssumption, EmptySeq DEF Contents

(* Before the first call there is the destination or nothing.              *)
LEMMA InitIInv == Init => IInv
<1> SUFFICES ASSUME Init PROVE IInv
  OBVIOUS
<1>0. << >> \in Seq(Segments \cup {Torn})
  OBVIOUS
<1>1. TypeOK
  <2>1. dir \in [Names -> Inodes \cup {None}]
    BY DEF Init
  <2>2. data \in [Inodes -> Seq(Segments \cup {Torn})]
    BY <1>0, LayoutFacts DEF Init
  <2> QED
    BY <1>0, <2>1, <2>2 DEF Init, TypeOK, Stages
<1>2. OneNamePerInode /\ TargetWhole
  BY LayoutFacts, NoneAssumption DEF Init, OneNamePerInode, TargetWhole, Names
<1>3. \A w \in Writers : LocalsAt(w) /\ FileAt(w)
  BY DEF Init, LocalsAt, FileAt
<1>4. NamesDistinct /\ \A r \in Readers : ReaderAt(r)
  BY DEF Init, NamesDistinct, ReaderAt
<1> QED
  BY <1>1, <1>2, <1>3, <1>4 DEF IInv

-----------------------------------------------------------------------------
(* The steps of a writer that touch neither the directory nor a file.      *)

LEMMA BeginKeeps ==
  ASSUME IInv, NEW w \in Writers, NEW v \in Images, Begin(w, v)
  PROVE  IInv'
<1>1. TypeOK'
  BY NoneAssumption DEF IInv, Begin, rvars, TypeOK, Stages
<1>2. OneNamePerInode'
  BY NoneAssumption DEF IInv, Begin, rvars, OneNamePerInode
<1>3. \A x \in Writers : LocalsAt(x)'
  BY NoneAssumption DEF IInv, Begin, rvars, TypeOK, LocalsAt
<1>4. \A x \in Writers : FileAt(x)'
  BY NoneAssumption DEF IInv, Begin, rvars, TypeOK, LocalsAt, FileAt
<1>5. NamesDistinct'
  BY NoneAssumption DEF IInv, Begin, rvars, TypeOK, NamesDistinct
<1>6. TargetWhole'
  BY NoneAssumption DEF IInv, Begin, rvars, TargetWhole
<1>7. \A r \in Readers : ReaderAt(r)'
  BY NoneAssumption DEF IInv, Begin, rvars, TypeOK, ReaderAt
<1> QED
  BY <1>1, <1>2, <1>3, <1>4, <1>5, <1>6, <1>7 DEF IInv

(* A refused call has only its outcome to set.                             *)
LEMMA RejectKeeps ==
  ASSUME IInv, NEW w \in Writers, Reject(w)
  PROVE  IInv'
<1>1. TypeOK'
  BY DEF IInv, Reject, rvars, TypeOK, Stages
<1>2. OneNamePerInode'
  BY DEF IInv, Reject, rvars, OneNamePerInode
<1>3. \A x \in Writers : LocalsAt(x)'
  BY DEF IInv, Reject, rvars, TypeOK, LocalsAt
<1>4. \A x \in Writers : FileAt(x)'
  BY DEF IInv, Reject, rvars, TypeOK, LocalsAt, FileAt
<1>5. NamesDistinct'
  BY DEF IInv, Reject, rvars, TypeOK, NamesDistinct
<1>6. TargetWhole'
  BY DEF IInv, Reject, rvars, TargetWhole
<1>7. \A r \in Readers : ReaderAt(r)'
  BY DEF IInv, Reject, rvars, TypeOK, ReaderAt
<1> QED
  BY <1>1, <1>2, <1>3, <1>4, <1>5, <1>6, <1>7 DEF IInv

(* A call without a temporary file has nothing to leave behind.            *)
LEMMA CreateFailsKeeps ==
  ASSUME IInv, NEW w \in Writers, CreateFails(w)
  PROVE  IInv'
<1>1. TypeOK'
  BY DEF IInv, CreateFails, Return, rvars, TypeOK, Stages
<1>2. OneNamePerInode'
  BY DEF IInv, CreateFails, Return, rvars, OneNamePerInode
<1>3. \A x \in Writers : LocalsAt(x)'
  BY DEF IInv, CreateFails, Return, rvars, TypeOK, LocalsAt
<1>4. \A x \in Writers : FileAt(x)'
  BY DEF IInv, CreateFails, Return, rvars, TypeOK, LocalsAt, FileAt
<1>5. NamesDistinct'
  BY DEF IInv, CreateFails, Return, rvars, TypeOK, NamesDistinct
<1>6. TargetWhole'
  BY DEF IInv, CreateFails, Return, rvars, TargetWhole
<1>7. \A r \in Readers : ReaderAt(r)'
  BY DEF IInv, CreateFails, Return, rvars, TypeOK, ReaderAt
<1> QED
  BY <1>1, <1>2, <1>3, <1>4, <1>5, <1>6, <1>7 DEF IInv

(* A closed temporary file is the whole image.                             *)
LEMMA CloseTempKeeps ==
  ASSUME IInv, NEW w \in Writers, CloseTemp(w)
  PROVE  IInv'
<1>1. TypeOK'
  BY DEF IInv, CloseTemp, rvars, TypeOK, Stages
<1>2. OneNamePerInode'
  BY DEF IInv, CloseTemp, rvars, OneNamePerInode
<1>3. \A x \in Writers : LocalsAt(x)'
  BY DEF IInv, CloseTemp, rvars, TypeOK, LocalsAt
<1>4. \A x \in Writers : FileAt(x)'
  BY DEF IInv, CloseTemp, rvars, TypeOK, LocalsAt, FileAt
<1>5. NamesDistinct'
  BY DEF IInv, CloseTemp, rvars, TypeOK, NamesDistinct
<1>6. TargetWhole'
  BY DEF IInv, CloseTemp, rvars, TargetWhole
<1>7. \A r \in Readers : ReaderAt(r)'
  BY DEF IInv, CloseTemp, rvars, TypeOK, ReaderAt
<1> QED
  BY <1>1, <1>2, <1>3, <1>4, <1>5, <1>6, <1>7 DEF IInv

(* A refused rename leaves both names where they are.                      *)
LEMMA ReplaceFailsKeeps ==
  ASSUME IInv, NEW w \in Writers, ReplaceFails(w)
  PROVE  IInv'
<1>1. TypeOK'
  BY DEF IInv, ReplaceFails, rvars, TypeOK, Stages
<1>2. OneNamePerInode'
  BY DEF IInv, ReplaceFails, rvars, OneNamePerInode
<1>3. \A x \in Writers : LocalsAt(x)'
  BY DEF IInv, ReplaceFails, rvars, TypeOK, LocalsAt
<1>4. \A x \in Writers : FileAt(x)'
  BY DEF IInv, ReplaceFails, rvars, TypeOK, LocalsAt, FileAt
<1>5. NamesDistinct'
  BY DEF IInv, ReplaceFails, rvars, TypeOK, NamesDistinct
<1>6. TargetWhole'
  BY DEF IInv, ReplaceFails, rvars, TargetWhole
<1>7. \A r \in Readers : ReaderAt(r)'
  BY DEF IInv, ReplaceFails, rvars, TypeOK, ReaderAt
<1> QED
  BY <1>1, <1>2, <1>3, <1>4, <1>5, <1>6, <1>7 DEF IInv

(* A call that succeeded no longer has a temporary name.                   *)
LEMMA DeferredReturnKeeps ==
  ASSUME IInv, NEW w \in Writers, DeferredReturn(w)
  PROVE  IInv'
<1>1. TypeOK'
  BY DEF IInv, DeferredReturn, Return, rvars, TypeOK, Stages
<1>2. OneNamePerInode'
  BY DEF IInv, DeferredReturn, Return, rvars, OneNamePerInode
<1>3. \A x \in Writers : LocalsAt(x)'
  BY DEF IInv, DeferredReturn, Return, rvars, TypeOK, LocalsAt
<1>4. \A x \in Writers : FileAt(x)'
  BY DEF IInv, DeferredReturn, Return, rvars, TypeOK, LocalsAt, FileAt
<1>5. NamesDistinct'
  BY DEF IInv, DeferredReturn, Return, rvars, TypeOK, NamesDistinct
<1>6. TargetWhole'
  BY DEF IInv, DeferredReturn, Return, rvars, TargetWhole
<1>7. \A r \in Readers : ReaderAt(r)'
  BY DEF IInv, DeferredReturn, Return, rvars, TypeOK, ReaderAt
<1> QED
  BY <1>1, <1>2, <1>3, <1>4, <1>5, <1>6, <1>7 DEF IInv

(* The deferred Close frees the descriptor and keeps the name.             *)
LEMMA DeferredCloseKeeps ==
  ASSUME IInv, NEW w \in Writers, DeferredClose(w)
  PROVE  IInv'
<1>1. TypeOK'
  BY DEF IInv, DeferredClose, rvars, TypeOK, Stages
<1>2. OneNamePerInode'
  BY DEF IInv, DeferredClose, rvars, OneNamePerInode
<1>3. \A x \in Writers : LocalsAt(x)'
  BY DEF IInv, DeferredClose, rvars, TypeOK, LocalsAt
<1>4. \A x \in Writers : FileAt(x)'
  BY DEF IInv, DeferredClose, rvars, TypeOK, LocalsAt, FileAt
<1>5. NamesDistinct'
  BY DEF IInv, DeferredClose, rvars, TypeOK, NamesDistinct
<1>6. TargetWhole'
  BY DEF IInv, DeferredClose, rvars, TargetWhole
<1>7. \A r \in Readers : ReaderAt(r)'
  BY DEF IInv, DeferredClose, rvars, TypeOK, ReaderAt
<1> QED
  BY <1>1, <1>2, <1>3, <1>4, <1>5, <1>6, <1>7 DEF IInv

(* A failed Remove leaves a file to which no call has a claim.             *)
LEMMA RemoveFailsKeeps ==
  ASSUME IInv, NEW w \in Writers, RemoveFails(w)
  PROVE  IInv'
<1>1. TypeOK'
  BY DEF IInv, RemoveFails, Return, rvars, TypeOK, Stages, LocalsAt, FileAt
<1>2. OneNamePerInode'
  BY DEF IInv, RemoveFails, Return, rvars, OneNamePerInode
<1>3. \A x \in Writers : LocalsAt(x)'
  BY DEF IInv, RemoveFails, Return, rvars, TypeOK, LocalsAt
<1>4. \A x \in Writers : FileAt(x)'
  BY DEF IInv, RemoveFails, Return, rvars, TypeOK, LocalsAt, FileAt
<1>5. NamesDistinct'
  BY DEF IInv, RemoveFails, Return, rvars, TypeOK, NamesDistinct
<1>6. TargetWhole'
  BY DEF IInv, RemoveFails, Return, rvars, TargetWhole
<1>7. \A r \in Readers : ReaderAt(r)'
  BY DEF IInv, RemoveFails, Return, rvars, TypeOK, ReaderAt
<1> QED
  BY <1>1, <1>2, <1>3, <1>4, <1>5, <1>6, <1>7 DEF IInv

(* A dead process has no locals and no open files.                         *)
LEMMA CrashKeeps ==
  ASSUME IInv, NEW w \in Writers, Crash(w)
  PROVE  IInv'
<1>1. TypeOK'
  BY DEF IInv, Crash, Return, rvars, TypeOK, Stages, LocalsAt, FileAt
<1>2. OneNamePerInode'
  BY DEF IInv, Crash, Return, rvars, OneNamePerInode
<1>3. \A x \in Writers : LocalsAt(x)'
  BY DEF IInv, Crash, Return, rvars, TypeOK, LocalsAt
<1>4. \A x \in Writers : FileAt(x)'
  BY DEF IInv, Crash, Return, rvars, TypeOK, LocalsAt, FileAt
<1>5. NamesDistinct'
  BY DEF IInv, Crash, Return, rvars, TypeOK, NamesDistinct
<1>6. TargetWhole'
  BY DEF IInv, Crash, Return, rvars, TargetWhole
<1>7. \A r \in Readers : ReaderAt(r)'
  BY DEF IInv, Crash, Return, rvars, TypeOK, ReaderAt
<1> QED
  BY <1>1, <1>2, <1>3, <1>4, <1>5, <1>6, <1>7 DEF IInv

-----------------------------------------------------------------------------
(* The steps of a writer that change the directory or a file.              *)

LEMMA CreateTempKeeps ==
  ASSUME IInv, NEW w \in Writers, NEW n \in TempNames, NEW i \in Inodes,
         CreateTemp(w, n, i)
  PROVE  IInv'
<1> USE TargetAssumption, NoneAssumption
<1>0. /\ i # None /\ n # Target /\ n \in Names /\ Target \in Names
      /\ \A m \in Names : dir[m] # i
      /\ \A x \in Writers : fd[x] # i
      /\ \A r \in Readers : rfd[r] # i
  BY DEF CreateTemp, InUse, Names
<1>1. TypeOK'
  BY <1>0 DEF IInv, CreateTemp, rvars, TypeOK, Stages
<1>2. OneNamePerInode'
  BY <1>0 DEF IInv, CreateTemp, TypeOK, OneNamePerInode
<1>3. \A x \in Writers : LocalsAt(x)'
  BY <1>0 DEF IInv, CreateTemp, TypeOK, LocalsAt, FileAt, Names
<1>4. \A x \in Writers : FileAt(x)'
  <2> SUFFICES ASSUME NEW x \in Writers PROVE FileAt(x)'
    OBVIOUS
  <2>1. CASE x = w
    <3>1. /\ removeTemp'[w] /\ temp'[w] = n /\ dir'[n] = i /\ fd'[w] = i
          /\ pc'[w] = "write" /\ img'[w] = img[w] /\ data'[i] = << >>
      BY <1>0 DEF IInv, CreateTemp, TypeOK
    <3>2. img[w] \in Images
      BY DEF IInv, CreateTemp, TypeOK, LocalsAt
    <3>3. PartOf(<< >>, Layout[img[w]]) /\ Len(<< >>) < Len(Layout[img[w]])
      BY <3>2, LayoutFacts DEF PartOf
    <3> QED
      BY <1>0, <2>1, <3>1, <3>3 DEF FileAt
  <2>2. CASE x # w
    BY <1>0, <2>2 DEF IInv, CreateTemp, TypeOK, LocalsAt, FileAt, Names
  <2> QED
    BY <2>1, <2>2
<1>5. NamesDistinct'
  BY <1>0 DEF IInv, CreateTemp, TypeOK, FileAt, NamesDistinct
<1>6. TargetWhole'
  BY <1>0 DEF IInv, CreateTemp, TypeOK, TargetWhole
<1>7. \A r \in Readers : ReaderAt(r)'
  BY <1>0 DEF IInv, CreateTemp, rvars, TypeOK, FileAt, ReaderAt, Names
<1> QED
  BY <1>1, <1>2, <1>3, <1>4, <1>5, <1>6, <1>7 DEF IInv

(* Storing anything in w's open temporary file disturbs no other call, no  *)
(* reader and not the destination: its inode has one name.                 *)
LEMMA OnlyOwnFile ==
  ASSUME IInv, NEW w \in Writers, pc[w] \in {"write", "close"}
  PROVE  /\ fd[w] \in Inodes
         /\ img[w] \in Images
         /\ dir[Target] # fd[w]
         /\ \A x \in Writers \ {w} : fd[x] # None => fd[x] # fd[w]
         /\ \A x \in Writers \ {w} : removeTemp[x] => dir[temp[x]] # fd[w]
         /\ \A r \in Readers : rfd[r] # fd[w]
<1> USE TargetAssumption, NoneAssumption
<1>1. /\ removeTemp[w] /\ fd[w] = dir[temp[w]] /\ fd[w] # None
      /\ temp[w] \in TempNames /\ temp[w] \in Names /\ fd[w] \in Inodes
  BY DEF IInv, TypeOK, LocalsAt, FileAt, Names
<1>2. img[w] \in Images
  BY DEF IInv, TypeOK, LocalsAt
<1>3. dir[Target] # fd[w]
  BY <1>1 DEF IInv, OneNamePerInode, Names
<1>4. \A x \in Writers \ {w} : removeTemp[x] => dir[temp[x]] # fd[w]
  BY <1>1 DEF IInv, OneNamePerInode, NamesDistinct, FileAt, Names
<1>5. \A x \in Writers \ {w} : fd[x] # None => removeTemp[x] /\ fd[x] = dir[temp[x]]
  BY DEF IInv, LocalsAt, TypeOK, Stages
<1>6. \A r \in Readers : rfd[r] # fd[w]
  BY <1>1 DEF IInv, ReaderAt
<1> QED
  BY <1>1, <1>2, <1>3, <1>4, <1>5, <1>6

(* The file stays a part of its image, and is closed when it is all of it. *)
LEMMA WriteSegmentKeeps ==
  ASSUME IInv, NEW w \in Writers, WriteSegment(w)
  PROVE  IInv'
<1> DEFINE f == fd[w]
           t == Layout[img[w]]
           s == Append(data[f], t[Len(data[f]) + 1])
<1> USE NoneAssumption
<1>a. /\ f \in Inodes /\ img[w] \in Images /\ dir[Target] # f
      /\ \A x \in Writers \ {w} : fd[x] # None => fd[x] # f
      /\ \A x \in Writers \ {w} : removeTemp[x] => dir[temp[x]] # f
      /\ \A r \in Readers : rfd[r] # f
  BY OnlyOwnFile DEF WriteSegment
<1>b. /\ data[f] \in Seq(Segments \cup {Torn})
      /\ t \in Seq(Segments)
      /\ t \in Seq(Segments \cup {Torn})
      /\ PartOf(data[f], t)
      /\ Len(data[f]) < Len(t)
  BY <1>a, LayoutFacts DEF IInv, TypeOK, FileAt, WriteSegment
<1>c. /\ PartOf(s, t) /\ Len(s) = Len(data[f]) + 1 /\ s \in Seq(Segments \cup {Torn})
      /\ Len(s) \in Nat
  BY <1>b, NextSegment
<1>d. Len(s) = Len(t) => s = t
  <2> HIDE DEF s, t
  <2> QED
    BY <1>b, <1>c, WholePart
<1>e. /\ data' = [data EXCEPT ![f] = s]
      /\ pc[w] = "write"
      /\ pc' = [pc EXCEPT ![w] = IF Len(s) = Len(t) THEN "close" ELSE "write"]
      /\ UNCHANGED <<dir, img, temp, fd, removeTemp, outcome, rfd, got, seen, orphans>>
  BY <1>a, <1>c DEF IInv, TypeOK, WriteSegment, rvars
<1>f. data'[f] = s /\ \A j \in Inodes : j # f => data'[j] = data[j]
  BY <1>a, <1>e DEF IInv, TypeOK
<1> HIDE DEF f, t, s
<1>1. TypeOK'
  BY <1>a, <1>c, <1>e DEF IInv, TypeOK, Stages
<1>2. OneNamePerInode'
  BY <1>e DEF IInv, OneNamePerInode
<1>3. \A x \in Writers : LocalsAt(x)'
  BY <1>e DEF IInv, TypeOK, LocalsAt
<1>4. \A x \in Writers : FileAt(x)'
  <2> SUFFICES ASSUME NEW x \in Writers PROVE FileAt(x)'
    OBVIOUS
  <2>1. CASE x = w
    <3>1. /\ fd'[w] = f /\ Layout[img'[w]] = t /\ data'[fd'[w]] = s
          /\ pc'[w] = IF Len(s) = Len(t) THEN "close" ELSE "write"
      BY <1>e, <1>f DEF IInv, TypeOK, f, t
    <3>2. Len(s) <= Len(t)
      BY <1>c DEF PartOf
    <3>3. Len(s) # Len(t) => Len(s) < Len(t)
      BY <1>b, <1>c, <3>2
    <3> QED
      BY <1>c, <1>d, <1>e, <2>1, <3>1, <3>3 DEF IInv, FileAt
  <2>2. CASE x # w
    <3>1. pc'[x] = pc[x]
      BY <1>e, <2>2 DEF IInv, TypeOK
    <3>2. pc[x] \in {"write", "close"} => fd[x] \in Inodes /\ fd[x] # f
      <4>1. pc[x] \in {"write", "close"} => fd[x] # None
        BY DEF IInv, LocalsAt, FileAt
      <4> QED
        BY <1>a, <2>2, <4>1 DEF IInv, TypeOK
    <3>3. pc[x] = "replace" => removeTemp[x] /\ dir[temp[x]] \in Inodes /\ dir[temp[x]] # f
      BY <1>a, <2>2 DEF IInv, TypeOK, LocalsAt, FileAt, Names
    <3> QED
      BY <1>e, <1>f, <3>1, <3>2, <3>3 DEF IInv, FileAt
  <2> QED
    BY <2>1, <2>2
<1>5. NamesDistinct'
  BY <1>e DEF IInv, NamesDistinct
<1>6. TargetWhole'
  BY <1>a, <1>e, <1>f DEF IInv, TypeOK, TargetWhole, Contents, Names
<1>7. \A r \in Readers : ReaderAt(r)'
  BY <1>a, <1>e, <1>f DEF IInv, TypeOK, ReaderAt, Contents
<1> QED
  BY <1>1, <1>2, <1>3, <1>4, <1>5, <1>6, <1>7 DEF IInv

(* The same for a failure: whatever it leaves in the file, it is only w's. *)
LEMMA SpoiledFileKeeps ==
  ASSUME IInv, NEW w \in Writers, NEW s \in Seq(Segments \cup {Torn}),
         pc[w] \in {"write", "close"},
         data' = [data EXCEPT ![fd[w]] = s],
         pc' = [pc EXCEPT ![w] = "deferred"],
         fd' = fd \/ fd' = [fd EXCEPT ![w] = None],
         UNCHANGED <<dir, img, temp, removeTemp, outcome, rfd, got, seen, orphans>>
  PROVE  IInv'
<1> DEFINE f == fd[w]
<1> USE NoneAssumption
<1>a. /\ f \in Inodes /\ img[w] \in Images /\ dir[Target] # f
      /\ \A x \in Writers \ {w} : fd[x] # None => fd[x] # f
      /\ \A x \in Writers \ {w} : removeTemp[x] => dir[temp[x]] # f
      /\ \A r \in Readers : rfd[r] # f
  BY OnlyOwnFile
<1>f. \A j \in Inodes : j # f => data'[j] = data[j]
  BY <1>a DEF IInv, TypeOK
<1> HIDE DEF f
<1>1. TypeOK'
  BY <1>a DEF IInv, TypeOK, Stages
<1>2. OneNamePerInode'
  BY DEF IInv, OneNamePerInode
<1>3. \A x \in Writers : LocalsAt(x)'
  BY DEF IInv, TypeOK, LocalsAt
<1>4. \A x \in Writers : FileAt(x)'
  <2> SUFFICES ASSUME NEW x \in Writers PROVE FileAt(x)'
    OBVIOUS
  <2>1. CASE x = w
    BY <2>1 DEF IInv, TypeOK, FileAt
  <2>2. CASE x # w
    <3>1. pc'[x] = pc[x] /\ fd'[x] = fd[x]
      BY <2>2 DEF IInv, TypeOK
    <3>2. pc[x] \in {"write", "close"} => fd[x] \in Inodes /\ fd[x] # f
      <4>1. pc[x] \in {"write", "close"} => fd[x] # None
        BY DEF IInv, LocalsAt, FileAt
      <4> QED
        BY <1>a, <2>2, <4>1 DEF IInv, TypeOK
    <3>3. pc[x] = "replace" => removeTemp[x] /\ dir[temp[x]] \in Inodes /\ dir[temp[x]] # f
      BY <1>a, <2>2 DEF IInv, TypeOK, LocalsAt, FileAt, Names
    <3> QED
      BY <1>f, <3>1, <3>2, <3>3 DEF IInv, FileAt
  <2> QED
    BY <2>1, <2>2
<1>5. NamesDistinct'
  BY DEF IInv, NamesDistinct
<1>6. TargetWhole'
  BY <1>a, <1>f DEF IInv, TypeOK, TargetWhole, Contents, Names
<1>7. \A r \in Readers : ReaderAt(r)'
  <2> SUFFICES ASSUME NEW r \in Readers PROVE ReaderAt(r)'
    OBVIOUS
  <2>1. ReaderAt(r) /\ rfd[r] \in Inodes \cup {None} /\ rfd[r] # f
    BY <1>a DEF IInv, TypeOK
  <2>2. rfd[r] # None => data'[rfd[r]] = data[rfd[r]]
    BY <1>f, <2>1
  <2> QED
    BY <2>1, <2>2 DEF ReaderAt, Contents
<1> QED
  BY <1>1, <1>2, <1>3, <1>4, <1>5, <1>6, <1>7 DEF IInv

(* A torn file never gets past the deferred function.                      *)
LEMMA WriteFailsKeeps ==
  ASSUME IInv, NEW w \in Writers, WriteFails(w)
  PROVE  IInv'
<1>1. fd[w] \in Inodes
  BY OnlyOwnFile DEF WriteFails
<1>2. data[fd[w]] \in Seq(Segments \cup {Torn})
  BY <1>1 DEF IInv, TypeOK
<1>3. Append(data[fd[w]], Torn) \in Seq(Segments \cup {Torn})
  BY <1>2
<1>4. data = [data EXCEPT ![fd[w]] = data[fd[w]]]
  BY DEF IInv, TypeOK
<1> QED
  BY <1>2, <1>3, <1>4, SpoiledFileKeeps DEF WriteFails, rvars

(* Nor does one whose Close failed.                                        *)
LEMMA CloseFailsKeeps ==
  ASSUME IInv, NEW w \in Writers, CloseFails(w)
  PROVE  IInv'
<1>1. <<Torn>> \in Seq(Segments \cup {Torn})
  OBVIOUS
<1> QED
  BY <1>1, SpoiledFileKeeps DEF CloseFails, rvars

(* The rename moves a whole file to the destination, which no call owns then. *)
LEMMA ReplaceKeeps ==
  ASSUME IInv, NEW w \in Writers, Replace(w)
  PROVE  IInv'
<1> DEFINE i == dir[temp[w]]
<1> USE NoneAssumption, TargetAssumption
<1>a. /\ temp[w] \in TempNames /\ temp[w] \in Names /\ Target \in Names
      /\ temp[w] # Target /\ i \in Inodes
      /\ fd[w] = None /\ img[w] \in Images /\ data[i] = Layout[img[w]]
      /\ \A n \in Names : dir[n] = i => n = temp[w]
      /\ \A x \in Writers \ {w} : removeTemp[x] => temp[x] # temp[w] /\ temp[x] # Target
      /\ \A r \in Readers : rfd[r] # i
  BY DEF IInv, TypeOK, LocalsAt, FileAt, NamesDistinct, OneNamePerInode, ReaderAt, Replace, Names
<1>b. /\ dir'[Target] = i /\ dir'[temp[w]] = None
      /\ \A n \in Names \ {Target, temp[w]} : dir'[n] = dir[n]
  BY <1>a DEF IInv, TypeOK, Replace, TempInode
<1>c. /\ pc' = [pc EXCEPT ![w] = "deferred"]
      /\ removeTemp' = [removeTemp EXCEPT ![w] = FALSE]
      /\ UNCHANGED <<data, img, temp, fd, outcome, rfd, got, seen, orphans>>
  BY DEF Replace, rvars
<1>d. \A x \in Writers \ {w} : removeTemp[x] => dir'[temp[x]] = dir[temp[x]]
  BY <1>a, <1>b DEF IInv, FileAt, Names
<1>1. TypeOK'
  BY <1>a DEF IInv, Replace, TempInode, rvars, TypeOK, Stages
<1>2. OneNamePerInode'
  BY <1>a, <1>b DEF IInv, OneNamePerInode
<1>3. \A x \in Writers : LocalsAt(x)'
  BY <1>a, <1>c, <1>d DEF IInv, TypeOK, LocalsAt
<1>4. \A x \in Writers : FileAt(x)'
  <2> SUFFICES ASSUME NEW x \in Writers PROVE FileAt(x)'
    OBVIOUS
  <2>1. CASE x = w
    BY <1>c, <2>1 DEF IInv, TypeOK, FileAt
  <2>2. CASE x # w
    BY <1>c, <1>d, <2>2 DEF IInv, TypeOK, LocalsAt, FileAt
  <2> QED
    BY <2>1, <2>2
<1>5. NamesDistinct'
  BY <1>c DEF IInv, TypeOK, NamesDistinct
<1>6. TargetWhole'
  BY <1>a, <1>b, <1>c, LayoutFacts DEF TargetWhole, Contents
<1>7. \A r \in Readers : ReaderAt(r)'
  <2> SUFFICES ASSUME NEW r \in Readers PROVE ReaderAt(r)'
    OBVIOUS
  <2>1. ReaderAt(r)
    BY DEF IInv
  <2>2. rfd' = rfd /\ got' = got /\ data' = data /\ temp' = temp /\ rfd[r] # i
    BY <1>a, <1>c
  <2>3. \A x \in Writers : removeTemp'[x] => x # w /\ removeTemp[x]
    BY <1>c DEF IInv, TypeOK
  <2> QED
    BY <1>d, <2>1, <2>2, <2>3 DEF ReaderAt, Contents
<1> QED
  BY <1>1, <1>2, <1>3, <1>4, <1>5, <1>6, <1>7 DEF IInv

(* Only the name of the call's own file goes away.                         *)
LEMMA DeferredRemoveKeeps ==
  ASSUME IInv, NEW w \in Writers, DeferredRemove(w)
  PROVE  IInv'
<1> USE NoneAssumption, TargetAssumption
<1>a. /\ temp[w] \in TempNames /\ temp[w] \in Names /\ Target \in Names /\ temp[w] # Target
      /\ \A x \in Writers \ {w} : removeTemp[x] => temp[x] \in Names /\ temp[x] # temp[w]
  BY DEF IInv, LocalsAt, FileAt, NamesDistinct, DeferredRemove, Names
<1>b. /\ dir'[temp[w]] = None
      /\ \A n \in Names \ {temp[w]} : dir'[n] = dir[n]
  BY <1>a DEF IInv, TypeOK, DeferredRemove
<1>1. TypeOK'
  BY <1>a DEF IInv, DeferredRemove, Return, rvars, TypeOK, Stages
<1>2. OneNamePerInode'
  BY <1>a, <1>b DEF IInv, OneNamePerInode
<1>3. \A x \in Writers : LocalsAt(x)'
  <2> SUFFICES ASSUME NEW x \in Writers PROVE LocalsAt(x)'
    OBVIOUS
  <2>1. CASE x = w
    BY <2>1 DEF IInv, TypeOK, DeferredRemove, Return, LocalsAt
  <2>2. CASE x # w
    <3>1. /\ pc'[x] = pc[x] /\ img'[x] = img[x] /\ temp'[x] = temp[x]
          /\ fd'[x] = fd[x] /\ removeTemp'[x] = removeTemp[x]
      BY <2>2 DEF IInv, TypeOK, DeferredRemove, Return
    <3>2. removeTemp[x] => dir'[temp[x]] = dir[temp[x]]
      BY <1>a, <1>b, <2>2
    <3> QED
      BY <3>1, <3>2 DEF IInv, LocalsAt
  <2> QED
    BY <2>1, <2>2
<1>4. \A x \in Writers : FileAt(x)'
  BY <1>a, <1>b DEF IInv, TypeOK, DeferredRemove, Return, LocalsAt, FileAt
<1>5. NamesDistinct'
  BY DEF IInv, TypeOK, DeferredRemove, Return, NamesDistinct
<1>6. TargetWhole'
  BY <1>a, <1>b DEF IInv, DeferredRemove, Return, TargetWhole
<1>7. \A r \in Readers : ReaderAt(r)'
  BY <1>a, <1>b DEF IInv, TypeOK, DeferredRemove, Return, rvars, ReaderAt, Contents
<1> QED
  BY <1>1, <1>2, <1>3, <1>4, <1>5, <1>6, <1>7 DEF IInv

(* The steps of a reader change nothing but its own descriptor and buffer. *)
LEMMA ReaderKeeps ==
  ASSUME IInv, NEW r \in Readers,
         OpenFile(r) \/ OpenFails(r) \/ ReaderStep(r)
  PROVE  IInv'
<1>a. UNCHANGED <<dir, data, pc, img, temp, fd, removeTemp, outcome, orphans>>
  BY DEF OpenFile, OpenFails, ReaderStep, ReadSegment, ReadEnds, wvars
<1>b. dir[Target] # None => dir[Target] \in Inodes /\ data[dir[Target]] \in Seq(Segments \cup {Torn})
  BY DEF IInv, TypeOK, Names
<1>c. rfd[r] # None =>
        /\ data[rfd[r]] \in Seq(Segments \cup {Torn}) /\ got[r] \in Seq(Segments \cup {Torn})
        /\ PartOf(got[r], data[rfd[r]])
  BY DEF IInv, TypeOK, ReaderAt
<1>1. TypeOK'
  <2>1. CASE OpenFile(r)
    BY <1>b, <2>1 DEF IInv, OpenFile, wvars, TypeOK
  <2>2. CASE OpenFails(r)
    BY <2>2 DEF IInv, OpenFails, wvars, TypeOK
  <2>3. CASE ReadSegment(r)
    <3>1. Append(got[r], data[rfd[r]][Len(got[r]) + 1]) \in Seq(Segments \cup {Torn})
      BY <1>c, <2>3, NextSegment DEF ReadSegment
    <3> QED
      BY <2>3, <3>1 DEF IInv, ReadSegment, wvars, TypeOK
  <2>4. CASE ReadEnds(r)
    BY <1>c, <2>4 DEF IInv, ReadEnds, wvars, TypeOK
  <2> QED
    BY <2>1, <2>2, <2>3, <2>4 DEF ReaderStep
<1>2. OneNamePerInode'
  BY <1>a DEF IInv, OneNamePerInode
<1>3. \A x \in Writers : LocalsAt(x)'
  BY <1>a DEF IInv, LocalsAt
<1>4. \A x \in Writers : FileAt(x)'
  BY <1>a DEF IInv, FileAt
<1>5. NamesDistinct'
  BY <1>a DEF IInv, NamesDistinct
<1>6. TargetWhole'
  BY <1>a DEF IInv, TargetWhole, Contents
<1>7. \A x \in Readers : ReaderAt(x)'
  <2> SUFFICES ASSUME NEW x \in Readers PROVE ReaderAt(x)'
    OBVIOUS
  <2>1. CASE x # r
    <3>1. rfd'[x] = rfd[x] /\ got'[x] = got[x]
      BY <2>1 DEF IInv, TypeOK, OpenFile, OpenFails, ReaderStep, ReadSegment, ReadEnds
    <3>2. ReaderAt(x)
      BY DEF IInv
    <3> QED
      BY <1>a, <3>1, <3>2 DEF ReaderAt, Contents
  <2>2. CASE x = r /\ OpenFile(r)
    <3>1. PartOf(<< >>, data[dir[Target]])
      BY <1>b, <2>2 DEF OpenFile, PartOf
    <3>2. \A w \in Writers : removeTemp[w] => dir[temp[w]] # dir[Target]
      BY <2>2, TargetAssumption DEF IInv, OpenFile, FileAt, OneNamePerInode, Names
    <3> QED
      BY <1>a, <2>2, <3>1, <3>2 DEF IInv, TypeOK, OpenFile, ReaderAt, TargetWhole, Contents
  <2>3. CASE x = r /\ ReadSegment(r)
    <3>1. PartOf(Append(got[r], data[rfd[r]][Len(got[r]) + 1]), data[rfd[r]])
      BY <1>c, <2>3, NextSegment DEF ReadSegment
    <3> QED
      BY <1>a, <2>3, <3>1 DEF IInv, TypeOK, ReadSegment, ReaderAt, Contents
  <2>4. CASE x = r /\ (OpenFails(r) \/ ReadEnds(r))
    BY <1>a, <2>4, NoneAssumption DEF IInv, TypeOK, OpenFails, ReadEnds, ReaderAt
  <2> QED
    BY <2>1, <2>2, <2>3, <2>4 DEF ReaderStep
<1> QED
  BY <1>1, <1>2, <1>3, <1>4, <1>5, <1>6, <1>7 DEF IInv

-----------------------------------------------------------------------------
(* Whatever a running call does next.                                      *)
LEMMA WriterStepKeeps ==
  ASSUME IInv, NEW w \in Writers, WriterStep(w)
  PROVE  IInv'
BY CreateTempKeeps, CreateFailsKeeps, WriteSegmentKeeps, WriteFailsKeeps,
   CloseTempKeeps, CloseFailsKeeps, ReplaceKeeps, ReplaceFailsKeeps,
   DeferredReturnKeeps, DeferredCloseKeeps, DeferredRemoveKeeps, RemoveFailsKeeps
   DEF WriterStep

(* The induction step: calls, crashes and reads keep the invariant.        *)
LEMMA StepKeeps == IInv /\ [Next]_vars => IInv'
<1> SUFFICES ASSUME IInv, [Next]_vars PROVE IInv'
  OBVIOUS
<1>1. CASE UNCHANGED vars
  BY <1>1 DEF IInv, vars, TypeOK, OneNamePerInode, LocalsAt, FileAt, NamesDistinct,
              TargetWhole, ReaderAt, Contents
<1>2. CASE \E w \in Writers :
             \/ \E v \in Images : Begin(w, v)
             \/ Reject(w)
             \/ WriterStep(w)
             \/ Crash(w)
  BY <1>2, BeginKeeps, RejectKeeps, WriterStepKeeps, CrashKeeps
<1>3. CASE \E r \in Readers : OpenFile(r) \/ OpenFails(r) \/ ReaderStep(r)
  BY <1>3, ReaderKeeps
<1> QED
  BY <1>1, <1>2, <1>3 DEF Next

(* The inductive invariant: what each point of writeFileAtomic knows of    *)
(* its own temporary file, and that nothing else leads to that file.       *)
THEOREM InductiveInvariance == Spec => []IInv
BY InitIInv, StepKeeps, PTL DEF Spec

(* Every variable keeps its type, whatever the constants.                  *)
THEOREM TypeCorrect == Spec => []TypeOK
<1>1. IInv => TypeOK
  BY DEF IInv
<1> QED
  BY <1>1, InductiveInvariance, PTL

(* The destination of writeFileAtomic is absent or a complete file at      *)
(* every moment: during any number of concurrent calls, after failures of  *)
(* every system call and after crashes.                                    *)
THEOREM DestinationAlwaysWhole == Spec => []TargetWhole
<1>1. IInv => TargetWhole
  BY DEF IInv
<1> QED
  BY <1>1, InductiveInvariance, PTL

(* What a call renames or removes by tempPath is the file it created.      *)
THEOREM CallsOwnTheirTemps == Spec => []TempIsOwn
<1>1. IInv => TempIsOwn
  BY NoneAssumption
     DEF IInv, TypeOK, Stages, TempIsOwn, TempInode, LocalsAt, FileAt, NamesDistinct
<1> QED
  BY <1>1, InductiveInvariance, PTL

(* A rename or a removal of a temporary file meets no open descriptor.     *)
THEOREM MovedFilesAreClosed == Spec => []ClosedWhenMoved
<1>1. IInv => ClosedWhenMoved
  <2> SUFFICES ASSUME IInv, NEW w \in Writers, NEW x \in Writers,
                      pc[w] \in {"replace", "remove"}, fd[x] # None
               PROVE  fd[x] # TempInode(w)
    BY DEF ClosedWhenMoved
  <2>1. /\ removeTemp[w] /\ fd[w] = None /\ temp[w] \in Names /\ dir[temp[w]] # None
    BY DEF IInv, LocalsAt, FileAt, Names
  <2>2. removeTemp[x] /\ fd[x] = dir[temp[x]] /\ temp[x] \in Names
    BY DEF IInv, TypeOK, Stages, LocalsAt, FileAt, Names
  <2>3. temp[x] # temp[w]
    BY <2>1, <2>2 DEF IInv, NamesDistinct
  <2> QED
    BY <2>1, <2>2, <2>3 DEF IInv, OneNamePerInode, TempInode
<1> QED
  BY <1>1, InductiveInvariance, PTL

(* A step that names no temporary file, or names w's own.                  *)
LEMMA AccountedStep == IInv /\ TempsAccounted /\ [Next]_vars => TempsAccounted'
<1> USE NoneAssumption, TargetAssumption
<1> SUFFICES ASSUME IInv, TempsAccounted, [Next]_vars PROVE TempsAccounted'
  OBVIOUS
<1>1. CASE UNCHANGED vars
  BY <1>1 DEF vars, TempsAccounted
<1>2. CASE \E r \in Readers : OpenFile(r) \/ OpenFails(r) \/ ReaderStep(r)
  BY <1>2 DEF TempsAccounted, OpenFile, OpenFails, ReaderStep, ReadSegment, ReadEnds, wvars
<1>3. ASSUME NEW w \in Writers,
             \/ \E v \in Images : Begin(w, v)
             \/ Reject(w) \/ WriterStep(w) \/ Crash(w)
      PROVE  TempsAccounted'
  <2>1. CASE UNCHANGED <<dir, temp, removeTemp, orphans>>
    BY <2>1 DEF TempsAccounted
  <2>2. CASE \E n \in TempNames, i \in Inodes : CreateTemp(w, n, i)
    <3>1. PICK n \in TempNames, i \in Inodes : CreateTemp(w, n, i)
      BY <2>2
    <3>2. \A m \in TempNames : m # n => dir'[m] = dir[m]
      BY <3>1 DEF IInv, TypeOK, CreateTemp, Names
    <3>3. \A x \in Writers : removeTemp[x] => removeTemp'[x] /\ temp'[x] = temp[x]
      BY <3>1 DEF IInv, TypeOK, CreateTemp, LocalsAt
    <3>4. removeTemp'[w] /\ temp'[w] = n /\ orphans' = orphans
      BY <3>1 DEF IInv, TypeOK, CreateTemp
    <3> QED
      BY <3>2, <3>3, <3>4 DEF TempsAccounted
  <2>3. CASE CreateFails(w) \/ DeferredReturn(w)
    <3>1. ~removeTemp[w] /\ UNCHANGED <<dir, orphans>>
      BY <2>3 DEF IInv, LocalsAt, CreateFails, DeferredReturn
    <3>2. \A x \in Writers \ {w} : removeTemp'[x] = removeTemp[x] /\ temp'[x] = temp[x]
      BY <2>3 DEF IInv, TypeOK, CreateFails, DeferredReturn, Return
    <3> QED
      BY <3>1, <3>2 DEF TempsAccounted
  <2>4. CASE Replace(w)
    BY <2>4 DEF IInv, TypeOK, Names, LocalsAt, FileAt, TempsAccounted, Replace
  <2>5. CASE DeferredRemove(w)
    BY <2>5 DEF IInv, TypeOK, Names, LocalsAt, FileAt, TempsAccounted, DeferredRemove, Return
  <2>6. CASE RemoveFails(w) \/ Crash(w)
    <3>1. UNCHANGED dir /\ orphans \subseteq orphans'
      BY <2>6 DEF RemoveFails, Crash
    <3>2. removeTemp[w] => temp[w] \in orphans'
      BY <2>6 DEF RemoveFails, Crash
    <3>3. \A x \in Writers \ {w} : removeTemp'[x] = removeTemp[x] /\ temp'[x] = temp[x]
      BY <2>6 DEF IInv, TypeOK, RemoveFails, Crash, Return
    <3> QED
      BY <3>1, <3>2, <3>3 DEF TempsAccounted
  <2> QED
    BY <1>3, <2>1, <2>2, <2>3, <2>4, <2>5, <2>6
       DEF Begin, Reject, WriterStep, WriteSegment, WriteFails, CloseTemp, CloseFails,
           ReplaceFails, DeferredClose
<1> QED
  BY <1>1, <1>2, <1>3 DEF Next

(* Every temporary file in the directory is owed a removal, or lost one to *)
(* a crash or to a failed os.Remove.                                       *)
THEOREM NoForgottenTemps == Spec => []TempsAccounted
<1>1. Init => TempsAccounted
  BY TargetAssumption DEF Init, TempsAccounted, Names
<1> QED
  BY <1>1, AccountedStep, InductiveInvariance, PTL DEF Spec

(* No step stores to a file that a reader has open.                        *)
LEMMA FrozenStep ==
  IInv /\ [Next]_vars => \A r \in Readers : rfd[r] # None => data'[rfd[r]] = data[rfd[r]]
<1> SUFFICES ASSUME IInv, [Next]_vars, NEW r \in Readers, rfd[r] # None
             PROVE  data'[rfd[r]] = data[rfd[r]]
  OBVIOUS
<1>0. rfd[r] \in Inodes
  BY DEF IInv, TypeOK
<1>1. CASE data' = data
  BY <1>1
<1>2. ASSUME NEW w \in Writers, NEW n \in TempNames, NEW i \in Inodes, CreateTemp(w, n, i)
      PROVE  data'[rfd[r]] = data[rfd[r]]
  BY <1>0, <1>2 DEF IInv, TypeOK, CreateTemp, InUse
<1>3. ASSUME NEW w \in Writers, WriteSegment(w) \/ WriteFails(w) \/ CloseFails(w)
      PROVE  data'[rfd[r]] = data[rfd[r]]
  <2>1. rfd[r] # fd[w]
    BY <1>3, OnlyOwnFile DEF WriteSegment, WriteFails, CloseFails
  <2> QED
    BY <1>0, <1>3, <2>1 DEF IInv, TypeOK, WriteSegment, WriteFails, CloseFails
<1> QED
  BY <1>1, <1>2, <1>3
     DEF Next, vars, WriterStep, ReaderStep, Begin, Reject, CreateFails, CloseTemp, Replace,
         ReplaceFails, DeferredReturn, DeferredClose, DeferredRemove, RemoveFails, Crash,
         OpenFile, OpenFails, ReadSegment, ReadEnds, Return
(* A file is stored to only through the descriptor of the call that made   *)
(* it, and no reader has that file.                                        *)
THEOREM OpenFilesNeverChange == Spec => OpenFilesFrozen
<1>1. IInv /\ [Next]_vars =>
        [\A r \in Readers : rfd[r] # None => data'[rfd[r]] = data[rfd[r]]]_vars
  BY FrozenStep
<1> QED
  BY <1>1, InductiveInvariance, PTL DEF Spec, OpenFilesFrozen

-----------------------------------------------------------------------------
(***************************************************************************)
(* How long a call and a read can take: what CallsReturn and ReadsReturn   *)
(* rest on besides fairness.                                               *)
(***************************************************************************)

(* The steps to come at each point of writeFileAtomic.                     *)
StepsLeft(w) ==
  CASE pc[w] = "idle" -> 0
    [] pc[w] = "remove" -> 1
    [] pc[w] = "deferred" -> 2
    [] pc[w] = "replace" -> 3
    [] pc[w] = "close" -> 4
    [] pc[w] = "write" -> 4 + (Len(Layout[img[w]]) - Len(data[fd[w]]))
    [] pc[w] = "create" -> 5 + Len(Layout[img[w]])

(* The segments an open read has not taken yet, and its end.               *)
ReadsLeft(r) == IF rfd[r] = None THEN 0 ELSE 1 + Len(data[rfd[r]]) - Len(got[r])

(* The steps of a call and of a read use up what is left of it.            *)
Progress ==
  /\ \A w \in Writers : (WriterStep(w) \/ Crash(w)) => StepsLeft(w)' < StepsLeft(w)
  /\ \A r \in Readers : ReaderStep(r) => ReadsLeft(r)' < ReadsLeft(r)

(* No step, whoever takes it, adds to a call or a read that is under way.  *)
NoDelay ==
  /\ \A w \in Writers : pc[w] # "idle" => StepsLeft(w)' <= StepsLeft(w)
  /\ \A r \in Readers : rfd[r] # None => ReadsLeft(r)' <= ReadsLeft(r)

(* A step is left exactly while a call or a read is under way.             *)
Measured ==
  /\ \A w \in Writers : StepsLeft(w) \in Nat /\ (StepsLeft(w) = 0 <=> pc[w] = "idle")
  /\ \A r \in Readers : ReadsLeft(r) \in Nat /\ (ReadsLeft(r) = 0 <=> rfd[r] = None)

(* StepsLeft, point by point.                                              *)
LEMMA LeftAt ==
  ASSUME NEW w \in Writers
  PROVE  /\ pc[w] = "idle" => StepsLeft(w) = 0
         /\ pc[w] = "remove" => StepsLeft(w) = 1
         /\ pc[w] = "deferred" => StepsLeft(w) = 2
         /\ pc[w] = "replace" => StepsLeft(w) = 3
         /\ pc[w] = "close" => StepsLeft(w) = 4
         /\ pc[w] = "write" => StepsLeft(w) = 4 + (Len(Layout[img[w]]) - Len(data[fd[w]]))
         /\ pc[w] = "create" => StepsLeft(w) = 5 + Len(Layout[img[w]])
BY DEF StepsLeft

(* The files of running calls and open reads are no longer than planned.   *)
LEMMA LengthsLeft ==
  ASSUME IInv
  PROVE  /\ \A w \in Writers : pc[w] \in {"create", "write"} =>
              /\ img[w] \in Images
              /\ Len(Layout[img[w]]) \in Nat
              /\ Len(Layout[img[w]]) > 0
         /\ \A w \in Writers : pc[w] = "write" =>
              /\ fd[w] \in Inodes
              /\ Len(data[fd[w]]) \in Nat
              /\ Len(data[fd[w]]) < Len(Layout[img[w]])
         /\ \A r \in Readers : rfd[r] # None =>
              /\ rfd[r] \in Inodes
              /\ Len(data[rfd[r]]) \in Nat
              /\ Len(got[r]) \in Nat
              /\ Len(got[r]) <= Len(data[rfd[r]])
<1>1. ASSUME NEW w \in Writers, pc[w] \in {"create", "write"}
      PROVE  img[w] \in Images /\ Len(Layout[img[w]]) \in Nat /\ Len(Layout[img[w]]) > 0
  <2>1. img[w] \in Images
    BY <1>1 DEF IInv, TypeOK, LocalsAt
  <2> QED
    BY <2>1, LayoutFacts
<1>2. ASSUME NEW w \in Writers, pc[w] = "write"
      PROVE  /\ fd[w] \in Inodes /\ Len(data[fd[w]]) \in Nat
             /\ Len(data[fd[w]]) < Len(Layout[img[w]])
  <2>1. fd[w] \in Inodes
    BY <1>2, OnlyOwnFile
  <2> QED
    BY <1>2, <2>1 DEF IInv, TypeOK, FileAt
<1>3. ASSUME NEW r \in Readers, rfd[r] # None
      PROVE  /\ rfd[r] \in Inodes /\ Len(data[rfd[r]]) \in Nat /\ Len(got[r]) \in Nat
             /\ Len(got[r]) <= Len(data[rfd[r]])
  <2>1. rfd[r] \in Inodes /\ data[rfd[r]] \in Seq(Segments \cup {Torn}) /\ got[r] \in Seq(Segments \cup {Torn})
    BY <1>3 DEF IInv, TypeOK
  <2> QED
    BY <1>3, <2>1 DEF IInv, ReaderAt, PartOf
<1> QED
  BY <1>1, <1>2, <1>3

(* What is left is a number, and 0 at the end.                             *)
LEMMA MeasuredStep == IInv => Measured
<1> SUFFICES ASSUME IInv PROVE Measured
  OBVIOUS
<1>1. ASSUME NEW w \in Writers
      PROVE  StepsLeft(w) \in Nat /\ (StepsLeft(w) = 0 <=> pc[w] = "idle")
  <2>1. pc[w] \in Stages
    BY DEF IInv, TypeOK
  <2>2. CASE pc[w] = "create"
    <3>1. Len(Layout[img[w]]) \in Nat
      BY <2>2, LengthsLeft
    <3>2. StepsLeft(w) = 5 + Len(Layout[img[w]])
      BY <2>2, LeftAt
    <3> QED
      BY <2>2, <3>1, <3>2
  <2>3. CASE pc[w] = "write"
    <3>1. /\ Len(Layout[img[w]]) \in Nat /\ Len(data[fd[w]]) \in Nat
          /\ Len(data[fd[w]]) < Len(Layout[img[w]])
      BY <2>3, LengthsLeft
    <3>2. StepsLeft(w) = 4 + (Len(Layout[img[w]]) - Len(data[fd[w]]))
      BY <2>3, LeftAt
    <3> QED
      BY <2>3, <3>1, <3>2
  <2>4. CASE pc[w] \notin {"create", "write"}
    <3>1. /\ pc[w] = "idle" => StepsLeft(w) = 0
          /\ pc[w] = "remove" => StepsLeft(w) = 1
          /\ pc[w] = "deferred" => StepsLeft(w) = 2
          /\ pc[w] = "replace" => StepsLeft(w) = 3
          /\ pc[w] = "close" => StepsLeft(w) = 4
      BY LeftAt
    <3> QED
      BY <2>1, <2>4, <3>1 DEF Stages
  <2> QED
    BY <2>2, <2>3, <2>4
<1>2. \A r \in Readers : ReadsLeft(r) \in Nat /\ (ReadsLeft(r) = 0 <=> rfd[r] = None)
  BY LengthsLeft DEF ReadsLeft
<1> QED
  BY <1>1, <1>2 DEF Measured

(* A segment less to write is a step less, and so is any later stage.      *)
LEMMA OneLess ==
  ASSUME NEW m \in Nat, NEW n \in Nat, n < m
  PROVE  /\ 2 < 4 + (m - n)
         /\ 4 < 4 + (m - n)
         /\ 4 + (m - (n + 1)) < 4 + (m - n)
OBVIOUS

(* Each system call of a running call is one less to make.                 *)
LEMMA OwnStepCounts ==
  ASSUME IInv, NEW w \in Writers, WriterStep(w) \/ Crash(w)
  PROVE  StepsLeft(w)' < StepsLeft(w)
<1>0. /\ pc \in [Writers -> Stages] /\ data \in [Inodes -> Seq(Segments \cup {Torn})]
      /\ fd \in [Writers -> Inodes \cup {None}] /\ img \in [Writers -> Images \cup {None}]
  BY DEF IInv, TypeOK
<1>a. /\ pc'[w] = "close" => StepsLeft(w)' = 4
      /\ pc'[w] = "replace" => StepsLeft(w)' = 3
      /\ pc'[w] = "deferred" => StepsLeft(w)' = 2
      /\ pc'[w] = "remove" => StepsLeft(w)' = 1
      /\ pc'[w] = "idle" => StepsLeft(w)' = 0
      /\ pc'[w] = "write" => StepsLeft(w)' = 4 + (Len(Layout[img'[w]]) - Len(data'[fd'[w]]))
  BY DEF StepsLeft
<1>b. /\ pc[w] = "close" => StepsLeft(w) = 4
      /\ pc[w] = "replace" => StepsLeft(w) = 3
      /\ pc[w] = "deferred" => StepsLeft(w) = 2
      /\ pc[w] = "write" => StepsLeft(w) = 4 + (Len(Layout[img[w]]) - Len(data[fd[w]]))
      /\ pc[w] = "create" => StepsLeft(w) = 5 + Len(Layout[img[w]])
  BY LeftAt
<1>1. ASSUME NEW n \in TempNames, NEW i \in Inodes, CreateTemp(w, n, i)
      PROVE  StepsLeft(w)' < StepsLeft(w)
  <2>1. /\ pc[w] = "create" /\ pc'[w] = "write" /\ img' = img
        /\ Len(data'[fd'[w]]) = 0 /\ Len(Layout[img[w]]) \in Nat
    BY <1>0, <1>1, LengthsLeft DEF CreateTemp
  <2> QED
    BY <1>a, <1>b, <2>1
<1>2. ASSUME WriteSegment(w)
      PROVE  StepsLeft(w)' < StepsLeft(w)
  <2>1. /\ pc[w] = "write" /\ img' = img /\ fd' = fd /\ fd[w] \in Inodes
        /\ Len(Layout[img[w]]) \in Nat /\ Len(data[fd[w]]) \in Nat
        /\ Len(data[fd[w]]) < Len(Layout[img[w]])
    BY <1>2, LengthsLeft DEF WriteSegment
  <2>2. pc'[w] = IF Len(data[fd[w]]) + 1 = Len(Layout[img[w]]) THEN "close" ELSE "write"
    BY <1>0, <1>2, <2>1 DEF WriteSegment
  <2>3. Len(data'[fd[w]]) = Len(data[fd[w]]) + 1
    BY <1>0, <1>2, <2>1 DEF WriteSegment
  <2> QED
    <3> DEFINE m == Len(Layout[img[w]])
               n == Len(data[fd[w]])
    <3>0. 4 < 4 + (m - n) /\ 4 + (m - (n + 1)) < 4 + (m - n)
      BY <2>1, OneLess
    <3>1. StepsLeft(w) = 4 + (m - n)
      BY <1>b, <2>1
    <3>2. CASE Len(data[fd[w]]) + 1 = Len(Layout[img[w]])
      <4>1. StepsLeft(w)' = 4
        BY <1>a, <2>2, <3>2
      <4> QED
        BY <3>0, <3>1, <4>1
    <3>3. CASE Len(data[fd[w]]) + 1 # Len(Layout[img[w]])
      <4>1. StepsLeft(w)' = 4 + (Len(Layout[img[w]]) - (Len(data[fd[w]]) + 1))
        BY <1>a, <2>1, <2>2, <2>3, <3>3
      <4> QED
        BY <3>0, <3>1, <4>1
    <3> QED
      BY <3>2, <3>3
<1>3. CASE WriteFails(w)
  <2>1. /\ pc[w] = "write" /\ pc'[w] = "deferred"
        /\ Len(Layout[img[w]]) \in Nat /\ Len(data[fd[w]]) \in Nat
        /\ Len(data[fd[w]]) < Len(Layout[img[w]])
    BY <1>0, <1>3, LengthsLeft DEF WriteFails
  <2>2. StepsLeft(w) = 4 + (Len(Layout[img[w]]) - Len(data[fd[w]])) /\ StepsLeft(w)' = 2
    BY <1>a, <1>b, <2>1
  <2>3. 2 < 4 + (Len(Layout[img[w]]) - Len(data[fd[w]]))
    BY <2>1, OneLess
  <2> QED
    BY <2>2, <2>3
<1>4. CASE CreateFails(w) \/ DeferredReturn(w) \/ DeferredRemove(w) \/ RemoveFails(w) \/ Crash(w)
  <2>1. pc'[w] = "idle" /\ pc[w] # "idle"
    BY <1>0, <1>4 DEF CreateFails, DeferredReturn, DeferredRemove, RemoveFails, Crash, Return
  <2>2. StepsLeft(w)' = 0
    BY <1>a, <2>1
  <2>3. StepsLeft(w) \in Nat /\ StepsLeft(w) # 0
    BY <2>1, MeasuredStep DEF Measured
  <2> QED
    BY <2>2, <2>3
<1>5. CASE CloseTemp(w) \/ CloseFails(w) \/ Replace(w) \/ ReplaceFails(w) \/ DeferredClose(w)
  <2>1. \/ pc[w] = "close" /\ pc'[w] \in {"replace", "deferred"}
        \/ pc[w] = "replace" /\ pc'[w] = "deferred"
        \/ pc[w] = "deferred" /\ pc'[w] = "remove"
    BY <1>0, <1>5 DEF CloseTemp, CloseFails, Replace, ReplaceFails, DeferredClose
  <2> QED
    BY <1>a, <1>b, <2>1
<1> QED
  BY <1>1, <1>2, <1>3, <1>4, <1>5 DEF WriterStep

(* A step of another writer or of a reader leaves a call what it has left. *)
LEMMA OtherStepCounts ==
  ASSUME IInv, NEW w \in Writers, pc[w] # "idle", [Next]_vars, ~(WriterStep(w) \/ Crash(w))
  PROVE  StepsLeft(w)' = StepsLeft(w)
<1>0. /\ pc \in [Writers -> Stages] /\ data \in [Inodes -> Seq(Segments \cup {Torn})]
      /\ fd \in [Writers -> Inodes \cup {None}] /\ img \in [Writers -> Images \cup {None}]
  BY DEF IInv, TypeOK
<1>1. SUFFICES /\ pc'[w] = pc[w] /\ img'[w] = img[w] /\ fd'[w] = fd[w]
               /\ pc[w] = "write" => data'[fd[w]] = data[fd[w]]
  BY DEF StepsLeft
<1>2. CASE UNCHANGED <<wvars, data>>
  BY <1>2 DEF wvars
<1>3. ASSUME NEW x \in Writers,
             \/ \E v \in Images : Begin(x, v)
             \/ Reject(x) \/ WriterStep(x) \/ Crash(x)
      PROVE  /\ pc'[w] = pc[w] /\ img'[w] = img[w] /\ fd'[w] = fd[w]
             /\ pc[w] = "write" => data'[fd[w]] = data[fd[w]]
  <2>1. CASE Reject(x)
    BY <2>1 DEF Reject
  <2>2. CASE ~Reject(x)
    <3>1. x # w
      BY <1>3, <2>2 DEF Begin
    <3>2. pc'[w] = pc[w] /\ img'[w] = img[w] /\ fd'[w] = fd[w]
      BY <1>0, <1>3, <2>2, <3>1
         DEF WriterStep, Begin, CreateTemp, CreateFails, WriteSegment, WriteFails, CloseTemp,
             CloseFails, Replace, ReplaceFails, DeferredReturn, DeferredClose, DeferredRemove,
             RemoveFails, Crash, Return
    <3>3. ASSUME pc[w] = "write" PROVE data'[fd[w]] = data[fd[w]]
      <4>1. fd[w] \in Inodes /\ fd[w] # None
        BY <3>3, LengthsLeft, NoneAssumption
      <4>2. CASE \E n \in TempNames, i \in Inodes : CreateTemp(x, n, i)
        BY <1>0, <4>1, <4>2 DEF CreateTemp, InUse
      <4>3. CASE WriteSegment(x) \/ WriteFails(x) \/ CloseFails(x)
        <5>1. fd[w] # fd[x]
          BY <3>1, <4>1, <4>3, OnlyOwnFile DEF WriteSegment, WriteFails, CloseFails
        <5> QED
          BY <1>0, <4>1, <4>3, <5>1 DEF WriteSegment, WriteFails, CloseFails
      <4> QED
        BY <1>3, <2>2, <4>2, <4>3
           DEF WriterStep, Begin, CreateFails, CloseTemp, Replace, ReplaceFails, DeferredReturn,
               DeferredClose, DeferredRemove, RemoveFails, Crash
    <3> QED
      BY <3>2, <3>3
  <2> QED
    BY <2>1, <2>2
<1> QED
  BY <1>2, <1>3
     DEF Next, vars, wvars, OpenFile, OpenFails, ReaderStep, ReadSegment, ReadEnds

(* A read takes a segment or ends, and nobody changes its file.            *)
LEMMA ReadCounts ==
  ASSUME IInv, NEW r \in Readers, rfd[r] # None, [Next]_vars
  PROVE  /\ ReaderStep(r) => ReadsLeft(r)' < ReadsLeft(r)
         /\ ReadsLeft(r)' <= ReadsLeft(r)
<1>0. /\ rfd \in [Readers -> Inodes \cup {None}] /\ got \in [Readers -> Seq(Segments \cup {Torn})]
      /\ Len(data[rfd[r]]) \in Nat /\ Len(got[r]) \in Nat /\ Len(got[r]) <= Len(data[rfd[r]])
  BY LengthsLeft DEF IInv, TypeOK
<1>1. data'[rfd[r]] = data[rfd[r]]
  BY FrozenStep
<1>2. ASSUME ReadSegment(r) PROVE ReadsLeft(r)' < ReadsLeft(r)
  <2>1. rfd' = rfd /\ Len(got'[r]) = Len(got[r]) + 1
    BY <1>0, <1>2 DEF ReadSegment
  <2> QED
    BY <1>0, <1>1, <2>1 DEF ReadsLeft
<1>3. ASSUME ReadEnds(r) PROVE ReadsLeft(r)' < ReadsLeft(r)
  BY <1>0, <1>3 DEF ReadEnds, ReadsLeft
<1>4. ReadsLeft(r) \in Nat /\ (ReaderStep(r) => ReadsLeft(r)' \in Nat)
  <2>1. ReaderStep(r) => rfd'[r] \in {None, rfd[r]} /\ Len(got'[r]) \in Nat /\ Len(got'[r]) <= Len(data[rfd[r]])
    BY <1>0 DEF ReaderStep, ReadSegment, ReadEnds
  <2> QED
    BY <1>0, <1>1, <2>1 DEF ReadsLeft
<1>5. ASSUME ~ReaderStep(r) PROVE ReadsLeft(r)' = ReadsLeft(r)
  <2>1. rfd'[r] = rfd[r] /\ got'[r] = got[r]
    <3>1. CASE UNCHANGED vars
      BY <3>1 DEF vars
    <3>2. ASSUME NEW w \in Writers,
                 (\E v \in Images : Begin(w, v)) \/ Reject(w) \/ WriterStep(w) \/ Crash(w)
          PROVE  rfd' = rfd /\ got' = got
      BY <3>2 DEF rvars, WriterStep, Begin, Reject, CreateTemp, CreateFails, WriteSegment,
                  WriteFails, CloseTemp, CloseFails, Replace, ReplaceFails, DeferredReturn,
                  DeferredClose, DeferredRemove, RemoveFails, Crash
    <3>3. ASSUME NEW x \in Readers, OpenFile(x) \/ OpenFails(x) \/ ReaderStep(x)
          PROVE  rfd'[r] = rfd[r] /\ got'[r] = got[r]
      BY <1>0, <1>5, <3>3 DEF OpenFile, OpenFails, ReaderStep, ReadSegment, ReadEnds
    <3> QED
      BY <3>1, <3>2, <3>3 DEF Next
  <2> QED
    BY <1>1, <2>1 DEF ReadsLeft
<1> QED
  BY <1>2, <1>3, <1>4, <1>5 DEF ReaderStep

(* A call of writeFileAtomic makes at most one system call per segment and *)
(* five more, and a read one per segment and one more: no step of another  *)
(* writer or reader gives it more to do, and each step of its own is one   *)
(* less.                                                                   *)
THEOREM CallsAreFinite == Spec => []Measured /\ [][Progress /\ NoDelay]_vars
<1>1. IInv /\ [Next]_vars => [Progress /\ NoDelay]_vars
  <2> SUFFICES ASSUME IInv, [Next]_vars PROVE Progress /\ NoDelay
    OBVIOUS
  <2>1. Progress
    BY OwnStepCounts, ReadCounts DEF Progress, ReaderStep, ReadSegment, ReadEnds
  <2>2. ASSUME NEW w \in Writers, pc[w] # "idle" PROVE StepsLeft(w)' <= StepsLeft(w)
    <3>1. StepsLeft(w) \in Nat /\ StepsLeft(w)' \in Nat
      <4>1. Measured /\ Measured'
        BY StepKeeps, MeasuredStep, PTL
      <4> QED
        BY <4>1 DEF Measured
    <3>2. CASE WriterStep(w) \/ Crash(w)
      BY <3>1, <3>2, OwnStepCounts
    <3>3. CASE ~(WriterStep(w) \/ Crash(w))
      BY <2>2, <3>1, <3>3, OtherStepCounts
    <3> QED
      BY <3>2, <3>3
  <2> QED
    BY <2>1, <2>2, ReadCounts DEF NoDelay
<1> QED
  BY <1>1, MeasuredStep, InductiveInvariance, PTL DEF Spec

-----------------------------------------------------------------------------
(***************************************************************************)
(* AtomicWrite implements AtomicFile.                                      *)
(***************************************************************************)

Pending == [w \in Writers |-> IF img[w] = None THEN None ELSE Layout[img[w]]]
Published == [w \in Writers |-> pc[w] = "deferred" /\ ~removeTemp[w]]
File == ContentAt(dir[Target])
View == [r \in Readers |-> ContentAt(rfd[r])]

(* What is visible of the path stays while the name stays and the step     *)
(* stores to no inode but an unnamed or a temporary one.                   *)
LEMMA ViewStays ==
  ASSUME IInv, [Next]_vars, UNCHANGED rfd
  PROVE  View' = View
BY FrozenStep, NoneAssumption DEF View, ContentAt

(* What a call stores goes to a file that is not the destination.          *)
LEMMA FileStays ==
  ASSUME IInv, UNCHANGED dir, NEW w \in Writers,
         \/ UNCHANGED data
         \/ WriteSegment(w) \/ WriteFails(w) \/ CloseFails(w)
  PROVE  File' = File
<1>1. CASE UNCHANGED data
  BY <1>1 DEF File, ContentAt
<1>2. CASE WriteSegment(w) \/ WriteFails(w) \/ CloseFails(w)
  <2>1. dir[Target] # fd[w]
    BY <1>2, OnlyOwnFile DEF WriteSegment, WriteFails, CloseFails
  <2>2. dir[Target] # None => data'[dir[Target]] = data[dir[Target]]
    BY <1>2, <2>1 DEF IInv, TypeOK, Names, WriteSegment, WriteFails, CloseFails
  <2> QED
    BY <2>2 DEF File, ContentAt
<1> QED
  BY <1>1, <1>2

(* The steps that the caller cannot see.                                   *)
LEMMA InnerStep ==
  ASSUME IInv, [Next]_vars, NEW w \in Writers,
         \/ \E n \in TempNames, i \in Inodes : CreateTemp(w, n, i)
         \/ WriteSegment(w) \/ WriteFails(w)
         \/ CloseTemp(w) \/ CloseFails(w)
         \/ ReplaceFails(w) \/ DeferredClose(w)
  PROVE  UNCHANGED <<File, Pending, Published, outcome, View, seen>>
<1>1. UNCHANGED <<img, outcome, rfd, seen>>
  BY DEF CreateTemp, WriteSegment, WriteFails, CloseTemp, CloseFails, ReplaceFails,
         DeferredClose, rvars
<1>2. View' = View
  BY <1>1, ViewStays
<1>3. Pending' = Pending
  BY <1>1 DEF Pending
<1>4. Published' = Published
  <2>1. ASSUME NEW n \in TempNames, NEW i \in Inodes, CreateTemp(w, n, i) PROVE Published' = Published
    BY <2>1 DEF IInv, TypeOK, LocalsAt, Published, CreateTemp
  <2>2. CASE WriteSegment(w) \/ WriteFails(w) \/ CloseTemp(w) \/ CloseFails(w)
    BY <2>2 DEF IInv, TypeOK, LocalsAt, Published, WriteSegment, WriteFails, CloseTemp, CloseFails
  <2>3. CASE ReplaceFails(w) \/ DeferredClose(w)
    BY <2>3 DEF IInv, TypeOK, LocalsAt, Published, ReplaceFails, DeferredClose
  <2> QED
    BY <2>1, <2>2, <2>3
<1>5. File' = File
  <2>1. CASE \E n \in TempNames, i \in Inodes : CreateTemp(w, n, i)
    <3>1. PICK n \in TempNames, i \in Inodes : CreateTemp(w, n, i)
      BY <2>1
    <3>2. dir'[Target] = dir[Target] /\ dir[Target] # i
      BY <3>1, TargetAssumption DEF IInv, TypeOK, Names, CreateTemp, InUse
    <3>3. dir[Target] # None => data'[dir[Target]] = data[dir[Target]]
      BY <3>1, <3>2 DEF IInv, TypeOK, Names, CreateTemp
    <3> QED
      BY <3>2, <3>3 DEF File, ContentAt
  <2>2. CASE ~ \E n \in TempNames, i \in Inodes : CreateTemp(w, n, i)
    BY <2>2, FileStays
       DEF WriteSegment, WriteFails, CloseTemp, CloseFails, ReplaceFails, DeferredClose
  <2> QED
    BY <2>1, <2>2
<1> QED
  BY <1>1, <1>2, <1>3, <1>4, <1>5

(* The steps of a writer that the caller sees, each as one of AtomicFile.  *)
LEMMA OuterStep ==
  ASSUME IInv, [Next]_vars, NEW w \in Writers
  PROVE  /\ \A v \in Images : Begin(w, v) => Abstract!Begin(w, Layout[v])
         /\ Reject(w) => Abstract!Reject(w)
         /\ Replace(w) => Abstract!Publish(w)
         /\ DeferredReturn(w) => Abstract!End(w, "ok")
         /\ CreateFails(w) \/ DeferredRemove(w) \/ RemoveFails(w) => Abstract!End(w, "error")
         /\ Crash(w) => Abstract!End(w, "none")
<1> USE NoneAssumption, TargetAssumption
<1>0. /\ img[w] # None => img[w] \in Images /\ Layout[img[w]] # None
      /\ pc[w] # "idle" => img[w] # None
      /\ pc[w] = "idle" => img[w] = None
  BY DEF IInv, TypeOK, LocalsAt
<1>1. ASSUME NEW v \in Images, Begin(w, v)
      PROVE  Abstract!Begin(w, Layout[v])
  <2>1. Pending[w] = None
    BY <1>1 DEF Begin, IInv, LocalsAt, Pending
  <2>2. Pending' = [Pending EXCEPT ![w] = Layout[v]]
    BY <1>1 DEF Begin, IInv, TypeOK, Pending
  <2>3. Published' = Published
    BY <1>1 DEF Begin, IInv, TypeOK, Published
  <2>4. File' = File /\ View' = View
    BY <1>1, ViewStays, FileStays DEF Begin, rvars
  <2> QED
    BY <1>1, <2>1, <2>2, <2>3, <2>4
       DEF Begin, rvars, Abstract!Begin, Pending, Published, File, View
<1>2. ASSUME Reject(w)
      PROVE  Abstract!Reject(w)
  <2>1. Pending[w] = None
    BY <1>2 DEF Reject, IInv, LocalsAt, Pending
  <2>2. Pending' = Pending /\ Published' = Published
    BY <1>2 DEF Reject, Pending, Published
  <2>3. File' = File /\ View' = View
    BY <1>2, ViewStays, FileStays DEF Reject, rvars
  <2> QED
    BY <1>2, <2>1, <2>2, <2>3
       DEF Reject, rvars, Abstract!Reject, Pending, Published, File, View
<1>3. ASSUME Replace(w)
      PROVE  Abstract!Publish(w)
  <2>1. Pending[w] = Layout[img[w]] /\ Pending[w] # None /\ ~Published[w]
    BY <1>0, <1>3 DEF Replace, Pending, Published
  <2>2. File' = Pending[w]
    <3>1. /\ dir[temp[w]] \in Inodes /\ data[dir[temp[w]]] = Layout[img[w]]
          /\ temp[w] \in TempNames /\ temp[w] # Target
      BY <1>3 DEF IInv, TypeOK, LocalsAt, FileAt, Replace, Names
    <3>2. dir'[Target] = dir[temp[w]] /\ data' = data
      BY <1>3, <3>1 DEF IInv, TypeOK, Replace, TempInode, Names
    <3> QED
      BY <2>1, <3>1, <3>2 DEF File, ContentAt
  <2>3. Published' = [Published EXCEPT ![w] = TRUE]
    BY <1>3 DEF Replace, IInv, TypeOK, Published
  <2>4. Pending' = Pending /\ View' = View
    BY <1>3, ViewStays DEF Replace, rvars, Pending
  <2> QED
    BY <1>3, <2>1, <2>2, <2>3, <2>4
       DEF Replace, rvars, Abstract!Publish, Pending, Published, File, View
<1>4. ASSUME NEW o \in {"none", "ok", "error"}, pc[w] # "idle", Return(w, o),
             o = "ok" => Published[w], o = "error" => ~Published[w],
             File' = File, UNCHANGED <<rfd, seen>>
      PROVE  Abstract!End(w, o)
  <2>1. Pending[w] # None
    BY <1>0, <1>4 DEF Pending
  <2>2. Pending' = [Pending EXCEPT ![w] = None]
    BY <1>4 DEF Return, IInv, TypeOK, Pending
  <2>3. Published' = [Published EXCEPT ![w] = FALSE]
    BY <1>4 DEF Return, IInv, TypeOK, Published
  <2>4. View' = View
    BY <1>4, ViewStays
  <2> QED
    BY <1>4, <2>1, <2>2, <2>3, <2>4
       DEF Return, Abstract!End, Pending, Published, File, View
<1>5. DeferredReturn(w) => Abstract!End(w, "ok")
  BY <1>4, FileStays DEF DeferredReturn, rvars, Published
<1>6. CreateFails(w) \/ RemoveFails(w) => Abstract!End(w, "error")
  BY <1>4, FileStays DEF CreateFails, RemoveFails, rvars, Published
<1>7. DeferredRemove(w) => Abstract!End(w, "error")
  <2> SUFFICES ASSUME DeferredRemove(w) PROVE Abstract!End(w, "error")
    OBVIOUS
  <2>1. temp[w] \in TempNames
    BY DEF IInv, LocalsAt, FileAt, DeferredRemove
  <2>2. File' = File
    BY <2>1 DEF IInv, TypeOK, Names, DeferredRemove, File, ContentAt
  <2> QED
    BY <1>4, <2>2 DEF DeferredRemove, rvars, Published
<1>8. Crash(w) => Abstract!End(w, "none")
  BY <1>4, FileStays DEF Crash, rvars
<1> QED
  BY <1>1, <1>2, <1>3, <1>5, <1>6, <1>7, <1>8

(* The steps of a reader, each as one of AtomicFile or as a stutter.       *)
LEMMA ReadStep ==
  ASSUME IInv, [Next]_vars, NEW r \in Readers
  PROVE  /\ OpenFile(r) => Abstract!Open(r)
         /\ OpenFails(r) => Abstract!Miss(r)
         /\ ReadSegment(r) => UNCHANGED <<File, Pending, Published, outcome, View, seen>>
         /\ ReadEnds(r) => Abstract!Finish(r)
<1> USE NoneAssumption
<1>0. rfd[r] # None => rfd[r] \in Inodes /\ data[rfd[r]] \in Contents /\ data[rfd[r]] # None
  <2>1. rfd[r] # None => rfd[r] \in Inodes
    BY DEF IInv, TypeOK
  <2>2. rfd[r] # None => data[rfd[r]] \in Contents
    BY DEF IInv, ReaderAt
  <2>3. None \notin Contents
    BY DEF Contents
  <2> QED
    BY <2>1, <2>2, <2>3
<1>1. OpenFile(r) \/ OpenFails(r) \/ ReadSegment(r) \/ ReadEnds(r) =>
        UNCHANGED <<File, Pending, Published, outcome>>
  BY DEF OpenFile, OpenFails, ReadSegment, ReadEnds, wvars, File, Pending, Published, ContentAt
<1>2. ASSUME OpenFile(r)
      PROVE  Abstract!Open(r)
  <2>1. View[r] = None
    BY <1>2 DEF OpenFile, View, ContentAt
  <2>2. File # None
    BY <1>2 DEF OpenFile, File, ContentAt, IInv, TargetWhole, Contents
  <2>3. View' = [View EXCEPT ![r] = File]
    BY <1>2 DEF OpenFile, IInv, TypeOK, View, File, ContentAt
  <2> QED
    BY <1>1, <1>2, <2>1, <2>2, <2>3
       DEF OpenFile, Abstract!Open, Pending, Published, File, View
<1>3. ASSUME OpenFails(r)
      PROVE  Abstract!Miss(r)
  <2>1. View[r] = None /\ File = None /\ View' = View
    BY <1>3 DEF OpenFails, View, File, ContentAt
  <2> QED
    BY <1>1, <1>3, <2>1 DEF OpenFails, Abstract!Miss, Pending, Published, File, View
<1>4. ReadSegment(r) => View' = View /\ seen' = seen
  BY DEF ReadSegment, View, ContentAt
<1>5. ASSUME ReadEnds(r)
      PROVE  Abstract!Finish(r)
  <2>1. View[r] = data[rfd[r]] /\ View[r] # None
    BY <1>0, <1>5 DEF ReadEnds, View, ContentAt
  <2>2. got[r] = data[rfd[r]]
    BY <1>0, <1>5, WholePart DEF ReadEnds, IInv, TypeOK, ReaderAt
  <2>3. View' = [View EXCEPT ![r] = None]
    BY <1>5 DEF ReadEnds, IInv, TypeOK, View, ContentAt
  <2> QED
    BY <1>1, <1>5, <2>1, <2>2, <2>3
       DEF ReadEnds, Abstract!Finish, Pending, Published, File, View
<1> QED
  BY <1>1, <1>2, <1>3, <1>4, <1>5

(* writeFileAtomic and the readers, seen through the destination path, are *)
(* an atomic register: a call that succeeds has replaced the whole file in *)
(* one step, a call that reports an error has changed nothing, and a read  *)
(* returns the version it opened.                                          *)
THEOREM WritesAreAtomic == Spec => ImplementsAtomicFile
<1>1. Init => Abstract!Init
  <2> SUFFICES ASSUME Init PROVE Abstract!Init
    OBVIOUS
  <2>1. File \in Contents \cup {None}
    <3>1. CASE dir = [n \in Names |-> None]
      BY <3>1 DEF Names, File, ContentAt
    <3>2. ASSUME NEW i \in Inodes, NEW v \in Images,
                 dir = [n \in Names |-> IF n = Target THEN i ELSE None],
                 data = [j \in Inodes |-> IF j = i THEN Layout[v] ELSE << >>]
          PROVE  File \in Contents
      BY <3>2, NoneAssumption DEF Names, File, ContentAt, Contents
    <3> QED
      BY <3>1, <3>2 DEF Init
  <2>2. Pending = [w \in Writers |-> None] /\ Published = [w \in Writers |-> FALSE]
    BY DEF Init, Pending, Published
  <2>3. View = [r \in Readers |-> None]
    BY DEF Init, View, ContentAt
  <2> QED
    BY <2>1, <2>2, <2>3 DEF Init, Abstract!Init, Pending, Published, File, View
<1>2. IInv /\ [Next]_vars => [Abstract!Next]_(Abstract!vars)
  <2> SUFFICES ASSUME IInv, [Next]_vars
               PROVE  Abstract!Next \/ UNCHANGED Abstract!vars
    OBVIOUS
  <2>0. UNCHANGED <<File, Pending, Published, outcome, View, seen>> => UNCHANGED Abstract!vars
    BY DEF Abstract!vars, Pending, Published, File, View
  <2>1. CASE UNCHANGED vars
    <3>1. UNCHANGED <<File, Pending, Published, outcome, View, seen>>
      BY <2>1 DEF vars, Pending, Published, File, View, ContentAt
    <3> QED
      BY <2>0, <3>1
  <2>2. ASSUME NEW w \in Writers,
               \/ \E v \in Images : Begin(w, v)
               \/ Reject(w) \/ WriterStep(w) \/ Crash(w)
        PROVE  Abstract!Next \/ UNCHANGED Abstract!vars
    <3>1. CASE \E v \in Images : Begin(w, v)
      BY <3>1, OuterStep, LayoutFacts DEF Abstract!Next
    <3>2. CASE Reject(w) \/ Replace(w)
      BY <3>2, OuterStep DEF Abstract!Next
    <3>3. CASE \/ CreateFails(w) \/ DeferredReturn(w) \/ DeferredRemove(w)
               \/ RemoveFails(w) \/ Crash(w)
      BY <3>3, OuterStep DEF Abstract!Next, Abstract!Outcomes
    <3>4. CASE \/ \E n \in TempNames, i \in Inodes : CreateTemp(w, n, i)
               \/ WriteSegment(w) \/ WriteFails(w) \/ CloseTemp(w)
               \/ CloseFails(w) \/ ReplaceFails(w) \/ DeferredClose(w)
      BY <2>0, <3>4, InnerStep
    <3> QED
      BY <2>2, <3>1, <3>2, <3>3, <3>4 DEF WriterStep
  <2>3. ASSUME NEW r \in Readers, OpenFile(r) \/ OpenFails(r) \/ ReaderStep(r)
        PROVE  Abstract!Next \/ UNCHANGED Abstract!vars
    BY <2>0, <2>3, ReadStep DEF Abstract!Next, ReaderStep
  <2> QED
    BY <2>1, <2>2, <2>3 DEF Next
<1> QED
  BY <1>1, <1>2, InductiveInvariance, PTL DEF Spec, ImplementsAtomicFile, Abstract!Spec

=============================================================================
