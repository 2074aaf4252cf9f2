---------------------------- MODULE AchLifeProofs ----------------------------
(***************************************************************************)
(* Proofs about the life of a channel's file, for any number of processes, *)
(* files and programs and any sizes.                                       *)
(***************************************************************************)
EXTENDS AchLife, TLAPS

\* The steps of ach_create() on a file it has open, and those of ach_open() and
\* after it.
Making == {"size", "zero", "sync", "counts", "guards", "magic", "unmap"}
Opening == {"ocounts", "oguards", "opened", "close"}
Labels == {"idle", "dead", "create", "open", "omagic", "unlink"} \cup Making \cup Opening

\* The counts that "ach mk" is run with and does not refuse.
MadeDims == {g.dims : g \in {h \in Programs : h.cmd = "mk" /\ h.dims.cnt >= 1 /\ h.dims.size >= 1}}

\* The types of the variables.
TypeOK ==
  /\ used \subseteq Inodes /\ file \in used \cup {NoInode}
  /\ made \subseteq used /\ clobbered \subseteq used
  /\ fsize \in [Inodes -> Nat]
  /\ magic \in [Inodes -> BOOLEAN] /\ sync \in [Inodes -> BOOLEAN] /\ mode \in [Inodes -> BOOLEAN]
  /\ counts \in [Inodes -> Dims] /\ DOMAIN guards = Inodes
  /\ pc \in [Procs -> Labels]
  /\ inode \in [Procs -> used \cup {NoInode}]
  /\ len \in [Procs -> Nat]
  /\ DOMAIN prog = Procs /\ DOMAIN ret = Procs

\* A process that runs has a program and no result yet, and a file from the time
\* it opens one.
Running ==
  \A p \in Procs :
    /\ pc[p] \notin {"idle", "dead"} => prog[p] \in Programs /\ ret[p] = "none"
    /\ pc[p] \in {"create"} \cup Making => prog[p].dims \in MadeDims
    /\ pc[p] \in {"omagic"} \cup Making \cup Opening => inode[p] \in used

\* Only one process makes a file, unless it was opened with -t.
OneMaker ==
  \A p, q \in Procs :
    /\ pc[p] \in Making /\ pc[q] \in Making
    /\ inode[p] = inode[q] /\ inode[p] \notin clobbered
    => p = q

\* How far the file of process p is when it makes it alone.
Stage(p) ==
  LET i == inode[p]
      d == prog[p].dims
  IN /\ magic[i] <=> pc[p] = "unmap"
     /\ pc[p] # "size" => fsize[i] = CreateLen(d) /\ len[p] = CreateLen(d)
     /\ pc[p] \in {"counts", "guards", "magic", "unmap"} => sync[i]
     /\ pc[p] \in {"guards", "magic", "unmap"} => counts[i] = d
     /\ pc[p] \in {"magic", "unmap"} => guards[i] = d

Stages == \A p \in Procs : pc[p] \in Making /\ inode[p] \notin clobbered => Stage(p)

\* The magic number is the last thing written to a file, and stays.
MagicLast ==
  \A i \in Inodes \ clobbered :
    /\ magic[i] => Complete(i) /\ counts[i] \in MadeDims
    /\ i \in made => magic[i]
    /\ i \notin used => ~ magic[i]

\* Whoever has read the magic number finds what ach_create() has left.
Openers ==
  \A p \in Procs :
    pc[p] \in Opening /\ inode[p] \notin clobbered =>
      /\ magic[inode[p]]
      /\ pc[p] # "ocounts" => len[p] = OpenLen(counts[inode[p]])

\* The inductive invariant.
IInv == TypeOK /\ Running /\ OneMaker /\ Stages /\ MagicLast /\ Openers

-----------------------------------------------------------------------------
(* Sizes. *)

\* Mappings are whole pages.
LEMMA RoundUpGeq ==
  ASSUME NEW n \in Nat
  PROVE  RoundUp(n) \in Nat /\ n <= RoundUp(n)
<1> DEFINE m == n + PageSize - 1
           q == m \div PageSize
<1>1. PageSize \in Nat \ {0} /\ m \in Nat
  BY SizeAssumption
<1>2. q \in Nat /\ m < PageSize * q + PageSize
  <2> HIDE DEF m
  <2> QED
    BY <1>1
<1>3. q * PageSize = PageSize * q /\ q * PageSize \in Nat
  <2> HIDE DEF q
  <2> QED
    BY <1>1, <1>2
<1> QED
  BY <1>1, <1>2, <1>3 DEF RoundUp

\* The guard words end where the file does, one behind the other.
LEMMA GuardEnds ==
  ASSUME NEW d \in Dims
  PROVE  /\ CreateLen(d) \in Nat \ {0} /\ OpenLen(d) \in Nat
         /\ IndexGuardEnd(d) \in Nat /\ DataGuardEnd(d) = CreateLen(d)
         /\ IndexGuardEnd(d) <= DataGuardEnd(d)
<1> DEFINE x == d.cnt * IndexSize
           y == d.cnt * d.size
<1>1. x \in Nat /\ y \in Nat
  BY SizeAssumption DEF Dims
<1>2. HeaderSize \in Nat \ {0}
  BY SizeAssumption, Zenon
<1> HIDE DEF x, y
<1>3. /\ CreateLen(d) = HeaderSize + x + y + 24 /\ OpenLen(d) = HeaderSize + x + y
      /\ IndexGuardEnd(d) = HeaderSize + 8 + x + 8
      /\ DataGuardEnd(d) = HeaderSize + 8 + x + 8 + y + 8
  BY <1>1, <1>2 DEF CreateLen, OpenLen, IndexGuardEnd, DataGuardEnd, Word, x, y
<1> QED
  BY <1>1, <1>2, <1>3

\* The counts of a channel are counts, and not all zero.
LEMMA MadeDimsAreDims ==
  ASSUME NEW d \in MadeDims
  PROVE  d \in Dims /\ d # Zero
BY ProgramAssumption DEF MadeDims, Program, Dims, Zero

-----------------------------------------------------------------------------
(* What a step of one process keeps. *)

\* Only the locals of process p change.
Others(p) ==
  \A q \in Procs \ {p} :
    pc'[q] = pc[q] /\ prog'[q] = prog[q] /\ inode'[q] = inode[q] /\ len'[q] = len[q] /\ ret'[q] = ret[q]

\* What Running says of process p.
Ready(p) ==
  /\ pc[p] \notin {"idle", "dead"} => prog[p] \in Programs /\ ret[p] = "none"
  /\ pc[p] \in {"create"} \cup Making => prog[p].dims \in MadeDims
  /\ pc[p] \in {"omagic"} \cup Making \cup Opening => inode[p] \in used

\* What Openers says of process p.
Mapped(p) ==
  pc[p] \in Opening /\ inode[p] \notin clobbered =>
    /\ magic[inode[p]]
    /\ pc[p] # "ocounts" => len[p] = OpenLen(counts[inode[p]])

\* A step that leaves the contents of the files alone.
LEMMA QuietStep ==
  ASSUME IInv, TypeOK', NEW p \in Procs, Others(p), Ready(p)',
         UNCHANGED <<fsize, magic, counts, guards, sync, used>>,
         clobbered \subseteq clobbered',
         \A i \in made' \ clobbered : i \in made \/ magic[i],
         pc'[p] \in Making /\ inode'[p] \notin clobbered' =>
           Stage(p)' /\ \A q \in Procs \ {p} : pc[q] \in Making => inode[q] # inode'[p],
         Mapped(p)'
  PROVE  IInv'
<1>1. Running'
  BY Zenon DEF IInv, Running, Ready, Others
<1>2. OneMaker'
  BY Zenon DEF IInv, OneMaker, Others
<1>3. ASSUME NEW q \in Procs, pc'[q] \in Making, inode'[q] \notin clobbered'
      PROVE  Stage(q)'
  <2>1. CASE q = p
    BY <1>3, <2>1, Zenon
  <2>2. CASE q # p
    <3>1. pc'[q] = pc[q] /\ prog'[q] = prog[q] /\ inode'[q] = inode[q] /\ len'[q] = len[q]
      BY <2>2, Zenon DEF Others
    <3>2. Stage(q)
      BY <1>3, <3>1, Zenon DEF IInv, Stages
    <3> QED
      BY <3>1, <3>2, Zenon DEF Stage
  <2> QED
    BY <2>1, <2>2, Zenon
<1>4. MagicLast'
  BY Zenon DEF IInv, MagicLast, Complete
<1>5. Openers'
  BY DEF IInv, Openers, Mapped, Others
<1> QED
  BY <1>1, <1>2, <1>3, <1>4, <1>5, Zenon DEF IInv, Stages

\* A step of ach_create() that changes the file it makes, before the end.
LEMMA MakerStep ==
  ASSUME IInv, TypeOK', NEW p \in Procs, Others(p), Ready(p)',
         pc[p] \in Making \ {"unmap"}, pc'[p] \in Making, inode' = inode,
         \A j \in Inodes \ {inode[p]} :
           /\ fsize'[j] = fsize[j] /\ magic'[j] = magic[j] /\ counts'[j] = counts[j]
           /\ guards'[j] = guards[j] /\ sync'[j] = sync[j],
         UNCHANGED <<used, made, clobbered>>,
         inode[p] \notin clobbered => Stage(p)'
  PROVE  IInv'
<1>0. inode[p] \in used /\ used \subseteq Inodes
  BY Zenon DEF IInv, TypeOK, Running
<1>1. Running'
  BY DEF IInv, Running, Ready, Others
<1>2. OneMaker'
  BY Zenon DEF IInv, OneMaker, Others
<1>3. inode[p] \notin clobbered => ~ magic[inode[p]]
  BY Zenon DEF IInv, Stages, Stage
<1>4. ASSUME NEW q \in Procs, pc'[q] \in Making, inode'[q] \notin clobbered'
      PROVE  Stage(q)'
  <2>1. CASE q = p
    BY <1>4, <2>1, Zenon
  <2>2. CASE q # p
    <3>1. pc'[q] = pc[q] /\ prog'[q] = prog[q] /\ inode'[q] = inode[q] /\ len'[q] = len[q]
      BY <2>2, Zenon DEF Others
    <3>2. inode[q] # inode[p] /\ inode[q] \in Inodes
      BY <1>4, <2>2, <3>1, Zenon DEF IInv, OneMaker, Running, TypeOK
    <3>3. Stage(q)
      BY <1>4, <3>1, Zenon DEF IInv, Stages
    <3> QED
      BY <3>1, <3>2, <3>3, ZenonT(60) DEF Stage
  <2> QED
    BY <2>1, <2>2, Zenon
<1>5. ASSUME NEW i \in Inodes, i \notin clobbered'
      PROVE  /\ magic'[i] => Complete(i)' /\ counts'[i] \in MadeDims
             /\ i \in made' => magic'[i]
             /\ i \notin used' => ~ magic'[i]
  <2>1. CASE i # inode[p]
    BY <1>5, <2>1, ZenonT(60) DEF IInv, MagicLast, Complete
  <2>2. CASE i = inode[p]
    <3>1. i \notin made /\ i \in used
      BY <1>0, <1>3, <1>5, <2>2, Zenon DEF IInv, MagicLast
    <3>2. Stage(p)' /\ prog'[p].dims \in MadeDims
      BY <1>5, <2>2, Zenon DEF Ready
    <3>3. magic'[i] => /\ pc'[p] = "unmap" /\ sync'[i] /\ counts'[i] = prog'[p].dims
                       /\ guards'[i] = prog'[p].dims /\ fsize'[i] = CreateLen(prog'[p].dims)
      BY <2>2, <3>2, Zenon DEF Stage
    <3> QED
      BY <3>1, <3>2, <3>3, MadeDimsAreDims, Zenon DEF Complete
  <2> QED
    BY <2>1, <2>2, Zenon
<1>6. ASSUME NEW q \in Procs
      PROVE  Mapped(q)'
  <2>1. SUFFICES ASSUME pc'[q] \in Opening, inode'[q] \notin clobbered'
                 PROVE  magic'[inode'[q]] /\ (pc'[q] # "ocounts" => len'[q] = OpenLen(counts'[inode'[q]]))
    BY Zenon DEF Mapped
  <2>2. q # p
    BY <2>1, Zenon DEF Making, Opening
  <2>3. pc'[q] = pc[q] /\ inode'[q] = inode[q] /\ len'[q] = len[q]
    BY <2>2, Zenon DEF Others
  <2>4. magic[inode[q]] /\ inode[q] \in Inodes
    BY <1>0, <2>1, <2>3, Zenon DEF IInv, Openers, Running, TypeOK
  <2>5. inode[q] # inode[p]
    BY <1>3, <2>1, <2>3, <2>4, Zenon
  <2> QED
    BY <2>1, <2>3, <2>4, <2>5, Zenon DEF IInv, Openers
<1> QED
  BY <1>1, <1>2, <1>4, <1>5, <1>6, Zenon DEF IInv, Stages, MagicLast, Openers, Mapped

-----------------------------------------------------------------------------
(* The steps. *)

\* A program ends: whatever it was doing is no longer asked for.
LEMMA ReturnStep ==
  ASSUME IInv, NEW p \in Procs, NEW r, Return(p, r),
         UNCHANGED <<used, shmfile, prog, inode, len, clobbered>>,
         made' \subseteq used, \A i \in made' \ clobbered : i \in made \/ magic[i],
         file' \in used \cup {NoInode}
  PROVE  IInv'
<1>1. /\ pc' = [pc EXCEPT ![p] = pc'[p]] /\ pc'[p] \in {"idle", "dead"}
      /\ ret' = [ret EXCEPT ![p] = r]
  BY Zenon DEF IInv, TypeOK, Return
<1>2. TypeOK'
  BY <1>1, Zenon DEF IInv, TypeOK, shmfile, Labels
<1>3. Others(p)
  BY <1>1, Zenon DEF Others, IInv, TypeOK
<1>4. Ready(p)' /\ Mapped(p)' /\ pc'[p] \notin Making
  BY <1>1, Zenon DEF Ready, Mapped, Making, Opening
<1> QED
  BY <1>2, <1>3, <1>4, QuietStep, Zenon DEF shmfile

\* A step of a process that opens a file or has opened it.
LEMMA OpenStep ==
  ASSUME IInv, NEW p \in Procs, NEW l \in {"open", "omagic"} \cup Opening, Goto(p, l),
         pc[p] \notin {"idle", "dead"},
         inode' \in [Procs -> used \cup {NoInode}], \A q \in Procs \ {p} : inode'[q] = inode[q],
         len' \in [Procs -> Nat], \A q \in Procs \ {p} : len'[q] = len[q],
         mode' \in [Inodes -> BOOLEAN],
         UNCHANGED <<file, used, fsize, magic, counts, guards, sync, prog, clobbered>>,
         made' \subseteq used, \A i \in made' \ clobbered : i \in made \/ magic[i],
         l # "open" => inode'[p] \in used,
         l \in Opening /\ inode'[p] \notin clobbered =>
           magic[inode'[p]] /\ (l # "ocounts" => len'[p] = OpenLen(counts[inode'[p]]))
  PROVE  IInv'
<1>1. pc' = [pc EXCEPT ![p] = l] /\ pc'[p] = l /\ ret' = ret
  BY Zenon DEF IInv, TypeOK, Goto
<1>2. TypeOK'
  BY <1>1, Zenon DEF IInv, TypeOK, Labels
<1>3. Others(p)
  BY <1>1, Zenon DEF Others, IInv, TypeOK
<1>4. Ready(p)' /\ Mapped(p)' /\ pc'[p] \notin Making
  BY <1>1, Zenon DEF IInv, Running, Ready, Mapped, Making, Opening
<1> QED
  BY <1>2, <1>3, <1>4, QuietStep, Zenon

\* main() of the ach tool and of a client.
LEMMA StartStep ==
  ASSUME IInv, NEW p \in Procs, Start(p)
  PROVE  IInv'
<1>1. PICK g \in Programs :
        /\ prog' = [prog EXCEPT ![p] = g]
        /\ pc' = [pc EXCEPT ![p] =
             IF g.cmd = "mk" /\ (g.dims.cnt < 1 \/ g.dims.size < 1) THEN "idle" ELSE Entry(g)]
        /\ ret' = [ret EXCEPT ![p] =
             IF g.cmd = "mk" /\ (g.dims.cnt < 1 \/ g.dims.size < 1) THEN "refused" ELSE "none"]
  BY Zenon DEF Start
<1>2. /\ inode' = [inode EXCEPT ![p] = NoInode] /\ len' = [len EXCEPT ![p] = 0]
      /\ UNCHANGED <<file, used, shmfile, history>>
  BY Zenon DEF Start
<1>3. /\ pc'[p] \in {"idle", "create", "unlink", "open"}
      /\ pc'[p] # "idle" => ret'[p] = "none"
      /\ pc'[p] = "create" => g.dims \in MadeDims
      /\ prog'[p] = g
  <2>1. g.cmd = "mk" => g.dims.cnt \in Nat /\ g.dims.size \in Nat
    BY ProgramAssumption, Zenon DEF Program, Dims
  <2> QED
    BY <1>1, <2>1 DEF IInv, TypeOK, Entry, MadeDims
<1>4. TypeOK'
  BY <1>1, <1>2, <1>3, Zenon DEF IInv, TypeOK, shmfile, history, Labels
<1>5. Others(p)
  BY <1>1, <1>2, Zenon DEF Others, IInv, TypeOK
<1>6. Ready(p)' /\ Mapped(p)' /\ pc'[p] \notin Making
  BY <1>1, <1>3, Zenon DEF Ready, Mapped, Making, Opening
<1> QED
  BY <1>2, <1>4, <1>5, <1>6, QuietStep, Zenon DEF shmfile, history

\* shm_open() makes a file that nobody else has.
LEMMA CreateNewStep ==
  ASSUME IInv, NEW p \in Procs, ShmCreateNew(p)
  PROVE  IInv'
<1>1. PICK i \in Inodes \ used :
        file' = i /\ used' = used \cup {i} /\ inode' = [inode EXCEPT ![p] = i]
  BY Zenon DEF ShmCreateNew
<1>2. /\ pc[p] = "create" /\ pc' = [pc EXCEPT ![p] = "size"] /\ pc'[p] = "size" /\ inode'[p] = i
      /\ UNCHANGED <<ret, shmfile, prog, len, history>>
  BY <1>1, Zenon DEF ShmCreateNew, Goto, IInv, TypeOK
<1>3. TypeOK'
  BY <1>1, <1>2, Zenon DEF IInv, TypeOK, shmfile, history, Labels, Making
<1>4. \A q \in Procs : inode[q] # i
  BY <1>1, InodeAssumption, Zenon DEF IInv, TypeOK
<1>5. \A q \in Procs \ {p} : pc'[q] = pc[q] /\ inode'[q] = inode[q]
  BY <1>1, <1>2, Zenon DEF IInv, TypeOK
<1>6. i \notin clobbered /\ ~ magic[i]
  BY <1>1, Zenon DEF IInv, TypeOK, MagicLast
<1>7. Running'
  BY <1>1, <1>2, <1>5 DEF IInv, Running, Making, Opening
<1>8. OneMaker'
  BY <1>2, <1>4, <1>5, ZenonT(60) DEF IInv, OneMaker, history
<1>9. Stages'
  <2>1. Stage(p)'
    BY <1>2, <1>6, Zenon DEF Stage, shmfile
  <2>2. ASSUME NEW q \in Procs \ {p}, pc'[q] \in Making, inode'[q] \notin clobbered'
        PROVE  Stage(q)'
    <3>1. Stage(q)
      BY <1>2, <1>5, <2>2, Zenon DEF IInv, Stages, history
    <3> QED
      BY <1>2, <1>5, <3>1, Zenon DEF Stage, shmfile
  <2> QED
    BY <2>1, <2>2, Zenon DEF Stages
<1>10. MagicLast'
  BY <1>1, <1>2, Zenon DEF IInv, MagicLast, Complete, shmfile, history
<1>11. Openers'
  BY <1>2, <1>5, Zenon DEF IInv, Openers, shmfile, history, Opening
<1> QED
  BY <1>3, <1>7, <1>8, <1>9, <1>10, <1>11, Zenon DEF IInv

\* The name is taken.
LEMMA CreateExistsStep ==
  ASSUME IInv, NEW p \in Procs, ShmCreateExists(p)
  PROVE  IInv'
<1>1. /\ pc[p] = "create" /\ file # NoInode
      /\ UNCHANGED <<file, used, shmfile, prog, len, made>>
  BY Zenon DEF ShmCreateExists
<1>2. CASE UNCHANGED <<inode, clobbered>> /\ \E r : Return(p, r)
  BY <1>1, <1>2, ReturnStep, Zenon DEF IInv, TypeOK, history
<1>3. CASE UNCHANGED <<inode, clobbered>> /\ Goto(p, "open")
  <2>1. /\ mode' \in [Inodes -> BOOLEAN] /\ made' \subseteq used
        /\ inode' \in [Procs -> used \cup {NoInode}] /\ len' \in [Procs -> Nat]
    BY <1>1, <1>3, Zenon DEF IInv, TypeOK, shmfile
  <2> QED
    BY <1>1, <1>3, <2>1, OpenStep, Zenon DEF shmfile, Opening
<1>4. CASE inode' = [inode EXCEPT ![p] = file] /\ clobbered' = clobbered \cup {file} /\ Goto(p, "size")
  <2>1. pc' = [pc EXCEPT ![p] = "size"] /\ pc'[p] = "size" /\ ret' = ret /\ inode'[p] = file
    BY <1>4, Zenon DEF Goto, IInv, TypeOK
  <2>2. TypeOK'
    BY <1>1, <1>4, <2>1, Zenon DEF IInv, TypeOK, shmfile, Labels, Making
  <2>3. Others(p)
    BY <1>1, <1>4, <2>1, Zenon DEF Others, IInv, TypeOK
  <2>4. Ready(p)' /\ Mapped(p)' /\ inode'[p] \in clobbered'
    BY <1>1, <1>4, <2>1, Zenon DEF IInv, TypeOK, Running, Ready, Mapped, Making, Opening
  <2> QED
    BY <1>1, <1>4, <2>2, <2>3, <2>4, QuietStep, Zenon DEF shmfile
<1> QED
  BY <1>2, <1>3, <1>4, Zenon DEF ShmCreateExists, Created

\* ftruncate() and mmap().
LEMMA SizeStep ==
  ASSUME IInv, NEW p \in Procs, SizeFile(p)
  PROVE  IInv'
<1> DEFINE i == inode[p]
           n == CreateLen(prog[p].dims)
<1>1. /\ pc[p] = "size" /\ pc' = [pc EXCEPT ![p] = "zero"]
      /\ fsize' = [fsize EXCEPT ![i] = n] /\ guards' = [guards EXCEPT ![i] = Cut(guards[i], n)]
      /\ len' = [len EXCEPT ![p] = n]
      /\ UNCHANGED <<file, used, magic, counts, sync, mode, prog, inode, ret, made, clobbered>>
  BY Zenon DEF SizeFile, Goto, history
<1>2. i \in Inodes /\ prog[p].dims \in MadeDims /\ prog[p] \in Programs /\ ret[p] = "none" /\ i \in used
  BY <1>1, Zenon DEF IInv, Running, TypeOK, Making
<1>3. n \in Nat
  BY <1>2, GuardEnds, MadeDimsAreDims, Zenon
<1> HIDE DEF n
<1>4. TypeOK'
  BY <1>1, <1>2, <1>3, Zenon DEF IInv, TypeOK, Labels, Making
<1>5. Others(p) /\ pc'[p] = "zero" /\ len'[p] = n /\ fsize'[i] = n
  BY <1>1, <1>2, Zenon DEF Others, IInv, TypeOK
<1>6. Ready(p)'
  BY <1>1, <1>2, <1>5, Zenon DEF Ready
<1>7. i \notin clobbered => Stage(p)'
  BY <1>1, <1>5, Zenon DEF IInv, Stages, Stage, Making, n
<1> QED
  BY <1>1, <1>2, <1>4, <1>5, <1>6, <1>7, MakerStep, Zenon DEF IInv, TypeOK, Making

\* memset(), which the file has room for unless another ach_create() cut it.
LEMMA ZeroStep ==
  ASSUME IInv, NEW p \in Procs, ZeroFile(p)
  PROVE  IInv'
<1> DEFINE i == inode[p]
<1>1. pc[p] = "zero" /\ UNCHANGED <<file, used, prog, inode, len, made, clobbered>>
  BY Zenon DEF ZeroFile, history
<1>2. CASE Return(p, "fault") /\ UNCHANGED shmfile
  BY <1>1, <1>2, ReturnStep, Zenon DEF IInv, TypeOK, history
<1>3. CASE ~ (Return(p, "fault") /\ UNCHANGED shmfile)
  <2>1. /\ magic' = [magic EXCEPT ![i] = FALSE] /\ counts' = [counts EXCEPT ![i] = Zero]
        /\ guards' = [guards EXCEPT ![i] = Zero] /\ sync' = [sync EXCEPT ![i] = FALSE]
        /\ pc' = [pc EXCEPT ![p] = "sync"] /\ UNCHANGED <<ret, fsize, mode>>
    BY <1>3, Zenon DEF ZeroFile, Goto
  <2>2. i \in Inodes /\ i \in used /\ prog[p].dims \in MadeDims /\ prog[p] \in Programs /\ ret[p] = "none"
    BY <1>1, Zenon DEF IInv, Running, TypeOK, Making
  <2>3. TypeOK'
    BY <1>1, <2>1, Zenon DEF IInv, TypeOK, Labels, Making, Dims, Zero
  <2>4. Others(p) /\ pc'[p] = "sync" /\ ~ magic'[i]
    BY <1>1, <2>1, <2>2, Zenon DEF Others, IInv, TypeOK
  <2>5. Ready(p)'
    BY <1>1, <2>1, <2>2, <2>4, Zenon DEF Ready
  <2>6. i \notin clobbered => Stage(p)'
    BY <1>1, <2>1, <2>4, Zenon DEF IInv, Stages, Stage, Making
  <2> QED
    BY <1>1, <2>1, <2>2, <2>3, <2>4, <2>5, <2>6, MakerStep, Zenon DEF IInv, TypeOK, Making
<1> QED
  BY <1>2, <1>3, Zenon

\* The mutex and the condition variable, the counts, and the magic number.
LEMMA FieldStep ==
  ASSUME IInv, NEW p \in Procs, InitSync(p) \/ InitCounts(p) \/ InitMagic(p)
  PROVE  IInv'
<1> DEFINE i == inode[p]
           d == prog[p].dims
<1>1. /\ UNCHANGED <<file, used, fsize, guards, mode, prog, inode, len, ret, made, clobbered>>
      /\ \/ pc[p] = "sync" /\ pc' = [pc EXCEPT ![p] = "counts"]
            /\ sync' = [sync EXCEPT ![i] = TRUE] /\ UNCHANGED <<counts, magic>>
         \/ pc[p] = "counts" /\ pc' = [pc EXCEPT ![p] = "guards"]
            /\ counts' = [counts EXCEPT ![i] = d] /\ UNCHANGED <<sync, magic>>
         \/ pc[p] = "magic" /\ pc' = [pc EXCEPT ![p] = "unmap"]
            /\ magic' = [magic EXCEPT ![i] = TRUE] /\ UNCHANGED <<sync, counts>>
  BY Zenon DEF InitSync, InitCounts, InitMagic, Goto, history
<1>2. i \in Inodes /\ i \in used /\ d \in MadeDims /\ prog[p] \in Programs /\ ret[p] = "none"
  BY <1>1, Zenon DEF IInv, Running, TypeOK, Making
<1>3. d \in Dims
  BY <1>2, MadeDimsAreDims, Zenon
<1>4. TypeOK'
  BY <1>1, <1>2, <1>3, Zenon DEF IInv, TypeOK, Labels, Making
<1>5. Others(p) /\ pc[p] \in Making \ {"unmap"} /\ pc'[p] \in Making
  BY <1>1, Zenon DEF Others, IInv, TypeOK, Making
<1>6. Ready(p)'
  BY <1>1, <1>2, <1>5, Zenon DEF Ready, Making
<1>7. i \notin clobbered => Stage(p)'
  <2>1. SUFFICES ASSUME i \notin clobbered PROVE Stage(p)'
    BY Zenon
  <2>2. Stage(p)
    BY <1>5, <2>1, Zenon DEF IInv, Stages
  <2> QED
    BY <1>1, <1>2, <2>2, Zenon DEF Stage, IInv, TypeOK
<1> QED
  BY <1>1, <1>2, <1>4, <1>5, <1>6, <1>7, MakerStep, Zenon DEF IInv, TypeOK

\* The guard words, for which the mapping has room unless another ach_create()
\* wrote larger counts.
LEMMA GuardsStep ==
  ASSUME IInv, NEW p \in Procs, InitGuards(p)
  PROVE  IInv'
<1> DEFINE i == inode[p]
           d == prog[p].dims
           beyond == Beyond(i, len[p], DataGuardEnd(counts[i]))
<1>1. /\ pc[p] = "guards"
      /\ UNCHANGED <<file, used, fsize, magic, counts, sync, mode, prog, inode, len, made, clobbered>>
  BY Zenon DEF InitGuards, history
<1>2. CASE UNCHANGED guards /\ Return(p, "fault")
  BY <1>1, <1>2, ReturnStep, Zenon DEF IInv, TypeOK, shmfile, history
<1>3. CASE ~ (UNCHANGED guards /\ Return(p, "fault"))
  <2>1. /\ pc' = [pc EXCEPT ![p] = "magic"] /\ ret' = ret
        /\ \/ guards' = [guards EXCEPT ![i] = counts[i]]
           \/ guards' = [guards EXCEPT ![i] = [counts[i] EXCEPT !.size = 0]] /\ beyond # {}
    BY <1>3, Zenon DEF InitGuards, Goto
  <2>2. i \in Inodes /\ i \in used /\ d \in MadeDims /\ prog[p] \in Programs /\ ret[p] = "none"
    BY <1>1, Zenon DEF IInv, Running, TypeOK, Making
  <2>3. TypeOK'
    BY <1>1, <2>1, Zenon DEF IInv, TypeOK, Labels, Making
  <2>4. Others(p) /\ pc'[p] = "magic"
    BY <1>1, <2>1, Zenon DEF Others, IInv, TypeOK
  <2>5. Ready(p)'
    BY <1>1, <2>1, <2>2, <2>4, Zenon DEF Ready
  <2>6. i \notin clobbered => Stage(p)'
    <3>1. SUFFICES ASSUME i \notin clobbered PROVE Stage(p)'
      BY Zenon
    <3>2. Stage(p)
      BY <1>1, <3>1, Zenon DEF IInv, Stages, Making
    <3>3. fsize[i] = CreateLen(d) /\ len[p] = CreateLen(d) /\ counts[i] = d /\ sync[i] /\ ~ magic[i]
      BY <1>1, <3>2, Zenon DEF Stage
    <3>4. /\ DataGuardEnd(d) = CreateLen(d) /\ CreateLen(d) \in Nat
          /\ RoundUp(CreateLen(d)) \in Nat /\ CreateLen(d) <= RoundUp(CreateLen(d))
      BY <2>2, GuardEnds, MadeDimsAreDims, RoundUpGeq, Zenon
    <3>5. beyond = {}
      BY <3>3, <3>4 DEF Beyond
    <3>6. guards'[i] = d
      BY <2>1, <2>2, <3>3, <3>5, Zenon DEF IInv, TypeOK
    <3> QED
      BY <1>1, <2>4, <3>3, <3>6, Zenon DEF Stage
  <2> QED
    BY <1>1, <2>1, <2>2, <2>3, <2>4, <2>5, <2>6, MakerStep, Zenon DEF IInv, TypeOK, Making
<1> QED
  BY <1>2, <1>3, Zenon

\* ach_create() returns.
LEMMA CreateDoneStep ==
  ASSUME IInv, NEW p \in Procs, CreateDone(p)
  PROVE  IInv'
<1>1. /\ pc[p] = "unmap" /\ made' = made \cup {inode[p]}
      /\ UNCHANGED <<file, used, shmfile, prog, inode, len, clobbered>>
  BY Zenon DEF CreateDone
<1>2. inode[p] \in used /\ (inode[p] \notin clobbered => magic[inode[p]])
  BY <1>1, Zenon DEF IInv, Running, Stages, Stage, Making
<1>3. /\ made' \subseteq used /\ \A i \in made' \ clobbered : i \in made \/ magic[i]
      /\ mode' \in [Inodes -> BOOLEAN] /\ inode' \in [Procs -> used \cup {NoInode}]
      /\ len' \in [Procs -> Nat] /\ file' \in used \cup {NoInode}
  BY <1>1, <1>2, Zenon DEF IInv, TypeOK, shmfile
<1>4. CASE Return(p, "ACH_OK")
  BY <1>1, <1>3, <1>4, ReturnStep, Zenon
<1>5. CASE Goto(p, "open")
  BY <1>1, <1>3, <1>5, OpenStep, Zenon DEF shmfile, Opening
<1> QED
  BY <1>4, <1>5, Zenon DEF CreateDone, Created

\* shm_open() of ach_open(), and the magic number.
LEMMA ShmOpenStep ==
  ASSUME IInv, NEW p \in Procs, ShmOpen(p) \/ OpenMagic(p)
  PROVE  IInv'
<1>1. /\ pc[p] \in {"open", "omagic"} /\ UNCHANGED <<file, used, shmfile, prog, len, history>>
      /\ mode' \in [Inodes -> BOOLEAN] /\ len' \in [Procs -> Nat] /\ made' \subseteq used
      /\ file' \in used \cup {NoInode}
  BY Zenon DEF ShmOpen, OpenMagic, IInv, TypeOK, shmfile, history
<1>2. CASE UNCHANGED inode /\ \E r : Return(p, r)
  BY <1>1, <1>2, ReturnStep, Zenon DEF history
<1>3. CASE inode' = [inode EXCEPT ![p] = file] /\ file # NoInode /\ Goto(p, "omagic")
  <2>1. /\ inode' \in [Procs -> used \cup {NoInode}] /\ inode'[p] \in used
        /\ \A q \in Procs \ {p} : inode'[q] = inode[q]
    BY <1>3, Zenon DEF IInv, TypeOK
  <2> QED
    BY <1>1, <1>3, <2>1, OpenStep, Zenon DEF shmfile, history, Opening
<1>4. CASE UNCHANGED inode /\ pc[p] = "omagic" /\ magic[inode[p]] /\ Goto(p, "ocounts")
  <2>1. inode' \in [Procs -> used \cup {NoInode}] /\ inode'[p] \in used
    BY <1>4, Zenon DEF IInv, TypeOK, Running
  <2> QED
    BY <1>1, <1>4, <2>1, OpenStep, Zenon DEF shmfile, history, Opening
<1> QED
  BY <1>2, <1>3, <1>4, Zenon DEF ShmOpen, OpenMagic

\* The second mmap().
LEMMA OpenCountsStep ==
  ASSUME IInv, NEW p \in Procs, OpenCounts(p)
  PROVE  IInv'
<1>1. /\ pc[p] = "ocounts" /\ len' = [len EXCEPT ![p] = OpenLen(counts[inode[p]])]
      /\ Goto(p, "oguards") /\ UNCHANGED <<file, used, shmfile, prog, inode, history>>
  BY Zenon DEF OpenCounts
<1>2. inode[p] \in used /\ counts[inode[p]] \in Dims
  BY <1>1, Zenon DEF IInv, TypeOK, Running, Opening
<1>3. OpenLen(counts[inode[p]]) \in Nat
  BY <1>2, GuardEnds, Zenon
<1>4. /\ len' \in [Procs -> Nat] /\ len'[p] = OpenLen(counts[inode[p]])
      /\ \A q \in Procs \ {p} : len'[q] = len[q]
  BY <1>1, <1>3, Zenon DEF IInv, TypeOK
<1>5. /\ mode' \in [Inodes -> BOOLEAN] /\ made' \subseteq used
      /\ inode' \in [Procs -> used \cup {NoInode}]
      /\ inode[p] \notin clobbered => magic[inode[p]]
  BY <1>1, Zenon DEF IInv, TypeOK, Openers, Opening, shmfile, history
<1> QED
  BY <1>1, <1>2, <1>4, <1>5, OpenStep, Zenon DEF shmfile, history, Opening

\* The calls on an open handle.
LEMMA HandleStep ==
  ASSUME IInv, NEW p \in Procs,
         OpenGuards(p) \/ Use(p) \/ Dump(p) \/ Finish(p) \/ Chmod(p) \/ Close(p)
  PROVE  IInv'
<1>1. /\ pc[p] \in Opening \ {"ocounts"}
      /\ UNCHANGED <<file, used, fsize, magic, counts, guards, sync, prog, inode, len, history>>
      /\ mode' \in [Inodes -> BOOLEAN]
  BY Zenon DEF OpenGuards, Use, Dump, Finish, Chmod, Close, Opening, IInv, TypeOK, shmfile
<1>2. \/ \E l \in {"opened", "close"} : Goto(p, l)
      \/ mode' = mode /\ \E r : Return(p, r)
  BY Zenon DEF OpenGuards, Use, Dump, Finish, Chmod, Close, shmfile
<1>3. /\ inode' \in [Procs -> used \cup {NoInode}] /\ len' \in [Procs -> Nat] /\ made' \subseteq used
      /\ file' \in used \cup {NoInode} /\ inode[p] \in used
      /\ inode[p] \notin clobbered => magic[inode[p]] /\ len[p] = OpenLen(counts[inode[p]])
  BY <1>1, Zenon DEF IInv, TypeOK, Running, Openers, history
<1>4. CASE mode' = mode /\ \E r : Return(p, r)
  BY <1>1, <1>3, <1>4, ReturnStep, Zenon DEF shmfile, history
<1>5. ASSUME NEW l \in {"opened", "close"}, Goto(p, l)
      PROVE  IInv'
  BY <1>1, <1>3, <1>5, OpenStep, Zenon DEF history, Opening
<1> QED
  BY <1>2, <1>4, <1>5, Zenon

\* A system call fails, or the name is removed.
LEMMA EndStep ==
  ASSUME IInv, NEW p \in Procs, CreateFails(p) \/ OpenFails(p) \/ Unlink(p)
  PROVE  IInv'
<1>1. /\ UNCHANGED <<used, shmfile, prog, inode, len, history>> /\ file' \in {file, NoInode}
      /\ \E r : Return(p, r)
  BY Zenon DEF CreateFails, OpenFails, Unlink, history
<1> QED
  BY <1>1, ReturnStep, Zenon DEF IInv, TypeOK, history

\* A step of process p.
Step(p) ==
  Start(p) \/ Create(p) \/ Open(p) \/ Use(p) \/ Dump(p) \/ Finish(p) \/ Chmod(p) \/ Close(p) \/ Unlink(p)

\* Every step keeps the invariant.
LEMMA StepIInv ==
  ASSUME IInv, NEW p \in Procs, Step(p)
  PROVE  IInv'
<1>1. CASE Create(p)
  BY <1>1, CreateNewStep, CreateExistsStep, SizeStep, ZeroStep, FieldStep, GuardsStep, CreateDoneStep,
     EndStep, Zenon DEF Create
<1>2. CASE Open(p)
  BY <1>2, ShmOpenStep, OpenCountsStep, HandleStep, EndStep, Zenon DEF Open
<1> QED
  BY <1>1, <1>2, StartStep, HandleStep, EndStep, Zenon DEF Step

\* No file exists at first.
LEMMA InitIInv == Init => IInv
<1> SUFFICES ASSUME Init PROVE IInv
  BY Zenon
<1>1. TypeOK
  BY Zenon DEF Init, TypeOK, Labels, Zero, Dims
<1>2. \A p \in Procs : pc[p] = "idle"
  BY Zenon DEF Init
<1>3. Running /\ OneMaker /\ Stages /\ Openers
  BY <1>2, Zenon DEF Running, OneMaker, Stages, Openers, Making, Opening
<1>4. MagicLast
  BY Zenon DEF Init, MagicLast
<1> QED
  BY <1>1, <1>3, <1>4, Zenon DEF IInv

\* The invariant is inductive.
LEMMA NextIInv == IInv /\ [Next]_vars => IInv'
<1> SUFFICES ASSUME IInv, [Next]_vars PROVE IInv'
  BY Zenon
<1>1. CASE UNCHANGED vars
  BY <1>1, ZenonT(60) DEF vars, shmfile, history, IInv, TypeOK, Running, OneMaker, Stages, Stage, MagicLast,
    Complete, Openers
<1>2. ASSUME NEW p \in Procs, Step(p) PROVE IInv'
  BY <1>2, StepIInv, Zenon
<1> QED
  BY <1>1, <1>2, Zenon DEF Next, Step

\* For any number of processes that make, open, use, remove and re-make a channel,
\* in any interleaving and with any of them stopping anywhere: a handle that
\* ach_open() returned is to a file that ach_create() has finished, mapped with
\* the length its counts give, unless somebody opened the file with -t.
THEOREM OpenedIsComplete == Spec => []OpenedComplete
<1>1. IInv => OpenedComplete
  <2> SUFFICES ASSUME IInv, NEW p \in Procs, pc[p] \in Opened, inode[p] \notin clobbered
               PROVE  Complete(inode[p]) /\ len[p] = OpenLen(counts[inode[p]])
    BY Zenon DEF OpenedComplete
  <2>1. inode[p] \in Inodes /\ magic[inode[p]] /\ len[p] = OpenLen(counts[inode[p]])
    BY Zenon DEF IInv, TypeOK, Running, Openers, Opened, Opening
  <2> QED
    BY <2>1, Zenon DEF IInv, MagicLast
<1> QED
  BY <1>1, InitIInv, NextIInv, PTL DEF Spec

-----------------------------------------------------------------------------
(* What the calls return. *)

\* The guard words lie in the pages that ach_open() maps, which its length alone
\* does not see to: it leaves out the three words themselves.
GuardsMapped == \A d \in MadeDims : DataGuardEnd(d) <= RoundUp(OpenLen(d))

\* Reading what is in the file and in the mapping harms nobody.
LEMMA WithinReach ==
  ASSUME NEW i, NEW n \in Nat, NEW e \in Nat, fsize[i] \in Nat,
         e <= RoundUp(n), e <= RoundUp(fsize[i])
  PROVE  Beyond(i, n, e) = {}
BY RoundUpGeq DEF Beyond

\* check_guards() finds a complete channel in order, through ach_open()'s mapping.
LEMMA GuardsFound ==
  ASSUME GuardsMapped, IInv, NEW p \in Procs,
         pc[p] \in Opening \ {"ocounts"}, inode[p] \notin clobbered
  PROVE  /\ check_guards(inode[p], len[p]) = {"ACH_OK"}
         /\ Beyond(inode[p], len[p], DataGuardEnd(counts[inode[p]])) = {}
         /\ counts[inode[p]].cnt # 0
<1> DEFINE i == inode[p]
           d == counts[i]
<1>1. /\ i \in Inodes /\ magic[i] /\ len[p] = OpenLen(d) /\ Complete(i) /\ d \in MadeDims
  BY Zenon DEF IInv, TypeOK, Running, Openers, MagicLast
<1>2. d \in Dims /\ d # Zero /\ d.cnt # 0 /\ guards[i] = d /\ fsize[i] = CreateLen(d)
  BY <1>1, MadeDimsAreDims DEF Complete, MadeDims
<1>3. /\ DataGuardEnd(d) <= RoundUp(len[p]) /\ DataGuardEnd(d) <= RoundUp(fsize[i])
      /\ IndexGuardEnd(d) <= RoundUp(len[p]) /\ IndexGuardEnd(d) <= RoundUp(fsize[i])
  <2>1. /\ OpenLen(d) \in Nat /\ CreateLen(d) \in Nat /\ IndexGuardEnd(d) \in Nat
        /\ DataGuardEnd(d) = CreateLen(d) /\ IndexGuardEnd(d) <= DataGuardEnd(d)
    BY <1>2, GuardEnds, Zenon
  <2>2. /\ RoundUp(OpenLen(d)) \in Nat /\ RoundUp(CreateLen(d)) \in Nat
        /\ CreateLen(d) <= RoundUp(CreateLen(d))
    BY <2>1, RoundUpGeq, Zenon
  <2>3. DataGuardEnd(d) <= RoundUp(OpenLen(d))
    BY <1>1, Zenon DEF GuardsMapped
  <2> QED
    BY <1>1, <1>2, <2>1, <2>2, <2>3
<1>4. Beyond(i, len[p], DataGuardEnd(d)) = {} /\ Beyond(i, len[p], IndexGuardEnd(d)) = {}
  BY <1>1, <1>2, <1>3, GuardEnds, WithinReach, ZenonT(60)
<1> HIDE DEF d
<1> QED
  BY <1>1, <1>2, <1>4, Zenon DEF check_guards, d

\* What a program ends with, when nobody opened its file with -t: a call finds no
\* file corrupt, and dies only of reading one that has no length yet.
LEMMA StepResults ==
  ASSUME GuardsMapped, IInv, NEW p \in Procs, Step(p)
  PROVE  /\ ret'[p] = "ACH_CORRUPT" => inode'[p] = inode[p] /\ inode[p] \in clobbered
         /\ ret'[p] = "fault" => inode[p] \in clobbered \/ (pc[p] = "omagic" /\ fsize[inode[p]] = 0)
         /\ ret'[p] = "ACH_BAD_SHM_FILE" => pc[p] = "omagic" /\ ~ magic[inode[p]]
         /\ \A q \in Procs \ {p} : ret'[q] = ret[q] /\ inode'[q] = inode[q]
<1> DEFINE Fine(r) == r \notin {"ACH_CORRUPT", "fault", "ACH_BAD_SHM_FILE"}
<1>1. /\ pc[p] # "idle" => ret[p] = "none"
      /\ DOMAIN ret = Procs /\ DOMAIN inode = Procs
      /\ clobbered \subseteq clobbered'
  <2>1. pc[p] # "dead"
    BY Zenon DEF Step, Start, Create, ShmCreateNew, ShmCreateExists, SizeFile, ZeroFile, InitSync, InitCounts,
      InitGuards, InitMagic, CreateDone, CreateFails, Open, ShmOpen, OpenMagic, OpenCounts, OpenGuards,
      OpenFails, Use, Dump, Finish, Chmod, Close, Unlink
  <2>2. clobbered \subseteq clobbered'
    BY Zenon DEF Step, Start, Create, ShmCreateNew, ShmCreateExists, SizeFile, ZeroFile, InitSync, InitCounts,
      InitGuards, InitMagic, CreateDone, CreateFails, Open, ShmOpen, OpenMagic, OpenCounts, OpenGuards,
      OpenFails, Use, Dump, Finish, Chmod, Close, Unlink, history
  <2> QED
    BY <2>1, <2>2, Zenon DEF IInv, TypeOK, Running
<1>2. ASSUME NEW r, Return(p, r)
      PROVE  ret'[p] = r /\ \A q \in Procs \ {p} : ret'[q] = ret[q]
  BY <1>1, <1>2, Zenon DEF Return
<1>3. ASSUME NEW l, Goto(p, l), pc[p] # "idle"
      PROVE  Fine(ret'[p]) /\ \A q \in Procs : ret'[q] = ret[q]
  BY <1>1, <1>3, Zenon DEF Goto
<1>4. CASE Start(p)
  BY <1>1, <1>4, Zenon DEF Start
<1>5. CASE ShmCreateNew(p) \/ ShmCreateExists(p)
  <2>1. pc[p] # "idle" /\ \A q \in Procs \ {p} : inode'[q] = inode[q]
    BY <1>1, <1>5, Zenon DEF ShmCreateNew, ShmCreateExists
  <2>2. \/ \E l : Goto(p, l)
        \/ \E r \in {"ACH_OK", "ACH_EEXIST", "ACH_EACCES"} : Return(p, r)
    BY <1>5, Zenon DEF ShmCreateNew, ShmCreateExists, Created
  <2> QED
    BY <1>2, <1>3, <2>1, <2>2, Zenon
<1>6. CASE \/ SizeFile(p) \/ InitSync(p) \/ InitCounts(p) \/ InitMagic(p) \/ CreateDone(p)
           \/ CreateFails(p) \/ OpenFails(p) \/ OpenCounts(p) \/ Finish(p) \/ Chmod(p) \/ Unlink(p)
  <2>1. pc[p] # "idle" /\ inode' = inode
    BY <1>6, Zenon DEF SizeFile, InitSync, InitCounts, InitMagic, CreateDone, CreateFails, OpenFails,
      OpenCounts, Finish, Chmod, Unlink
  <2>2. \/ \E l : Goto(p, l)
        \/ \E r \in {"ACH_OK", "ACH_FAILED_SYSCALL", "ACH_ENOENT"} : Return(p, r)
    BY <1>6, Zenon DEF SizeFile, InitSync, InitCounts, InitMagic, CreateDone, CreateFails, OpenFails,
      OpenCounts, Finish, Chmod, Unlink, Created
  <2> QED
    BY <1>2, <1>3, <2>1, <2>2, Zenon
<1>7. CASE ZeroFile(p) \/ InitGuards(p)
  <2>1. /\ pc[p] # "idle" /\ inode' = inode
        /\ (\E l : Goto(p, l)) \/ Return(p, "fault")
    BY <1>7, Zenon DEF ZeroFile, InitGuards
  <2>2. ASSUME inode[p] \notin clobbered PROVE ~ Return(p, "fault")
    <3> DEFINE i == inode[p]
               d == prog[p].dims
    <3>1. Stage(p) /\ i \in Inodes /\ d \in MadeDims
      BY <1>7, <2>2, Zenon DEF IInv, Stages, Running, TypeOK, Making, ZeroFile, InitGuards
    <3>2. /\ DataGuardEnd(d) = CreateLen(d) /\ CreateLen(d) \in Nat
          /\ RoundUp(CreateLen(d)) \in Nat /\ CreateLen(d) <= RoundUp(CreateLen(d))
      BY <3>1, GuardEnds, MadeDimsAreDims, RoundUpGeq, Zenon
    <3>3. CASE ZeroFile(p)
      <4>1. len[p] = CreateLen(d) /\ fsize[i] = CreateLen(d)
        BY <3>1, <3>3, Zenon DEF Stage, ZeroFile
      <4>2. pc' = [pc EXCEPT ![p] = "sync"]
        BY <3>2, <3>3, <4>1 DEF ZeroFile, Goto
      <4> QED
        BY <4>2, Zenon DEF Return, IInv, TypeOK
    <3>4. CASE InitGuards(p)
      <4>1. len[p] = CreateLen(d) /\ fsize[i] = CreateLen(d) /\ counts[i] = d
        BY <3>1, <3>4, Zenon DEF Stage, InitGuards
      <4>2. Beyond(i, len[p], DataGuardEnd(counts[i])) = {}
        BY <3>2, <4>1, WithinReach, Zenon
      <4>3. pc' = [pc EXCEPT ![p] = "magic"]
        BY <3>4, <4>2, Zenon DEF InitGuards, Goto
      <4> QED
        BY <4>3, Zenon DEF Return, IInv, TypeOK
    <3> QED
      BY <1>7, <3>3, <3>4, Zenon
  <2> QED
    BY <1>2, <1>3, <2>1, <2>2
<1>8. CASE ShmOpen(p) \/ OpenMagic(p)
  <2>1. pc[p] # "idle" /\ \A q \in Procs \ {p} : inode'[q] = inode[q]
    BY <1>1, <1>8, Zenon DEF ShmOpen, OpenMagic
  <2>2. \/ \E l : Goto(p, l)
        \/ \E r \in {"ACH_ENOENT", "ACH_EACCES"} : Return(p, r)
        \/ Return(p, "fault") /\ pc[p] = "omagic" /\ fsize[inode[p]] = 0
        \/ Return(p, "ACH_BAD_SHM_FILE") /\ pc[p] = "omagic" /\ ~ magic[inode[p]]
    BY <1>8, Zenon DEF ShmOpen, OpenMagic
  <2> QED
    BY <1>2, <1>3, <2>1, <2>2
<1>9. CASE OpenGuards(p) \/ Use(p) \/ Dump(p) \/ Close(p)
  <2>1. pc[p] \in Opening \ {"ocounts"} /\ pc[p] # "idle" /\ inode' = inode
    BY <1>9, Zenon DEF OpenGuards, Use, Dump, Close, Opening
  <2>2. \/ \E l : Goto(p, l)
        \/ \E r \in check_guards(inode[p], len[p]) : Return(p, r)
        \/ /\ Return(p, "fault")
           /\ \/ counts[inode[p]].cnt = 0
              \/ "fault" \in Beyond(inode[p], len[p], DataGuardEnd(counts[inode[p]]))
    BY <1>9, Zenon DEF OpenGuards, Use, Dump, Close
  <2>3. ASSUME inode[p] \notin clobbered
        PROVE  (\E l : Goto(p, l)) \/ Return(p, "ACH_OK")
    BY <2>1, <2>2, <2>3, GuardsFound, Zenon
  <2>4. \A r \in check_guards(inode[p], len[p]) : r # "ACH_BAD_SHM_FILE"
    BY Zenon DEF check_guards, Beyond
  <2> QED
    BY <1>2, <1>3, <2>1, <2>2, <2>3, <2>4
<1> QED
  BY <1>4, <1>5, <1>6, <1>7, <1>8, <1>9, Zenon DEF Step, Create, Open

\* For every page size for which the guard words are mapped, whatever creations,
\* openings, removals and failures interleave: no call returns ACH_CORRUPT for a
\* file nobody opened with -t.
THEOREM CorruptIsClobbered == ASSUME GuardsMapped PROVE Spec => []CorruptOnlyIfClobbered
<1>1. Init => CorruptOnlyIfClobbered
  BY Zenon DEF Init, CorruptOnlyIfClobbered
<1>2. IInv /\ CorruptOnlyIfClobbered /\ [Next]_vars => CorruptOnlyIfClobbered'
  <2> SUFFICES ASSUME IInv, CorruptOnlyIfClobbered, [Next]_vars PROVE CorruptOnlyIfClobbered'
    BY Zenon
  <2>1. CASE UNCHANGED vars
    BY <2>1, Zenon DEF vars, history, CorruptOnlyIfClobbered
  <2>2. ASSUME NEW p \in Procs, Step(p) PROVE CorruptOnlyIfClobbered'
    <3>1. clobbered \subseteq clobbered'
      BY <2>2, Zenon DEF Step, Start, Create, ShmCreateNew, ShmCreateExists, SizeFile, ZeroFile, InitSync,
        InitCounts, InitGuards, InitMagic, CreateDone, CreateFails, Open, ShmOpen, OpenMagic, OpenCounts,
        OpenGuards, OpenFails, Use, Dump, Finish, Chmod, Close, Unlink, history
    <3>2. ret'[p] = "ACH_CORRUPT" => inode'[p] = inode[p] /\ inode[p] \in clobbered
      BY <2>2, StepResults, Zenon
    <3>3. \A q \in Procs \ {p} : ret'[q] = ret[q] /\ inode'[q] = inode[q]
      BY <2>2, StepResults, Zenon
    <3> QED
      BY <3>1, <3>2, <3>3, Zenon DEF CorruptOnlyIfClobbered
  <2> QED
    BY <2>1, <2>2, Zenon DEF Next, Step
<1> QED
  BY <1>1, <1>2, InitIInv, NextIInv, PTL DEF Spec

\* A file that ach_create() has returned ACH_OK for is never refused as a bad
\* file afterwards, and nobody dies of touching it, unless somebody opened it
\* with -t.
THEOREM MadeFileServes == ASSUME GuardsMapped PROVE Spec => MadeServes
<1> DEFINE Serves == \A p \in Procs :
       ret'[p] # ret[p] /\ ret'[p] \in {"ACH_BAD_SHM_FILE", "fault"} =>
         inode[p] \notin made \/ inode[p] \in clobbered
<1>1. IInv /\ [Next]_vars => [Serves]_vars
  <2> SUFFICES ASSUME IInv, NEW q \in Procs, Step(q), NEW p \in Procs,
                      ret'[p] # ret[p], ret'[p] \in {"ACH_BAD_SHM_FILE", "fault"},
                      inode[p] \in made, inode[p] \notin clobbered
               PROVE  FALSE
    BY Zenon DEF Next, Step
  <2>1. p = q
    BY StepResults, Zenon
  <2>2. magic[inode[p]] /\ Complete(inode[p]) /\ counts[inode[p]] \in MadeDims
    BY Zenon DEF IInv, TypeOK, MagicLast
  <2>3. fsize[inode[p]] # 0
    BY <2>2, MadeDimsAreDims, GuardEnds, Zenon DEF Complete
  <2> QED
    BY <2>1, <2>2, <2>3, StepResults, Zenon
<1> QED
  BY <1>1, InitIInv, NextIInv, PTL DEF Spec, MadeServes

\* A process dies of touching a file only after somebody opened the file with -t,
\* or by opening it before ach_create() has given it a length.
THEOREM FaultIsExplained == ASSUME GuardsMapped PROVE Spec => FaultExplained
<1> DEFINE Explained == \A p \in Procs :
       ret'[p] = "fault" /\ ret[p] # "fault" =>
         inode[p] \in clobbered \/ (pc[p] = "omagic" /\ fsize[inode[p]] = 0)
<1>1. IInv /\ [Next]_vars => [Explained]_vars
  <2> SUFFICES ASSUME IInv, NEW q \in Procs, Step(q), NEW p \in Procs,
                      ret'[p] = "fault", ret[p] # "fault"
               PROVE  inode[p] \in clobbered \/ (pc[p] = "omagic" /\ fsize[inode[p]] = 0)
    BY Zenon DEF Next, Step
  <2>1. p = q
    BY StepResults, Zenon
  <2> QED
    BY <2>1, StepResults, Zenon
<1> QED
  BY <1>1, InitIInv, NextIInv, PTL DEF Spec, FaultExplained

=============================================================================
