------------------------------- MODULE AchLife -------------------------------
(***************************************************************************)
(* The life of the file behind one channel name: ach_create(), ach_open(), *)
(* ach_close(), ach_chmod() and ach_unlink(), called by clients and by the *)
(* commands of the ach tool.                                               *)
(*                                                                         *)
(* Nothing locks the file, so the steps of every call interleave: each     *)
(* action below is one system call or one write or read of the mapping     *)
(* that another process can see.  A file is an inode; the name refers to   *)
(* one inode at a time, and a process goes on using the inode it opened    *)
(* after the name is removed.  Reading past the end of a mapping or of the *)
(* file kills the process with SIGBUS or SIGSEGV: status "fault".  A       *)
(* process killed from outside is one that takes no further step, which    *)
(* Spec always allows; the file stays as it left it.                       *)
(*                                                                         *)
(* Channels on the heap (map_anon) have no file and are left out.          *)
(***************************************************************************)
EXTENDS Integers, FiniteSets

CONSTANTS
  Procs,      \* the processes
  Inodes,     \* the files that can come to exist
  Programs,   \* what a process may run: see Program
  MaxRuns,    \* bound on the number of programs run
  HeaderSize, \* sizeof(ach_header_t)
  IndexSize,  \* sizeof(ach_index_t)
  PageSize,   \* granularity of mappings
  NoInode     \* no file has the name

\* Frame count and frame size given to ach_create().
Dims == [cnt : Nat, size : Nat]

\* The commands of the ach tool and a client that opens, uses and closes the
\* channel: truncate, once and mode are the options -t, -1 and -o of "ach mk".
Program ==
  [cmd : {"mk", "rm", "chmod", "dump", "client"}, dims : Dims,
   truncate : BOOLEAN, once : BOOLEAN, chmod : BOOLEAN]

ASSUME ProgramAssumption == Programs \subseteq Program
ASSUME SizeAssumption == {HeaderSize, IndexSize, PageSize, MaxRuns} \subseteq Nat \ {0}
ASSUME InodeAssumption == NoInode \notin Inodes

VARIABLES
  file,      \* the inode the name refers to
  used,      \* the inodes that were created
  fsize,     \* length of each file
  magic,     \* whether its magic number is in place
  counts,    \* the index_cnt and data_size / index_cnt of its header
  guards,    \* the counts its guard words were placed for
  sync,      \* whether its mutex and condition variable are initialised
  mode,      \* whether its permissions let the processes open it
  pc,        \* where each process is
  prog,      \* the program it runs
  inode,     \* the file it works on
  len,       \* the length it mapped
  ret,       \* the status its program ended with
  runs,      \* number of programs started
  made,      \* inodes some ach_create() returned ACH_OK for
  clobbered  \* inodes that ach_create() opened when they already existed

shmfile == <<fsize, magic, counts, guards, sync, mode>>
history == <<made, clobbered>>
vars == <<file, used, shmfile, pc, prog, inode, len, ret, runs, history>>

Zero == [cnt |-> 0, size |-> 0]
Word == 8  \* sizeof(uint64_t)

RoundUp(n) == ((n + PageSize - 1) \div PageSize) * PageSize

\* The length ach_open() computes from the counts of the header.
OpenLen(d) == HeaderSize + d.cnt * IndexSize + d.cnt * d.size

\* The length ach_create() gives the file: room for three guard words too.
CreateLen(d) == HeaderSize + d.cnt * IndexSize + d.cnt * d.size + 3 * Word

\* ACH_SHM_GUARD_INDEX and ACH_SHM_GUARD_DATA: where those words end.
IndexGuardEnd(d) == HeaderSize + Word + d.cnt * IndexSize + Word
DataGuardEnd(d) == HeaderSize + Word + d.cnt * IndexSize + Word + d.cnt * d.size + Word

\* What reading file i up to byte e through a mapping of n bytes leads to: past
\* the last page of the file there is nothing, past the mapping there is nothing
\* or somebody else's memory.
Beyond(i, n, e) ==
  CASE e <= RoundUp(n) /\ e <= RoundUp(fsize[i]) -> {}
    [] e <= RoundUp(n) /\ e > RoundUp(fsize[i]) -> {"fault"}
    [] OTHER -> {"fault", "ACH_CORRUPT"}

-----------------------------------------------------------------------------
\* The statuses check_guards() may give through a mapping of n bytes of file i.
\* The header guard is in its place as soon as any guard was written; the other
\* two are looked for where the counts say, in this order, and the first mismatch
\* ends the check.
check_guards(i, n) ==
  LET index == Beyond(i, n, IndexGuardEnd(counts[i]))
      data == Beyond(i, n, DataGuardEnd(counts[i]))
  IN IF ~ magic[i] \/ guards[i] = Zero THEN {"ACH_CORRUPT"}
     ELSE IF index # {} THEN index
     ELSE IF guards[i].cnt # counts[i].cnt THEN {"ACH_CORRUPT"}
     ELSE IF data # {} THEN data
     ELSE IF guards[i] # counts[i] THEN {"ACH_CORRUPT"}
     ELSE {"ACH_OK"}

\* The program of p ends with status r: check_status() and the return of main().
Return(p, r) ==
  /\ pc' = [pc EXCEPT ![p] = IF r = "fault" THEN "dead" ELSE "idle"]
  /\ ret' = [ret EXCEPT ![p] = r]

Goto(p, l) == pc' = [pc EXCEPT ![p] = l] /\ UNCHANGED ret

\* main(), posarg() and the checks of cmd_create(): what is run first.
Entry(g) ==
  CASE g.cmd = "mk" -> "create"
    [] g.cmd = "rm" -> "unlink"
    [] OTHER -> "open"

Start(p) ==
  /\ pc[p] = "idle" /\ runs < MaxRuns
  /\ runs' = runs + 1
  /\ \E g \in Programs :
       /\ prog' = [prog EXCEPT ![p] = g]
       /\ pc' = [pc EXCEPT ![p] =
            IF g.cmd = "mk" /\ (g.dims.cnt < 1 \/ g.dims.size < 1) THEN "idle" ELSE Entry(g)]
       /\ ret' = [ret EXCEPT ![p] =
            IF g.cmd = "mk" /\ (g.dims.cnt < 1 \/ g.dims.size < 1) THEN "refused" ELSE "none"]
  /\ inode' = [inode EXCEPT ![p] = NoInode]
  /\ len' = [len EXCEPT ![p] = 0]
  /\ UNCHANGED <<file, used, shmfile, history>>

-----------------------------------------------------------------------------
(***************************************************************************)
(* ach_create(), run by "ach mk".                                          *)
(***************************************************************************)
\* What follows ach_create() in cmd_create(): the mode is set by name.
Created(p) == IF prog[p].chmod THEN Goto(p, "open") ELSE Return(p, "ACH_OK")

\* Guard words past the new end of a file are lost: the data guard (size 0) or
\* the index guard too (cnt 0).
Cut(g, n) ==
  CASE g = Zero \/ DataGuardEnd(g) <= n -> g
    [] IndexGuardEnd(g) <= n /\ DataGuardEnd(g) > n -> [g EXCEPT !.size = 0]
    [] OTHER -> [cnt |-> 0, size |-> 1]

\* shm_open() makes the file, all of it or not at all.
ShmCreateNew(p) ==
  /\ pc[p] = "create" /\ file = NoInode
  /\ \E i \in Inodes \ used :
       /\ file' = i
       /\ used' = used \cup {i}
       /\ inode' = [inode EXCEPT ![p] = i]
  /\ Goto(p, "size")
  /\ UNCHANGED <<shmfile, prog, len, runs, history>>

\* The mistake of opening without O_EXCL.
ShmCreateExists_shared(p) ==
  /\ pc[p] = "create" /\ file # NoInode
  /\ inode' = [inode EXCEPT ![p] = file]
  /\ Goto(p, "size")
  /\ UNCHANGED <<file, used, shmfile, prog, len, runs, history>>

\* The name is taken: O_EXCL, unless -t was given, makes shm_open() fail, which
\* "ach mk -1" takes for success.  With -t the existing file is opened as it is.
ShmCreateExists(p) ==
  /\ pc[p] = "create" /\ file # NoInode
  /\ IF ~ prog[p].truncate
     THEN /\ IF prog[p].once THEN Created(p) ELSE Return(p, "ACH_EEXIST")
          /\ UNCHANGED <<inode, clobbered>>
     ELSE IF ~ mode[file]
     THEN Return(p, "ACH_EACCES") /\ UNCHANGED <<inode, clobbered>>
     ELSE /\ inode' = [inode EXCEPT ![p] = file]
          /\ clobbered' = clobbered \cup {file}
          /\ Goto(p, "size")
  /\ UNCHANGED <<file, used, shmfile, prog, len, runs, made>>

\* ftruncate() and mmap().
SizeFile(p) ==
  /\ pc[p] = "size"
  /\ LET i == inode[p]
         n == CreateLen(prog[p].dims)
     IN /\ fsize' = [fsize EXCEPT ![i] = n]
        /\ guards' = [guards EXCEPT ![i] = Cut(guards[i], n)]
        /\ len' = [len EXCEPT ![p] = n]
  /\ Goto(p, "zero")
  /\ UNCHANGED <<file, used, magic, counts, sync, mode, prog, inode, runs, history>>

\* memset() of the whole mapping.
ZeroFile(p) ==
  /\ pc[p] = "zero"
  /\ LET i == inode[p]
     IN IF len[p] > RoundUp(fsize[i])
        THEN Return(p, "fault") /\ UNCHANGED shmfile
        ELSE /\ magic' = [magic EXCEPT ![i] = FALSE]
             /\ counts' = [counts EXCEPT ![i] = Zero]
             /\ guards' = [guards EXCEPT ![i] = Zero]
             /\ sync' = [sync EXCEPT ![i] = FALSE]
             /\ Goto(p, "sync")
             /\ UNCHANGED <<fsize, mode>>
  /\ UNCHANGED <<file, used, prog, inode, len, runs, history>>

\* The attributes, the condition variable and the mutex.
InitSync(p) ==
  /\ pc[p] = "sync"
  /\ sync' = [sync EXCEPT ![inode[p]] = TRUE]
  /\ Goto(p, "counts")
  /\ UNCHANGED <<file, used, fsize, magic, counts, guards, mode, prog, inode, len, runs, history>>

\* The mistake of writing the magic number with the counts, before the guards.
InitCounts_magic(p) ==
  /\ pc[p] = "counts"
  /\ counts' = [counts EXCEPT ![inode[p]] = prog[p].dims]
  /\ magic' = [magic EXCEPT ![inode[p]] = TRUE]
  /\ Goto(p, "guards")
  /\ UNCHANGED <<file, used, fsize, guards, sync, mode, prog, inode, len, runs, history>>

\* The name and the counts, and the assertion about them.
InitCounts(p) ==
  /\ pc[p] = "counts"
  /\ counts' = [counts EXCEPT ![inode[p]] = prog[p].dims]
  /\ Goto(p, "guards")
  /\ UNCHANGED <<file, used, fsize, magic, guards, sync, mode, prog, inode, len, runs, history>>

\* The three guard words go where the counts in the header say, which is past
\* the mapping if another ach_create() wrote larger counts there.
InitGuards(p) ==
  /\ pc[p] = "guards"
  /\ LET i == inode[p]
         beyond == Beyond(i, len[p], DataGuardEnd(counts[i]))
     IN \/ beyond = {} /\ guards' = [guards EXCEPT ![i] = counts[i]] /\ Goto(p, "magic")
        \/ "fault" \in beyond /\ UNCHANGED guards /\ Return(p, "fault")
        \/ /\ "ACH_CORRUPT" \in beyond
           /\ guards' = [guards EXCEPT ![i] = [counts[i] EXCEPT !.size = 0]]
           /\ Goto(p, "magic")
  /\ UNCHANGED <<file, used, fsize, magic, counts, sync, mode, prog, inode, len, runs, history>>

\* The magic number comes last.
InitMagic(p) ==
  /\ pc[p] = "magic"
  /\ magic' = [magic EXCEPT ![inode[p]] = TRUE]
  /\ Goto(p, "unmap")
  /\ UNCHANGED <<file, used, fsize, counts, guards, sync, mode, prog, inode, len, runs, history>>

\* munmap() and close(): ach_create() returns ACH_OK.
CreateDone(p) ==
  /\ pc[p] = "unmap"
  /\ made' = made \cup {inode[p]}
  /\ Created(p)
  /\ UNCHANGED <<file, used, shmfile, prog, inode, len, runs, clobbered>>

\* A system call of ach_create() fails: the file stays as it is, resized if it is
\* mmap() that fails.
CreateFails(p) ==
  /\ pc[p] \in {"size", "zero", "sync", "unmap"}
  /\ Return(p, "ACH_FAILED_SYSCALL")
  /\ UNCHANGED <<file, used, shmfile, prog, inode, len, runs, history>>

-----------------------------------------------------------------------------
(***************************************************************************)
(* ach_open(), run by clients and by the commands that work on a handle.   *)
(***************************************************************************)
\* shm_open() and the first mmap(), of the header alone.
ShmOpen(p) ==
  /\ pc[p] = "open"
  /\ IF file = NoInode THEN Return(p, "ACH_ENOENT") /\ UNCHANGED inode
     ELSE IF ~ mode[file] THEN Return(p, "ACH_EACCES") /\ UNCHANGED inode
     ELSE inode' = [inode EXCEPT ![p] = file] /\ Goto(p, "omagic")
  /\ UNCHANGED <<file, used, shmfile, prog, len, runs, history>>

\* The mistake of trusting any file that is there.
OpenMagic_trusting(p) ==
  /\ pc[p] = "omagic"
  /\ IF fsize[inode[p]] = 0 THEN Return(p, "fault") ELSE Goto(p, "ocounts")
  /\ UNCHANGED <<file, used, shmfile, prog, inode, len, runs, history>>

\* The magic number is read; a file that has no length yet has no page to read.
OpenMagic(p) ==
  /\ pc[p] = "omagic"
  /\ IF fsize[inode[p]] = 0 THEN Return(p, "fault")
     ELSE IF ~ magic[inode[p]] THEN Return(p, "ACH_BAD_SHM_FILE")
     ELSE Goto(p, "ocounts")
  /\ UNCHANGED <<file, used, shmfile, prog, inode, len, runs, history>>

\* A system call of ach_open() or ach_close() fails.
OpenFails(p) ==
  /\ pc[p] \in {"open", "ocounts", "close"}
  /\ Return(p, "ACH_FAILED_SYSCALL")
  /\ UNCHANGED <<file, used, shmfile, prog, inode, len, runs, history>>

\* The counts are read and the file is mapped again with the length they give.
OpenCounts(p) ==
  /\ pc[p] = "ocounts"
  /\ len' = [len EXCEPT ![p] = OpenLen(counts[inode[p]])]
  /\ Goto(p, "oguards")
  /\ UNCHANGED <<file, used, shmfile, prog, inode, runs, history>>

\* check_guards() and the fields of the handle.
OpenGuards(p) ==
  /\ pc[p] = "oguards"
  /\ \E r \in check_guards(inode[p], len[p]) :
       IF r = "ACH_OK" THEN Goto(p, "opened") ELSE Return(p, r)
  /\ UNCHANGED <<file, used, shmfile, prog, inode, len, runs, history>>

\* One operation of a client: ach_put(), ach_get() and ach_flush() start with
\* check_guards() too.
Use(p) ==
  /\ pc[p] = "opened" /\ prog[p].cmd = "client"
  /\ \E r \in check_guards(inode[p], len[p]) :
       IF r = "ACH_OK" THEN Goto(p, "opened") ELSE Return(p, r)
  /\ UNCHANGED <<file, used, shmfile, prog, inode, len, runs, history>>

\* cmd_dump(): ach_dump() reads every guard word without checking any and takes
\* a remainder by index_cnt.
Dump(p) ==
  /\ pc[p] = "opened" /\ prog[p].cmd = "dump"
  /\ LET d == counts[inode[p]]
         beyond == Beyond(inode[p], len[p], DataGuardEnd(d))
     IN \/ (d.cnt = 0 \/ "fault" \in beyond) /\ Return(p, "fault")
        \/ (d.cnt # 0 /\ beyond # {"fault"}) /\ Goto(p, "close")
  /\ UNCHANGED <<file, used, shmfile, prog, inode, len, runs, history>>

\* A client has done with its handle.
Finish(p) ==
  /\ pc[p] = "opened" /\ prog[p].cmd = "client"
  /\ Goto(p, "close")
  /\ UNCHANGED <<file, used, shmfile, prog, inode, len, runs, history>>

\* ach_chmod(): fchmod() of the file of the handle, which may fail.
Chmod(p) ==
  /\ pc[p] = "opened" /\ prog[p].cmd \in {"chmod", "mk"}
  /\ \/ /\ \E m \in BOOLEAN : mode' = [mode EXCEPT ![inode[p]] = m]
        /\ Goto(p, "close")
     \/ Return(p, "ACH_FAILED_SYSCALL") /\ UNCHANGED mode
  /\ UNCHANGED <<file, used, fsize, magic, counts, guards, sync, prog, inode, len, runs, history>>

\* ach_close(): a channel whose guards are damaged is not closed.
Close(p) ==
  /\ pc[p] = "close"
  /\ \E r \in check_guards(inode[p], len[p]) : Return(p, r)
  /\ UNCHANGED <<file, used, shmfile, prog, inode, len, runs, history>>

-----------------------------------------------------------------------------
\* ach_unlink(), run by "ach rm".
Unlink(p) ==
  /\ pc[p] = "unlink"
  /\ IF file = NoInode
     THEN Return(p, "ACH_ENOENT") /\ UNCHANGED file
     ELSE /\ file' = NoInode
          /\ Return(p, "ACH_OK")
  /\ UNCHANGED <<used, shmfile, prog, inode, len, runs, made, clobbered>>

-----------------------------------------------------------------------------
Init ==
  /\ file = NoInode /\ used = {}
  /\ fsize = [i \in Inodes |-> 0]
  /\ magic = [i \in Inodes |-> FALSE]
  /\ counts = [i \in Inodes |-> Zero]
  /\ guards = [i \in Inodes |-> Zero]
  /\ sync = [i \in Inodes |-> FALSE]
  /\ mode = [i \in Inodes |-> TRUE]
  /\ pc = [p \in Procs |-> "idle"]
  /\ prog = [p \in Procs |-> CHOOSE g \in Programs : TRUE]
  /\ inode = [p \in Procs |-> NoInode]
  /\ len = [p \in Procs |-> 0]
  /\ ret = [p \in Procs |-> "none"]
  /\ runs = 0
  /\ made = {} /\ clobbered = {}

Create(p) ==
  \/ ShmCreateNew(p) \/ ShmCreateExists(p) \/ SizeFile(p) \/ ZeroFile(p) \/ InitSync(p)
  \/ InitCounts(p) \/ InitGuards(p) \/ InitMagic(p) \/ CreateDone(p) \/ CreateFails(p)

Open(p) == ShmOpen(p) \/ OpenMagic(p) \/ OpenCounts(p) \/ OpenGuards(p) \/ OpenFails(p)

Next ==
  \E p \in Procs :
    Start(p) \/ Create(p) \/ Open(p) \/ Use(p) \/ Dump(p) \/ Finish(p) \/ Chmod(p) \/ Close(p) \/ Unlink(p)

Spec == Init /\ [][Next]_vars

-----------------------------------------------------------------------------
Opened == {"opened", "close"}

\* A file as ach_create() leaves it.
Complete(i) ==
  /\ magic[i] /\ sync[i]
  /\ counts[i] # Zero /\ guards[i] = counts[i]
  /\ fsize[i] = CreateLen(counts[i])

\* Whoever holds a handle holds one to a channel that is completely made, with
\* its mutex initialised, and has mapped it with the length of its counts: the
\* magic number is the last thing ach_create() writes and the first thing
\* ach_open() reads.  Files opened again with -t are the exception.
OpenedComplete ==
  \A p \in Procs :
    pc[p] \in Opened /\ inode[p] \notin clobbered =>
      Complete(inode[p]) /\ len[p] = OpenLen(counts[inode[p]])

\* No call finds a channel corrupt, whatever it races with, unless -t re-made
\* the file under it.
CorruptOnlyIfClobbered ==
  \A p \in Procs : ret[p] = "ACH_CORRUPT" => inode[p] \in clobbered

\* Once ach_create() has returned ACH_OK no call on that file is refused as a bad
\* file, and none dies of touching it, even after the name was removed.
MadeServes ==
  [][\A p \in Procs :
       ret'[p] # ret[p] /\ ret'[p] \in {"ACH_BAD_SHM_FILE", "fault"} =>
         inode[p] \notin made \/ inode[p] \in clobbered]_vars

\* A process dies of touching a file only when -t re-made the file, or when it
\* opened the file before ach_create() gave it a length.
FaultExplained ==
  [][\A p \in Procs :
       ret'[p] = "fault" /\ ret[p] # "fault" =>
         inode[p] \in clobbered \/ (pc[p] = "omagic" /\ fsize[inode[p]] = 0)]_vars

\* ACH_CORRUPT is returned only of a channel whose memory is damaged: a complete
\* channel is never called corrupt.
CorruptIsDamaged ==
  \A p \in Procs : ret[p] = "ACH_CORRUPT" => ~ Complete(inode[p])
=============================================================================
