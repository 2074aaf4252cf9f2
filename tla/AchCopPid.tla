----------------------------- MODULE AchCopPid -----------------------------
(***************************************************************************)
(* The pid files of achcop: several achcop commands that may be given the  *)
(* same files, from main() to the children of run().  AchCop has the       *)
(* signals of one of them.                                                 *)
(*                                                                         *)
(* A lock of lockf() belongs to a process: fork() does not pass it on, and *)
(* it goes when the process ends.  Process ids are not used again.         *)
(***************************************************************************)
EXTENDS Integers

CONSTANTS
  Cops,      \* the achcop commands
  Files,     \* the files
  NoFile,    \* stands for an option that is not given
  Commands,  \* command lines: -P file, -p file, -d
  MaxPid     \* bound on the processes

ASSUME FileAssumption == NoFile \notin Files
ASSUME CommandAssumption ==
  Commands \subseteq [P : Files \cup {NoFile}, p : Files \cup {NoFile}, d : BOOLEAN]
ASSUME MaxPidAssumption == MaxPid \in Nat

VARIABLES
  opt,       \* the command line of each
  pc,        \* where its process is
  pid,       \* the process id of that
  pid_child, \* the child it started last, 0 before
  lock,      \* the process that has each file locked, 0 if none
  content,   \* the process id in each file, 0 if it is empty
  children,  \* the living children: process id and pid file
  orphaned,  \* pid files whose supervisor ended before its child
  newest     \* the newest process

vars == <<opt, pc, pid, pid_child, lock, content, children, orphaned, newest>>

Goto(k, l) == pc' = [pc EXCEPT ![k] = l]

\* Whether the child of k lives.
Alive(k) == \E c \in children : c.pid = pid_child[k]

\* The process of k ends and its locks go; a child that lives is left alone.
Ends(k) ==
  /\ Goto(k, "gone")
  /\ lock' = [f \in Files |-> IF lock[f] = pid[k] THEN 0 ELSE lock[f]]
  /\ orphaned' = orphaned \cup (IF Alive(k) THEN {opt[k].p} ELSE {})

\* The user starts k, which opens the files but does not truncate them.
Start(k) ==
  /\ pc[k] = "none" /\ newest < MaxPid
  /\ \E o \in Commands : opt' = [opt EXCEPT ![k] = o]
  /\ newest' = newest + 1 /\ pid' = [pid EXCEPT ![k] = newest + 1]
  /\ Goto(k, "detach")
  /\ UNCHANGED <<pid_child, lock, content, children, orphaned>>

\* With -d ach_detach() goes on in a grandchild.
ach_detach(k) ==
  /\ pc[k] = "detach"
  /\ IF opt[k].d
     THEN newest < MaxPid /\ newest' = newest + 1 /\ pid' = [pid EXCEPT ![k] = newest + 1]
     ELSE UNCHANGED <<newest, pid>>
  /\ Goto(k, "lock P")
  /\ UNCHANGED <<opt, pid_child, lock, content, children, orphaned>>

\* The mistake of locking before the fork: the process that goes on has no lock.
lock_pid_early(k, f, next) ==
  IF f = NoFile \/ opt[k].d
  THEN Goto(k, next) /\ UNCHANGED <<lock, orphaned>>
  ELSE \/ lock[f] \in {0, pid[k]} /\ Goto(k, next) /\ lock' = [lock EXCEPT ![f] = pid[k]]
          /\ UNCHANGED orphaned
       \/ lock[f] \notin {0, pid[k]} /\ Ends(k)

\* lockf(F_TLOCK): a process whose file another has locked dies.
lock_pid(k, f, next) ==
  IF f = NoFile
  THEN Goto(k, next) /\ UNCHANGED <<lock, orphaned>>
  ELSE \/ lock[f] \in {0, pid[k]} /\ Goto(k, next) /\ lock' = [lock EXCEPT ![f] = pid[k]]
          /\ UNCHANGED orphaned
       \/ lock[f] \notin {0, pid[k]} /\ Ends(k)

\* First the file of -P, then that of -p.
Lock(k) ==
  /\ \/ pc[k] = "lock P" /\ lock_pid(k, opt[k].P, "lock p")
     \/ pc[k] = "lock p" /\ lock_pid(k, opt[k].p, "truncate P")
  /\ UNCHANGED <<opt, pid, pid_child, content, children, newest>>

\* write_pid(): the file is emptied, then the pid is written; if that fails, the
\* error is logged and the file stays empty.
Truncate(k, f, next) ==
  /\ content' = IF f = NoFile THEN content ELSE [content EXCEPT ![f] = 0]
  /\ Goto(k, next)

Write(k, f, n, next) ==
  /\ \/ content' = IF f = NoFile THEN content ELSE [content EXCEPT ![f] = n]
     \/ UNCHANGED content
  /\ Goto(k, next)

\* The mistake of writing the child's pid the first time only.
write_pid_once(k) ==
  /\ \/ pc[k] = "truncate P" /\ Truncate(k, opt[k].P, "write P")
     \/ pc[k] = "write P" /\ Write(k, opt[k].P, pid[k], "start")
     \/ pc[k] = "truncate p" /\ UNCHANGED content /\ Goto(k, "write p")
     \/ pc[k] = "write p" /\ Goto(k, "run")
        /\ IF opt[k].p # NoFile /\ content[opt[k].p] = 0
           THEN content' = [content EXCEPT ![opt[k].p] = pid_child[k]]
           ELSE UNCHANGED content
  /\ UNCHANGED <<opt, pid, pid_child, lock, children, orphaned, newest>>

\* The pid of achcop once, that of each child.
write_pid(k) ==
  /\ \/ pc[k] = "truncate P" /\ Truncate(k, opt[k].P, "write P")
     \/ pc[k] = "write P" /\ Write(k, opt[k].P, pid[k], "start")
     \/ pc[k] = "truncate p" /\ Truncate(k, opt[k].p, "write p")
     \/ pc[k] = "write p" /\ Write(k, opt[k].p, pid_child[k], "run")
  /\ UNCHANGED <<opt, pid, pid_child, lock, children, orphaned, newest>>

\* ftruncate() fails and the process dies, the second time beside its child.
write_pid_dies(k) ==
  /\ pc[k] \in {"truncate P", "truncate p"}
  /\ Ends(k)
  /\ UNCHANGED <<opt, pid, pid_child, content, children, newest>>

\* start_child(): fork, and then the pid is recorded.
start_child(k) ==
  /\ pc[k] = "start" /\ newest < MaxPid
  /\ newest' = newest + 1 /\ pid_child' = [pid_child EXCEPT ![k] = newest + 1]
  /\ children' = children \cup {[pid |-> newest + 1, file |-> opt[k].p]}
  /\ Goto(k, "truncate p")
  /\ UNCHANGED <<opt, pid, lock, content, orphaned>>

\* A child ends.
ChildEnds(c) ==
  /\ children' = children \ {c}
  /\ UNCHANGED <<opt, pc, pid, pid_child, lock, content, orphaned, newest>>

\* The mistake of starting a child when the last one still runs.
Restart_early(k) ==
  /\ pc[k] = "run"
  /\ Goto(k, "start")
  /\ UNCHANGED <<opt, pid, pid_child, lock, content, children, orphaned, newest>>

\* run() has reaped the child and starts another, or returns.
Restart(k) ==
  /\ pc[k] = "run" /\ ~ Alive(k)
  /\ Goto(k, "start")
  /\ UNCHANGED <<opt, pid, pid_child, lock, content, children, orphaned, newest>>

Return(k) ==
  /\ pc[k] = "run" /\ ~ Alive(k)
  /\ Ends(k)
  /\ UNCHANGED <<opt, pid, pid_child, content, children, newest>>

\* The process is killed, or dies as its child was stopped.
Killed(k) ==
  /\ pc[k] \notin {"none", "gone"}
  /\ Ends(k)
  /\ UNCHANGED <<opt, pid, pid_child, content, children, newest>>

Init ==
  /\ opt = [k \in Cops |-> [P |-> NoFile, p |-> NoFile, d |-> FALSE]]
  /\ pc = [k \in Cops |-> "none"]
  /\ pid = [k \in Cops |-> 0]
  /\ pid_child = [k \in Cops |-> 0]
  /\ lock = [f \in Files |-> 0]
  /\ content = [f \in Files |-> 0]
  /\ children = {}
  /\ orphaned = {}
  /\ newest = 0

Cop(k) ==
  \/ Start(k) \/ ach_detach(k) \/ Lock(k) \/ write_pid(k) \/ write_pid_dies(k)
  \/ start_child(k) \/ Restart(k) \/ Return(k) \/ Killed(k)

Next == (\E k \in Cops : Cop(k)) \/ (\E c \in children : ChildEnds(c))

Spec == Init /\ [][Next]_vars

-----------------------------------------------------------------------------
(***************************************************************************)
(* Properties.                                                             *)
(***************************************************************************)
Labels == {"none", "detach", "lock P", "lock p", "truncate P", "write P", "start",
           "truncate p", "write p", "run", "gone"}

\* The processes that have passed main()'s locks.
Supervising == {k \in Cops : pc[k] \in {"truncate P", "write P", "start", "truncate p",
                                        "write p", "run"}}
FilesOf(k) == {opt[k].P, opt[k].p} \ {NoFile}

\* No file serves two supervisors at once, whether as -P or as -p, detached or
\* not, and however their starts and ends interleave.
OneSupervisor ==
  \A j, k \in Supervising : j # k => FilesOf(j) \cap FilesOf(k) = {}

\* While a supervisor waits in run(), the file of -p names the child it started
\* last and the file of -P names itself, whatever was in them before and whoever
\* tried to start meanwhile; if it could not be written, the file is empty.
FilesName ==
  \A k \in Cops : pc[k] = "run" =>
    /\ opt[k].p # NoFile => content[opt[k].p] \in {0, pid_child[k]}
    /\ opt[k].P \notin {NoFile, opt[k].p} => content[opt[k].P] \in {0, pid[k]}

\* A child pid file never has two living children, unless a supervisor of it
\* ended before its child, which the code does not prevent.
OneChild ==
  \A c, d \in children : c.file = d.file /\ c # d => c.file \in orphaned \cup {NoFile}

\* Only the holder of a file's lock changes it: an achcop that is refused leaves
\* the pid of the running one in place.
HolderWrites ==
  [][\A f \in Files : content'[f] # content[f] =>
       \E k \in Cops : lock[f] = pid[k] /\ pc'[k] # pc[k]]_vars

=============================================================================
