-------------------------- MODULE AchCopPidProofs --------------------------
(***************************************************************************)
(* Proofs about the pid files of achcop, for any number of commands, files *)
(* and processes.                                                          *)
(*                                                                         *)
(* That no file serves two supervisors follows from who holds its lock.    *)
(* That is only known together with the process ids: locks are compared by *)
(* them, ach_detach() changes them, and an end releases every lock of one. *)
(***************************************************************************)
EXTENDS AchCopPid, TLAPS

Option == [P : Files \cup {NoFile}, p : Files \cup {NoFile}, d : BOOLEAN]

Typed ==
  /\ opt \in [Cops -> Option]
  /\ pc \in [Cops -> Labels]
  /\ pid \in [Cops -> Nat] /\ pid_child \in [Cops -> Nat] /\ newest \in Nat
  /\ lock \in [Files -> Nat] /\ content \in [Files -> Nat]

\* Processes have different ids, none newer than the newest.
Pids ==
  \A k \in Cops :
    /\ pid[k] <= newest
    /\ pc[k] # "none" => pid[k] # 0
    /\ \A j \in Cops : j # k /\ pc[j] # "none" /\ pc[k] # "none" => pid[j] # pid[k]

\* Whoever is past a lock_pid() has the lock.
Held ==
  \A k \in Cops :
    /\ (pc[k] = "lock p" \/ k \in Supervising) /\ opt[k].P # NoFile => lock[opt[k].P] = pid[k]
    /\ k \in Supervising /\ opt[k].p # NoFile => lock[opt[k].p] = pid[k]

\* What the files of a supervisor hold from its first write on.
Written ==
  \A k \in Cops :
    /\ pc[k] = "write P" /\ opt[k].P # NoFile => content[opt[k].P] = 0
    /\ pc[k] \in {"start", "truncate p", "write p", "run"}
         /\ opt[k].P \notin {NoFile, opt[k].p} => content[opt[k].P] \in {0, pid[k]}
    /\ pc[k] = "write p" /\ opt[k].p # NoFile => content[opt[k].p] = 0
    /\ pc[k] = "run" /\ opt[k].p # NoFile => content[opt[k].p] \in {0, pid_child[k]}

IInv == Typed /\ Pids /\ Held /\ Written

-----------------------------------------------------------------------------
\* A supervisor that shares a file with another is that other: both hold the lock.
LEMMA HeldAlone ==
  ASSUME Typed, Pids, Held
  PROVE  OneSupervisor
<1> SUFFICES ASSUME NEW j \in Supervising, NEW k \in Supervising, j # k,
                    NEW f \in FilesOf(j) \cap FilesOf(k)
             PROVE  FALSE
  BY DEF OneSupervisor
<1>1. j \in Cops /\ k \in Cops /\ pc[j] # "none" /\ pc[k] # "none"
  BY Zenon DEF Supervising
<1>2. lock[f] = pid[j] /\ lock[f] = pid[k]
  BY <1>1, Zenon DEF FilesOf, Held
<1> QED
  BY <1>1, <1>2, Zenon DEF Pids

\* The initial state: nobody has been started.
LEMMA InitIInv == Init => IInv
BY FileAssumption DEF Init, IInv, Typed, Pids, Held, Written, Supervising, Option, Labels

\* The end of a process, by whatever action: its locks go, no other's.
LEMMA EndsIInv ==
  ASSUME IInv, NEW k \in Cops, Ends(k), pc[k] # "none",
         UNCHANGED <<opt, pid, pid_child, content, newest>>
  PROVE  IInv'
<1>1. Typed'
  BY Zenon DEF IInv, Typed, Ends, Goto, Labels
<1>2. Pids'
  BY DEF IInv, Typed, Pids, Ends, Goto
<1>3. \A j \in Cops : pc'[j] = IF j = k THEN "gone" ELSE pc[j]
  BY DEF IInv, Typed, Ends, Goto
<1>4. ASSUME NEW j \in Cops, j # k, NEW f \in Files, lock[f] = pid[j], pc[j] # "none"
      PROVE  lock'[f] = pid'[j]
  BY <1>4 DEF IInv, Typed, Pids, Ends
<1>5. Held'
  <2> SUFFICES ASSUME NEW j \in Cops
               PROVE  /\ ((pc[j] = "lock p" \/ j \in Supervising) /\ opt[j].P # NoFile => lock[opt[j].P] = pid[j])'
                      /\ (j \in Supervising /\ opt[j].p # NoFile => lock[opt[j].p] = pid[j])'
    BY Zenon DEF Held
  <2>1. CASE j = k
    BY <2>1, <1>3, Zenon DEF Supervising
  <2>2. CASE j # k
    <3>1. opt[j].P \in Files \cup {NoFile} /\ opt[j].p \in Files \cup {NoFile}
      BY DEF IInv, Typed, Option
    <3>2. pc'[j] = pc[j] /\ opt' = opt
      BY <2>2, <1>3
    <3>3. (j \in Supervising)' <=> j \in Supervising
      BY <3>2, Zenon DEF Supervising
    <3>4. pc[j] = "lock p" \/ j \in Supervising => pc[j] # "none"
      BY Zenon DEF Supervising
    <3>5. (pc[j] = "lock p" \/ j \in Supervising) /\ opt[j].P # NoFile => lock'[opt[j].P] = pid'[j]
      BY <2>2, <3>1, <3>4, <1>4, Zenon DEF IInv, Held
    <3>6. j \in Supervising /\ opt[j].p # NoFile => lock'[opt[j].p] = pid'[j]
      BY <2>2, <3>1, <3>4, <1>4, Zenon DEF IInv, Held
    <3> QED
      BY <3>2, <3>3, <3>5, <3>6, Zenon
  <2> QED
    BY <2>1, <2>2, Zenon
<1>6. Written'
  BY <1>3, Zenon DEF IInv, Written
<1> QED
  BY <1>1, <1>2, <1>5, <1>6 DEF IInv

\* A lock that is taken was free or the process's own: nobody loses one.
LEMMA LockIInv ==
  ASSUME IInv, NEW k \in Cops, Lock(k)
  PROVE  IInv'
<1>0. opt[k] \in Option /\ pid[k] \in Nat
  BY DEF IInv, Typed
<1>1. ASSUME NEW f \in Files \cup {NoFile}, NEW l \in {"lock p", "truncate P"},
             lock_pid(k, f, l), ~ Ends(k)
      PROVE  /\ pc' = [pc EXCEPT ![k] = l]
             /\ lock' \in [Files -> Nat]
             /\ f # NoFile => lock'[f] = pid[k]
             /\ \A g \in Files : lock'[g] = lock[g] \/ (lock'[g] = pid[k] /\ lock[g] \in {0, pid[k]})
  <2>1. CASE f = NoFile
    BY <1>1, <2>1, Zenon DEF lock_pid, Goto, IInv, Typed
  <2>2. CASE f \in Files
    <3>1. /\ pc' = [pc EXCEPT ![k] = l]
          /\ lock[f] \in {0, pid[k]} /\ lock' = [lock EXCEPT ![f] = pid[k]]
      BY <1>1, <2>2, FileAssumption, Zenon DEF lock_pid, Goto
    <3>2. lock \in [Files -> Nat]
      BY Zenon DEF IInv, Typed
    <3> QED
      BY <1>0, <2>2, <3>1, <3>2, Zenon
  <2> QED
    BY <2>1, <2>2, Zenon
<1>2. pc[k] \in {"lock P", "lock p"} /\ UNCHANGED <<opt, pid, pid_child, content, newest>>
  BY Zenon DEF Lock
<1>3. CASE Ends(k)
  BY <1>2, <1>3, EndsIInv, Zenon
<1>4. CASE ~ Ends(k)
  <2>1. PICK f \in Files \cup {NoFile}, l \in {"lock p", "truncate P"} :
             /\ lock_pid(k, f, l)
             /\ \/ pc[k] = "lock P" /\ f = opt[k].P /\ l = "lock p"
                \/ pc[k] = "lock p" /\ f = opt[k].p /\ l = "truncate P"
    BY <1>0, Zenon DEF Lock, Option
  <2>2. /\ pc' = [pc EXCEPT ![k] = l]
        /\ lock' \in [Files -> Nat]
        /\ f # NoFile => lock'[f] = pid[k]
        /\ \A g \in Files : lock'[g] = lock[g] \/ (lock'[g] = pid[k] /\ lock[g] \in {0, pid[k]})
    BY <2>1, <1>1, <1>4, Zenon
  <2>3. Typed'
    BY <1>2, <2>2, Zenon DEF IInv, Typed, Labels
  <2>4. Pids'
    BY <1>2, <2>2, Zenon DEF IInv, Typed, Pids
  <2>5. Held'
    <3> SUFFICES ASSUME NEW j \in Cops
                 PROVE  /\ ((pc[j] = "lock p" \/ j \in Supervising) /\ opt[j].P # NoFile => lock[opt[j].P] = pid[j])'
                        /\ (j \in Supervising /\ opt[j].p # NoFile => lock[opt[j].p] = pid[j])'
      BY Zenon DEF Held
    <3>1. opt[j].P \in Files \cup {NoFile} /\ opt[j].p \in Files \cup {NoFile}
      BY Zenon DEF IInv, Typed, Option
    <3>2. ASSUME NEW g \in Files, lock[g] = pid[j], pc[j] # "none"
          PROVE  lock'[g] = pid'[j]
      BY <3>2, <1>2, <2>2, Zenon DEF IInv, Pids
    <3>3. CASE j # k
      <4>1. pc'[j] = pc[j]
        BY <3>3, <2>2, Zenon DEF IInv, Typed
      <4> QED
        BY <4>1, <3>1, <3>2, <1>2, Zenon DEF IInv, Held, Supervising
    <3>4. CASE j = k
      <4>1. pc'[k] = l
        BY <2>2, Zenon DEF IInv, Typed
      <4>2. CASE l = "lock p"
        BY <4>1, <4>2, <3>4, <2>1, <2>2, <1>2, Zenon DEF Supervising
      <4>3. CASE l = "truncate P"
        BY <4>1, <4>3, <3>1, <3>2, <3>4, <2>1, <2>2, <1>2, Zenon DEF IInv, Held, Supervising
      <4> QED
        BY <4>2, <4>3, Zenon
    <3> QED
      BY <3>3, <3>4, Zenon
  <2>6. Written'
    BY <1>2, <2>2, Zenon DEF IInv, Typed, Written
  <2> QED
    BY <2>3, <2>4, <2>5, <2>6, Zenon DEF IInv
<1> QED
  BY <1>3, <1>4

\* A supervisor changes its own files alone, which no other supervisor has.
LEMMA WriteIInv ==
  ASSUME IInv, NEW k \in Cops, write_pid(k)
  PROVE  IInv'
<1>0. OneSupervisor
  BY HeldAlone DEF IInv
<1>1. /\ k \in Supervising /\ pid[k] \in Nat /\ pid_child[k] \in Nat
      /\ opt[k].P \in Files \cup {NoFile} /\ opt[k].p \in Files \cup {NoFile}
  BY Zenon DEF write_pid, IInv, Typed, Supervising, Option
<1>2. UNCHANGED <<opt, pid, pid_child, lock, newest>>
  BY Zenon DEF write_pid
<1>3. PICK l \in {"write P", "start", "write p", "run"} : pc' = [pc EXCEPT ![k] = l]
  BY Zenon DEF write_pid, Truncate, Write, Goto
<1>4. content' \in [Files -> Nat]
  <2>1. content \in [Files -> Nat]
    BY Zenon DEF IInv, Typed
  <2>2. PICK f \in Files \cup {NoFile}, n \in Nat :
               content' = content \/ (f # NoFile /\ content' = [content EXCEPT ![f] = n])
    BY <1>1, Zenon DEF write_pid, Truncate, Write
  <2> QED
    BY <2>1, <2>2, Zenon
<1>5. \A f \in Files : f \notin FilesOf(k) => content'[f] = content[f]
  BY <1>1, Zenon DEF write_pid, Truncate, Write, IInv, Typed, FilesOf
<1>6. Typed'
  BY <1>2, <1>3, <1>4, Zenon DEF IInv, Typed, Labels
<1>7. Pids'
  BY <1>2, <1>3, <1>1, Zenon DEF IInv, Typed, Pids, Supervising
<1>8. Held'
  BY <1>1, <1>2, <1>3, Zenon DEF IInv, Typed, Held, Supervising
<1>9. Written'
  <2> SUFFICES ASSUME NEW j \in Cops
               PROVE  /\ (pc[j] = "write P" /\ opt[j].P # NoFile => content[opt[j].P] = 0)'
                      /\ (pc[j] \in {"start", "truncate p", "write p", "run"}
                            /\ opt[j].P \notin {NoFile, opt[j].p} => content[opt[j].P] \in {0, pid[j]})'
                      /\ (pc[j] = "write p" /\ opt[j].p # NoFile => content[opt[j].p] = 0)'
                      /\ (pc[j] = "run" /\ opt[j].p # NoFile => content[opt[j].p] \in {0, pid_child[j]})'
    BY Zenon DEF Written
  <2>1. opt[j].P \in Files \cup {NoFile} /\ opt[j].p \in Files \cup {NoFile}
    BY Zenon DEF IInv, Typed, Option
  <2>2. CASE j # k
    <3>1. pc'[j] = pc[j]
      BY <2>2, <1>3, Zenon DEF IInv, Typed
    <3>2. ASSUME j \in Supervising, NEW f \in FilesOf(j)
          PROVE  content'[f] = content[f]
      BY <3>2, <2>1, <2>2, <1>0, <1>1, <1>5, Zenon DEF OneSupervisor, FilesOf
    <3> QED
      BY <3>1, <3>2, <2>1, <1>2, Zenon DEF IInv, Written, Supervising, FilesOf
  <2>3. CASE j = k
    <3>1. CASE pc[k] = "truncate P"
      BY <3>1, <2>1, <2>3, <1>2, Zenon DEF write_pid, Truncate, Goto, IInv, Typed
    <3>2. CASE pc[k] = "write P"
      <4>1. pc'[k] = "start"
        BY <3>2, Zenon DEF write_pid, Write, Goto, IInv, Typed
      <4>2. \/ content' = content
            \/ opt[k].P # NoFile /\ content' = [content EXCEPT ![opt[k].P] = pid[k]]
        BY <3>2, Zenon DEF write_pid, Write
      <4>3. content \in [Files -> Nat]
        BY Zenon DEF IInv, Typed
      <4> QED
        BY <3>2, <4>1, <4>2, <4>3, <2>1, <2>3, <1>2, Zenon DEF IInv, Written
    <3>3. CASE pc[k] = "truncate p"
      <4>1. pc'[k] = "write p"
        BY <3>3, Zenon DEF write_pid, Truncate, Goto, IInv, Typed
      <4>2. content' = IF opt[k].p = NoFile THEN content ELSE [content EXCEPT ![opt[k].p] = 0]
        BY <3>3, Zenon DEF write_pid, Truncate
      <4>3. content \in [Files -> Nat]
        BY Zenon DEF IInv, Typed
      <4> QED
        BY <3>3, <4>1, <4>2, <4>3, <2>1, <2>3, <1>2, Zenon DEF IInv, Written
    <3>4. CASE pc[k] = "write p"
      <4>1. pc'[k] = "run"
        BY <3>4, Zenon DEF write_pid, Write, Goto, IInv, Typed
      <4>2. \/ content' = content
            \/ opt[k].p # NoFile /\ content' = [content EXCEPT ![opt[k].p] = pid_child[k]]
        BY <3>4, Zenon DEF write_pid, Write
      <4>3. content \in [Files -> Nat]
        BY Zenon DEF IInv, Typed
      <4> QED
        BY <3>4, <4>1, <4>2, <4>3, <2>1, <2>3, <1>2, Zenon DEF IInv, Written
    <3> QED
      BY <3>1, <3>2, <3>3, <3>4, Zenon DEF write_pid
  <2> QED
    BY <2>2, <2>3, Zenon
<1> QED
  BY <1>6, <1>7, <1>8, <1>9, Zenon DEF IInv

\* Every step keeps the invariant.
LEMMA NextIInv == IInv /\ [Next]_vars => IInv'
<1> SUFFICES ASSUME IInv, [Next]_vars
             PROVE  IInv'
  OBVIOUS
<1>1. ASSUME NEW k \in Cops, Start(k)
      PROVE  IInv'
  <2>1. PICK o \in Option : opt' = [opt EXCEPT ![k] = o]
    BY <1>1, CommandAssumption, Zenon DEF Start, Option
  <2>2. Typed'
    <3>1. newest' = newest + 1 /\ pid' = [pid EXCEPT ![k] = newest + 1]
          /\ pc' = [pc EXCEPT ![k] = "detach"] /\ UNCHANGED <<pid_child, lock, content>>
      BY <1>1 DEF Start, Goto
    <3>2. newest \in Nat /\ newest + 1 \in Nat /\ pid \in [Cops -> Nat]
      BY DEF IInv, Typed
    <3>3. newest' \in Nat /\ pid' \in [Cops -> Nat]
      BY <3>1, <3>2
    <3>4. opt' \in [Cops -> Option] /\ pc' \in [Cops -> Labels]
      BY <3>1, <2>1, Zenon DEF IInv, Typed, Labels
    <3> QED
      BY <3>1, <3>3, <3>4 DEF IInv, Typed
  <2>3. Pids'
    BY <1>1 DEF Start, Goto, IInv, Typed, Pids
  <2>4. Held'
    BY <1>1, <2>1, Zenon DEF Start, Goto, IInv, Typed, Held, Supervising
  <2>5. Written'
    BY <1>1, <2>1, Zenon DEF Start, Goto, IInv, Typed, Written
  <2> QED
    BY <2>2, <2>3, <2>4, <2>5 DEF IInv
<1>2. ASSUME NEW k \in Cops, ach_detach(k)
      PROVE  IInv'
  <2>0. /\ \/ newest' = newest /\ pid' = pid
           \/ newest' = newest + 1 /\ pid' = [pid EXCEPT ![k] = newest + 1]
        /\ pc[k] = "detach" /\ pc' = [pc EXCEPT ![k] = "lock P"]
        /\ UNCHANGED <<opt, pid_child, lock, content>>
    BY <1>2, Zenon DEF ach_detach, Goto
  <2>1. Typed'
    <3>1. newest \in Nat /\ newest + 1 \in Nat /\ pid \in [Cops -> Nat]
      BY DEF IInv, Typed
    <3>2. newest' \in Nat /\ pid' \in [Cops -> Nat]
      BY <2>0, <3>1, Zenon
    <3>3. pc' \in [Cops -> Labels]
      BY <2>0, Zenon DEF IInv, Typed, Labels
    <3> QED
      BY <2>0, <3>2, <3>3, Zenon DEF IInv, Typed
  <2>2. Pids'
    <3>1. \A j \in Cops : pid[j] \in Nat /\ pid[j] <= newest /\ newest \in Nat
      BY DEF IInv, Typed, Pids
    <3>2. \A j \in Cops : pid'[j] = pid[j] \/ (j = k /\ pid'[j] = newest + 1 /\ newest' = newest + 1)
      BY <2>0, Zenon DEF IInv, Typed
    <3>3. ASSUME NEW j \in Cops
          PROVE  pid'[j] <= newest' /\ (pc'[j] # "none" => pid'[j] # 0)
      <4>1. newest' = newest \/ newest' = newest + 1
        BY <2>0, Zenon
      <4>2. pc'[j] # "none" => pc[j] # "none"
        BY <2>0, Zenon DEF IInv, Typed
      <4>3. pc[j] # "none" => pid[j] # 0
        BY DEF IInv, Pids
      <4> QED
        BY <4>1, <4>2, <4>3, <3>1, <3>2
    <3>4. ASSUME NEW i \in Cops, NEW j \in Cops, j # i, pc'[j] # "none", pc'[i] # "none"
          PROVE  pid'[j] # pid'[i]
      <4>1. pc[i] # "none" /\ pc[j] # "none"
        BY <2>0, <3>4, Zenon DEF IInv, Typed
      <4>2. pid[i] # pid[j]
        BY <4>1, <3>4 DEF IInv, Pids
      <4> QED
        BY <4>2, <3>1, <3>2, <3>4
    <3> QED
      BY <3>3, <3>4 DEF Pids
  <2>3. Held'
    BY <1>2, ZenonT(60) DEF ach_detach, Goto, IInv, Typed, Held, Supervising
  <2>4. Written'
    BY <1>2, Zenon DEF ach_detach, Goto, IInv, Typed, Written
  <2> QED
    BY <2>1, <2>2, <2>3, <2>4 DEF IInv
<1>3. ASSUME NEW k \in Cops, Lock(k)
      PROVE  IInv'
  BY <1>3, LockIInv
<1>4. ASSUME NEW k \in Cops, write_pid(k)
      PROVE  IInv'
  BY <1>4, WriteIInv
<1>5. ASSUME NEW k \in Cops, write_pid_dies(k) \/ Return(k) \/ Killed(k)
      PROVE  IInv'
  BY <1>5, EndsIInv, Zenon DEF write_pid_dies, Return, Killed
<1>6. ASSUME NEW k \in Cops, start_child(k)
      PROVE  IInv'
  <2>0. /\ newest' = newest + 1 /\ pid_child' = [pid_child EXCEPT ![k] = newest + 1]
        /\ pc[k] = "start" /\ pc' = [pc EXCEPT ![k] = "truncate p"]
        /\ UNCHANGED <<opt, pid, lock, content>>
    BY <1>6, Zenon DEF start_child, Goto
  <2>1. Typed'
    <3>1. newest \in Nat /\ newest + 1 \in Nat /\ pid_child \in [Cops -> Nat]
      BY DEF IInv, Typed
    <3>2. newest' \in Nat /\ pid_child' \in [Cops -> Nat]
      BY <2>0, <3>1, Zenon
    <3>3. pc' \in [Cops -> Labels]
      BY <2>0, Zenon DEF IInv, Typed, Labels
    <3> QED
      BY <2>0, <3>2, <3>3, Zenon DEF IInv, Typed
  <2>2. Pids'
    <3>1. \A j \in Cops : pid[j] \in Nat /\ pid[j] <= newest /\ newest \in Nat
      BY DEF IInv, Typed, Pids
    <3>2. newest' = newest + 1 /\ pid' = pid
      BY <2>0, Zenon
    <3>4. \A j \in Cops : pid'[j] <= newest'
      BY <3>1, <3>2
    <3>3. \A j \in Cops : pc'[j] # "none" => pc[j] # "none"
      BY <2>0, Zenon DEF IInv, Typed
    <3> QED
      BY <2>0, <3>3, <3>4, Zenon DEF IInv, Pids
  <2>3. Held'
    BY <1>6, Zenon DEF start_child, Goto, IInv, Typed, Held, Supervising
  <2>4. Written'
    BY <1>6, Zenon DEF start_child, Goto, IInv, Typed, Written
  <2> QED
    BY <2>1, <2>2, <2>3, <2>4 DEF IInv
<1>7. ASSUME NEW k \in Cops, Restart(k)
      PROVE  IInv'
  <2>1. Typed'
    BY <1>7, Zenon DEF Restart, Goto, IInv, Typed, Labels
  <2>2. Pids'
    BY <1>7 DEF Restart, Goto, IInv, Typed, Pids
  <2>3. Held'
    BY <1>7, Zenon DEF Restart, Goto, IInv, Typed, Held, Supervising
  <2>4. Written'
    BY <1>7, Zenon DEF Restart, Goto, IInv, Typed, Written
  <2> QED
    BY <2>1, <2>2, <2>3, <2>4 DEF IInv
<1>8. ASSUME NEW c \in children, ChildEnds(c)
      PROVE  IInv'
  BY <1>8, Zenon DEF ChildEnds, IInv, Typed, Pids, Held, Written, Supervising
<1>9. CASE UNCHANGED vars
  BY <1>9, Zenon DEF vars, IInv, Typed, Pids, Held, Written, Supervising
<1> QED
  BY <1>1, <1>2, <1>3, <1>4, <1>5, <1>6, <1>7, <1>8, <1>9 DEF Next, Cop

\* The invariant of the pid files: main() and run() of any number of achcop
\* commands keep it.
THEOREM Invariance == Spec => []IInv
<1> QED
  BY InitIInv, NextIInv, PTL DEF Spec

\* lock_pid() keeps two supervisors from one file, for every set of commands.
THEOREM OneSupervisorHolds == Spec => []OneSupervisor
<1>1. IInv => OneSupervisor
  BY HeldAlone DEF IInv
<1> QED
  BY <1>1, Invariance, PTL

\* write_pid() leaves the right pids in the files of a supervisor that waits.
THEOREM FilesNameHolds == Spec => []FilesName
<1>1. IInv => FilesName
  BY Zenon DEF IInv, Written, FilesName
<1> QED
  BY <1>1, Invariance, PTL

-----------------------------------------------------------------------------
\* A child has a supervisor that records it and waits, or was left alone.
Owner(c, k) ==
  /\ pc[k] \in {"truncate p", "write p", "run"}
  /\ pid_child[k] = c.pid /\ opt[k].p = c.file

Owned ==
  /\ children \subseteq [pid : Nat, file : Files \cup {NoFile}]
  /\ \A c \in children : c.file \in orphaned \/ \E k \in Cops : Owner(c, k)

\* A process that ends beside its child marks the file of it.
LEMMA EndsOwned ==
  ASSUME IInv, Owned, NEW k \in Cops, Ends(k),
         UNCHANGED <<opt, pid, pid_child, content, children, newest>>
  PROVE  Owned'
<1> SUFFICES ASSUME NEW c \in children, c.file \notin orphaned'
             PROVE  \E j \in Cops : Owner(c, j)'
  BY DEF Owned
<1>1. PICK j \in Cops : Owner(c, j)
  BY DEF Owned, Ends
<1>2. j # k
  BY <1>1, Zenon DEF Owner, Ends, Alive
<1>3. pc'[j] = pc[j]
  BY <1>2 DEF Ends, Goto, IInv, Typed
<1> QED
  BY <1>1, <1>3, Zenon DEF Owner

\* A step of a process that has no child now leaves the others theirs.
LEMMA OtherOwned ==
  ASSUME IInv, Owned, NEW k \in Cops, pc' = [pc EXCEPT ![k] = pc'[k]],
         \A c \in children : Owner(c, k) => Owner(c, k)',
         \A j \in Cops : j # k => opt'[j] = opt[j] /\ pid_child'[j] = pid_child[j],
         UNCHANGED <<children, orphaned>>
  PROVE  Owned'
<1> SUFFICES ASSUME NEW c \in children, c.file \notin orphaned
             PROVE  \E j \in Cops : Owner(c, j)'
  BY DEF Owned
<1>1. PICK j \in Cops : Owner(c, j)
  BY DEF Owned
<1>2. CASE j = k
  BY <1>1, <1>2
<1>3. CASE j # k
  <2>1. pc'[j] = pc[j]
    BY <1>3 DEF IInv, Typed
  <2> QED
    BY <1>1, <1>3, <2>1, Zenon DEF Owner
<1> QED
  BY <1>2, <1>3

\* Every step keeps children owned.
LEMMA NextOwned == IInv /\ Owned /\ [Next]_vars => Owned'
<1> SUFFICES ASSUME IInv, Owned, [Next]_vars
             PROVE  Owned'
  OBVIOUS
<1>0. /\ pc \in [Cops -> Labels] /\ opt \in [Cops -> Option]
      /\ pid_child \in [Cops -> Nat] /\ newest \in Nat /\ newest + 1 \in Nat
  BY DEF IInv, Typed
<1>1. ASSUME NEW k \in Cops, Start(k)
      PROVE  Owned'
  <2>1. pc' = [pc EXCEPT ![k] = pc'[k]] /\ \A c \in children : ~ Owner(c, k)
    BY <1>0, <1>1 DEF Start, Goto, Owner
  <2>2. \A j \in Cops : j # k => opt'[j] = opt[j] /\ pid_child'[j] = pid_child[j]
    BY <1>0, <1>1 DEF Start
  <2> QED
    BY <1>1, <2>1, <2>2, OtherOwned DEF Start
<1>2. ASSUME NEW k \in Cops, ach_detach(k)
      PROVE  Owned'
  <2>1. pc' = [pc EXCEPT ![k] = pc'[k]] /\ \A c \in children : ~ Owner(c, k)
    BY <1>0, <1>2, Zenon DEF ach_detach, Goto, Owner
  <2> QED
    BY <1>2, <2>1, OtherOwned, Zenon DEF ach_detach
<1>3. ASSUME NEW k \in Cops, Lock(k)
      PROVE  Owned'
  <2>1. CASE Ends(k)
    BY <1>3, <2>1, EndsOwned, Zenon DEF Lock
  <2>2. CASE ~ Ends(k)
    <3>1. pc' = [pc EXCEPT ![k] = pc'[k]] /\ \A c \in children : ~ Owner(c, k)
      BY <1>0, <1>3, <2>2, Zenon DEF Lock, lock_pid, Goto, Owner
    <3>2. UNCHANGED <<opt, pid_child, children, orphaned>>
      BY <1>3, <2>2, Zenon DEF Lock, lock_pid
    <3> QED
      BY <3>1, <3>2, OtherOwned
  <2> QED
    BY <2>1, <2>2
<1>4. ASSUME NEW k \in Cops, write_pid(k)
      PROVE  Owned'
  <2>1. pc' = [pc EXCEPT ![k] = pc'[k]]
    BY <1>0, <1>4, Zenon DEF write_pid, Truncate, Write, Goto
  <2>2. \A c \in children : Owner(c, k) => Owner(c, k)'
    BY <1>0, <1>4, Zenon DEF write_pid, Truncate, Write, Goto, Owner
  <2> QED
    BY <1>4, <2>1, <2>2, OtherOwned, Zenon DEF write_pid
<1>5. ASSUME NEW k \in Cops, write_pid_dies(k) \/ Return(k) \/ Killed(k)
      PROVE  Owned'
  BY <1>5, EndsOwned, Zenon DEF write_pid_dies, Return, Killed
<1>6. ASSUME NEW k \in Cops, start_child(k)
      PROVE  Owned'
  <2>0. PICK new : new = [pid |-> newest + 1, file |-> opt[k].p]
    BY Zenon
  <2>1. /\ pc[k] = "start" /\ pc' = [pc EXCEPT ![k] = "truncate p"]
        /\ pid_child' = [pid_child EXCEPT ![k] = newest + 1]
        /\ children' = children \cup {new}
        /\ UNCHANGED <<opt, orphaned>>
    BY <1>6, <2>0, Zenon DEF start_child, Goto
  <2>2. new \in [pid : Nat, file : Files \cup {NoFile}]
    BY <1>0, <2>0 DEF Option
  <2>3. Owner(new, k)'
    BY <1>0, <2>0, <2>1, Zenon DEF Owner
  <2>4. ASSUME NEW c \in children, c.file \notin orphaned
        PROVE  \E j \in Cops : Owner(c, j)'
    <3>1. PICK j \in Cops : Owner(c, j)
      BY <2>4 DEF Owned
    <3>2. j # k
      BY <2>1, <3>1, Zenon DEF Owner
    <3>3. pc'[j] = pc[j] /\ pid_child'[j] = pid_child[j]
      BY <1>0, <2>1, <3>2, Zenon
    <3> QED
      BY <2>1, <3>1, <3>3, Zenon DEF Owner
  <2> QED
    BY <2>1, <2>2, <2>3, <2>4, Zenon DEF Owned
<1>7. ASSUME NEW k \in Cops, Restart(k)
      PROVE  Owned'
  <2>1. pc' = [pc EXCEPT ![k] = pc'[k]]
    BY <1>0, <1>7 DEF Restart, Goto
  <2>2. \A c \in children : ~ Owner(c, k)
    BY <1>7 DEF Restart, Alive, Owner
  <2> QED
    BY <1>7, <2>1, <2>2, OtherOwned DEF Restart
<1>8. ASSUME NEW c \in children, ChildEnds(c)
      PROVE  Owned'
  BY <1>8, Zenon DEF ChildEnds, Owned, Owner
<1>9. CASE UNCHANGED vars
  BY <1>9, Zenon DEF vars, Owned, Owner
<1> QED
  BY <1>1, <1>2, <1>3, <1>4, <1>5, <1>6, <1>7, <1>8, <1>9 DEF Next, Cop

\* Two children of a pid file: a supervisor of it ended before its child did.
THEOREM OneChildHolds == Spec => []OneChild
<1>1. Init => Owned
  BY DEF Init, Owned
<1>2. IInv /\ Owned => OneChild
  <2> SUFFICES ASSUME IInv, Owned, NEW c \in children, NEW d \in children,
                      c.file = d.file, c.file \notin orphaned \cup {NoFile}
               PROVE  c = d
    BY DEF OneChild
  <2>1. PICK j \in Cops : Owner(c, j)
    BY DEF Owned
  <2>2. PICK k \in Cops : Owner(d, k)
    BY DEF Owned
  <2>3. j \in Supervising /\ k \in Supervising /\ c.file \in FilesOf(j) \cap FilesOf(k)
    BY <2>1, <2>2, Zenon DEF Owner, Supervising, FilesOf
  <2>4. j = k
    BY <2>3, HeldAlone DEF IInv, OneSupervisor
  <2>5. c.pid = d.pid
    BY <2>1, <2>2, <2>4, Zenon DEF Owner
  <2> QED
    BY <2>5 DEF Owned
<1> QED
  BY <1>1, <1>2, Invariance, NextOwned, PTL DEF Spec

\* write_pid() is only reached with the lock: a refused achcop changes no file.
THEOREM HolderWritesHolds == Spec => HolderWrites
<1>1. ASSUME IInv, [Next]_vars, NEW f \in Files, content'[f] # content[f]
      PROVE  \E k \in Cops : lock[f] = pid[k] /\ pc'[k] # pc[k]
  <2>1. PICK k \in Cops : write_pid(k)
    BY <1>1, Zenon DEF Next, Cop, vars, Start, ach_detach, Lock, write_pid_dies, start_child,
                Restart, Return, Killed, ChildEnds
  <2>2. k \in Supervising /\ pc'[k] # pc[k] /\ opt[k] \in Option
    BY <1>1, <2>1, Zenon DEF write_pid, Truncate, Write, Goto, Supervising, IInv, Typed
  <2>3. f \in FilesOf(k)
    BY <1>1, <2>1, <2>2, Zenon DEF write_pid, Truncate, Write, IInv, Typed, FilesOf, Option
  <2> QED
    BY <1>1, <2>2, <2>3, Zenon DEF IInv, Held, FilesOf
<1>2. IInv /\ [Next]_vars =>
        [\A f \in Files : content'[f] # content[f] =>
           \E k \in Cops : lock[f] = pid[k] /\ pc'[k] # pc[k]]_vars
  BY <1>1
<1> QED
  BY <1>2, Invariance, PTL DEF Spec, HolderWrites

=============================================================================
