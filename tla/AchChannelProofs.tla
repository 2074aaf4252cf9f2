-------------------------- MODULE AchChannelProofs --------------------------
(***************************************************************************)
(* Proofs about the channel for any number of processes, whoever is killed.*)
(*                                                                         *)
(* Mutual exclusion is not inductive: who holds the mutex must be known    *)
(* together with what locking it returned, since a holder that unlocked a  *)
(* mutex it had found ownerdead would make it useless; and a put that has  *)
(* found the dirty bit set goes on without the mutex, so that exclusion is *)
(* only claimed until a put is cut short.                                  *)
(***************************************************************************)
EXTENDS AchChannel, TLAPS, FiniteSetTheorems

\* The steps of a put, of a get or flush, and of a cancel.
WLabels == {"idle", "lock", "check", "mark", "head", "free", "index", "advance", "clean",
            "unlock", "broadcast"}
RLabels == {"idle", "lock", "check", "test", "sleep", "wait", "relock", "recheck", "read", "unlock"}
CLabels == {"idle", "lock", "check", "set", "unlock", "broadcast"}

\* Every process is in a call of its kind.
Roles ==
  /\ \A w \in Writers :
       pc[w] \in WLabels /\ (pc[w] # "idle" => arg[w] \in PutCalls /\ arg[w].len \in 1 .. DataSize)
  /\ \A r \in Readers :
       pc[r] \in RLabels /\ (pc[r] # "idle" => arg[r] \in GetCalls \cup {FlushCall})
  /\ \A c \in Cancellers : pc[c] \in CLabels /\ (pc[c] # "idle" => arg[c] \in CancelCalls)

\* What is left of locking and waiting.
Results ==
  \A p \in Procs :
    /\ pc[p] \in {"check", "recheck"} => rc[p] \in {"0", "ETIMEDOUT", "EOWNERDEAD"}
    /\ pc[p] = "relock" => rc[p] \in {"0", "ETIMEDOUT"}
    /\ pc[p] \notin {"check", "recheck", "relock", "unlock"} => rc[p] = "0"
    /\ pc[p] = "unlock" => rc[p] = "0" \/ p \in Readers

\* The mutex is free or held by someone alive who knows it; whoever has not yet
\* changed the ring holds it; one that was found ownerdead is being recovered.
Mutex ==
  /\ Recoverable
  /\ owner # NoOne => owner \in alive /\ pc[owner] \in Section
  /\ \A p \in alive : pc[p] \in Section /\ (p \in Writers => pc[p] \in {"check", "mark"}) => owner = p
  /\ mutex = "ownerdead" /\ owner # NoOne =>
       pc[owner] \in {"check", "recheck"} /\ rc[owner] = "EOWNERDEAD"

\* The locals of ach_put() before their first use.
Cleared ==
  \A w \in Writers :
    pc[w] \in {"idle", "lock", "check", "mark", "head"} => idx[w] = 0 /\ slot[w] = 0

\* The mutex excludes and the dirty bit tells, until a put is cut short.
Exclusive == ~ Interrupted => HoldsMutex /\ DirtyMarksPut

\* The inductive invariant.
IInv == TypeOK /\ Roles /\ Results /\ Mutex /\ Cleared /\ Exclusive /\ NoFalseAlarm

\* What a get or a flush returns from its critical section.
Statuses == {"ACH_OK", "ACH_BUG", "ACH_OVERFLOW", "ACH_STALE_FRAMES", "ACH_MISSED_FRAME"}

\* Only the locals of process p change.
LocalTo(p) ==
  \A q \in Procs \ {p} :
    /\ pc'[q] = pc[q] /\ arg'[q] = arg[q] /\ rc'[q] = rc[q]
    /\ q \in Writers => idx'[q] = idx[q] /\ slot'[q] = slot[q]

-----------------------------------------------------------------------------
\* ach_get() ends in one of these.
LEMMA GetStatus ==
  ASSUME NEW s, NEW n, NEW z, NEW l, NEW c
  PROVE  GetLocked(s, n, z, l, c, FALSE).status \in Statuses
<1> DEFINE i == read_index(s, n, l, FALSE)
           r == ach_get_from_offset(s, n, i, z)
           missed == [r EXCEPT !.status = "ACH_MISSED_FRAME"]
           stale == Result("ACH_STALE_FRAMES", s, n, <<>>)
           small == Result("ACH_OVERFLOW", s, n, <<>>)
           g == GetLocked(s, n, z, l, c, FALSE)
<1>1. r.status \in {"ACH_OK", "ACH_BUG", "ACH_OVERFLOW"} /\ "status" \in DOMAIN r
  BY Zenon DEF ach_get_from_offset, Result
<1>2. stale.status = "ACH_STALE_FRAMES" /\ small.status = "ACH_OVERFLOW"
  BY Zenon DEF Result
<1>3. missed.status = "ACH_MISSED_FRAME"
  <2> HIDE DEF r
  <2> QED
    BY <1>1, Zenon
<1>4. g \in {stale, small, missed, r}
  BY Zenon DEF GetLocked
<1> HIDE DEF g, r, i, missed, stale, small
<1>5. g.status \in Statuses
  BY <1>1, <1>2, <1>3, <1>4, Zenon DEF Statuses
<1> QED
  BY <1>5, Zenon DEF g

\* A step of process p keeps what is said of each process if it keeps it for p.
LEMMA LocalIInv ==
  ASSUME TypeOK, Roles, Results, Cleared, TypeOK', NEW p \in Procs, LocalTo(p),
         p \in Writers => /\ pc'[p] \in WLabels
                          /\ pc'[p] # "idle" => arg'[p] \in PutCalls /\ arg'[p].len \in 1 .. DataSize
                          /\ pc'[p] \in {"idle", "lock", "check", "mark", "head"} =>
                               idx'[p] = 0 /\ slot'[p] = 0,
         p \in Readers => /\ pc'[p] \in RLabels
                          /\ pc'[p] # "idle" => arg'[p] \in GetCalls \cup {FlushCall},
         p \in Cancellers => /\ pc'[p] \in CLabels
                             /\ pc'[p] # "idle" => arg'[p] \in CancelCalls,
         \/ rc'[p] = "0"
         \/ pc'[p] = "relock" /\ rc'[p] = "ETIMEDOUT"
         \/ pc'[p] \in {"check", "recheck"} /\ rc'[p] \in {"ETIMEDOUT", "EOWNERDEAD"}
         \/ pc'[p] = "unlock" /\ p \in Readers
  PROVE  Roles' /\ Results' /\ Cleared'
<1>1. Roles'
  BY Zenon DEF Roles, LocalTo, Procs
<1>2. Results'
  BY ZenonT(60) DEF Results, LocalTo
<1>3. Cleared'
  BY Zenon DEF Cleared, LocalTo, Procs
<1> QED
  BY <1>1, <1>2, <1>3, Zenon

\* The holder of the mutex keeps it or gives it back, and does not touch the ring.
LEMMA HolderIInv ==
  ASSUME IInv, TypeOK', NEW p \in Procs, owner = p, LocalTo(p),
         pc[p] \notin Changing, pc'[p] \notin Changing,
         UNCHANGED <<dirty, alive>>,
         \/ pc'[p] \in Section \ {"check", "recheck"} /\ owner' = p
         \/ pc'[p] \notin Section /\ owner' = NoOne,
         mutex' = "consistent",
         ret'.status # "ACH_CORRUPT"
  PROVE  Mutex' /\ Exclusive' /\ NoFalseAlarm'
<1> USE NoOneAssumption
<1>1. p \in alive /\ alive \subseteq Procs
  BY Zenon DEF IInv, Mutex, TypeOK, Procs
<1>2. \A q \in Procs : pc'[q] \in Changing <=> pc[q] \in Changing
  BY Zenon DEF LocalTo
<1>3. Mutex'
  BY <1>1, Zenon DEF IInv, Mutex, Recoverable, LocalTo
<1>4. Interrupted' <=> Interrupted
  BY <1>2, Zenon DEF Interrupted, Procs
<1>5. ~ Interrupted => DirtyMarksPut'
  BY <1>2, Zenon DEF IInv, Exclusive, DirtyMarksPut, Procs
<1>6. ~ Interrupted => HoldsMutex'
  BY <1>1, Zenon DEF IInv, Exclusive, HoldsMutex, LocalTo, Section
<1> QED
  BY <1>3, <1>4, <1>5, <1>6, Zenon DEF Exclusive, NoFalseAlarm

\* A step outside the critical sections, or of a put that is changing the ring.
LEMMA StayIInv ==
  ASSUME IInv, TypeOK', NEW p \in Procs, p \in alive, LocalTo(p),
         \/ pc[p] \notin Section /\ pc'[p] \notin Section
         \/ p \in Writers /\ pc[p] \in Changing /\ pc'[p] \in Changing,
         UNCHANGED <<owner, mutex, dirty, alive>>,
         ret'.status # "ACH_CORRUPT"
  PROVE  Mutex' /\ Exclusive' /\ NoFalseAlarm'
<1> USE NoOneAssumption
<1>1. alive \subseteq Procs
  BY Zenon DEF IInv, TypeOK
<1>2. \A q \in Procs : /\ pc'[q] \in Changing <=> pc[q] \in Changing
                       /\ pc'[q] \in Section <=> pc[q] \in Section
  BY Zenon DEF LocalTo, Section, Changing
<1>3. Mutex'
  BY <1>1, <1>2, Zenon DEF IInv, Mutex, Recoverable, LocalTo, Changing
<1>4. Interrupted' <=> Interrupted
  BY <1>2, Zenon DEF Interrupted, Procs
<1>5. ~ Interrupted => DirtyMarksPut'
  BY <1>2, Zenon DEF IInv, Exclusive, DirtyMarksPut, Procs
<1>6. ~ Interrupted => HoldsMutex'
  BY <1>1, <1>2, Zenon DEF IInv, Exclusive, HoldsMutex
<1> QED
  BY <1>3, <1>4, <1>5, <1>6, Zenon DEF Exclusive, NoFalseAlarm

\* Past check_lock(), all but a put that changes the ring hold the mutex, and it
\* is in order again.
LEMMA HoldsIt ==
  ASSUME IInv, NEW p \in alive, pc[p] \in Section \ {"check", "recheck"},
         p \in Writers => pc[p] = "mark"
  PROVE  owner = p /\ mutex = "consistent" /\ p \in Procs
<1>1. owner = p /\ p \in Procs
  BY Zenon DEF IInv, Mutex, TypeOK
<1>2. mutex # "ownerdead" /\ mutex # "notrecoverable"
  BY <1>1, NoOneAssumption, Zenon DEF IInv, Mutex, Recoverable
<1> QED
  BY <1>1, <1>2, Zenon DEF IInv, TypeOK

-----------------------------------------------------------------------------
\* A call begins.
LEMMA CallIInv ==
  ASSUME IInv, NEW p \in Procs, NEW a, Call(p, a), UNCHANGED <<sync, alive>>,
         cancel' \in [Readers -> BOOLEAN],
         \/ p \in Writers /\ a \in PutCalls /\ a.len \in 1 .. DataSize
         \/ p \in Readers /\ a \in GetCalls \cup {FlushCall}
         \/ p \in Cancellers /\ a \in CancelCalls
  PROVE  IInv'
<1>1. TypeOK'
  BY Zenon DEF IInv, TypeOK, Call, sync
<1>2. LocalTo(p) /\ pc[p] = "idle" /\ pc'[p] = "lock" /\ arg'[p] = a /\ p \in alive /\ ret' = NoReturn
      /\ rc' = rc /\ idx' = idx /\ slot' = slot
  BY Zenon DEF IInv, TypeOK, Call, LocalTo, At
<1>3. Roles' /\ Results' /\ Cleared'
  BY <1>1, <1>2, LocalIInv, RolesAssumption, Zenon DEF IInv, Results, Cleared, WLabels, RLabels, CLabels
<1>4. Mutex' /\ Exclusive' /\ NoFalseAlarm'
  BY <1>1, <1>2, StayIInv, Zenon DEF IInv, Section, NoReturn, sync
<1> QED
  BY <1>1, <1>3, <1>4, Zenon DEF IInv

\* The steps by which ach_put() changes the ring.
LEMMA PutIInv ==
  ASSUME IInv, NEW w \in Writers,
         PutHead(w) \/ PutFree(w) \/ PutCopy(w) \/ PutIndex(w) \/ PutAdvance(w)
  PROVE  IInv'
<1>1. /\ w \in Procs /\ w \in alive /\ pc[w] \in Changing /\ pc'[w] \in Changing \ {"head"}
      /\ \A q \in Procs \ {w} : pc'[q] = pc[q] /\ (q \in Writers => idx'[q] = idx[q] /\ slot'[q] = slot[q])
      /\ DOMAIN idx' = Writers /\ DOMAIN slot' = Writers /\ pc' = [q \in Procs |-> pc'[q]]
      /\ ret' = NoReturn
      /\ UNCHANGED <<owner, mutex, dirty, alive, arg, rc, cancel>>
  <2>0. /\ pc = [q \in Procs |-> pc[q]] /\ DOMAIN idx = Writers /\ DOMAIN slot = Writers
        /\ w \in Procs
    BY Zenon DEF IInv, TypeOK, Procs
  <2> USE <2>0 DEF At, Goto, Changing, sync, handles
  <2>1. CASE PutHead(w)
    BY <2>1, Zenon DEF PutHead
  <2>2. CASE PutFree(w)
    BY <2>2, Zenon DEF PutFree
  <2>3. CASE PutCopy(w)
    BY <2>3, Zenon DEF PutCopy
  <2>4. CASE PutIndex(w)
    BY <2>4, Zenon DEF PutIndex
  <2>5. CASE PutAdvance(w)
    BY <2>5, Zenon DEF PutAdvance
  <2> QED
    BY <2>1, <2>2, <2>3, <2>4, <2>5, Zenon
<1>2. TypeOK' /\ LocalTo(w)
  BY <1>1, ZenonT(60) DEF IInv, TypeOK, LocalTo, Changing
<1>3. /\ w \notin Readers /\ w \notin Cancellers
      /\ rc'[w] = "0" /\ pc'[w] \in WLabels \ {"idle", "lock", "check", "mark", "head"}
      /\ arg'[w] \in PutCalls /\ arg'[w].len \in 1 .. DataSize
  BY <1>1, RolesAssumption, Zenon DEF IInv, Roles, Results, Changing, WLabels
<1>4. Roles' /\ Results' /\ Cleared'
  BY <1>1, <1>2, <1>3, LocalIInv, Zenon DEF IInv
<1>5. Mutex' /\ Exclusive' /\ NoFalseAlarm'
  BY <1>1, <1>2, StayIInv, Zenon DEF NoReturn
<1> QED
  BY <1>2, <1>4, <1>5, Zenon DEF IInv

\* A reader past check_lock() moves on, or gives the mutex back.
LEMMA ReaderIInv ==
  ASSUME IInv, NEW r \in Readers, r \in alive, pc[r] \in {"test", "sleep", "read", "unlock"},
         NEW l, pc' = [pc EXCEPT ![r] = l], NEW v, rc' = [rc EXCEPT ![r] = v],
         \/ l \in {"read", "sleep"} /\ v = "0" /\ owner' = owner /\ arg' = arg
         \/ l = "unlock" /\ v \in Statuses /\ owner' = owner /\ arg' = arg
         \/ l = "wait" /\ v = "0" /\ owner' = NoOne /\ arg' = arg
         \/ l = "idle" /\ v = "0" /\ owner' = NoOne /\ arg' = [arg EXCEPT ![r] = NoCall],
         DOMAIN idx' = Writers, DOMAIN slot' = Writers,
         \A w \in Writers : idx'[w] = idx[w] /\ slot'[w] = slot[w],
         ret'.status # "ACH_CORRUPT", UNCHANGED <<mutex, dirty, alive, cancel>>
  PROVE  IInv'
<1>1. r \in Procs /\ r \notin Writers /\ r \notin Cancellers
  BY RolesAssumption, Zenon DEF Procs
<1>2. owner = r /\ mutex = "consistent"
  BY <1>1, HoldsIt, Zenon DEF Section
<1>3. TypeOK'
  BY <1>1, NoOneAssumption, Zenon DEF IInv, TypeOK, Statuses
<1>4. LocalTo(r) /\ pc'[r] = l /\ rc'[r] = v
  BY <1>1, Zenon DEF IInv, TypeOK, LocalTo
<1>5. arg[r] \in GetCalls \cup {FlushCall}
  BY Zenon DEF IInv, Roles
<1>6. Roles' /\ Results' /\ Cleared'
  BY <1>1, <1>3, <1>4, <1>5, LocalIInv, Zenon DEF IInv, RLabels
<1>7. Mutex' /\ Exclusive' /\ NoFalseAlarm'
  BY <1>1, <1>2, <1>3, <1>4, HolderIInv, Zenon DEF Section, Changing
<1> QED
  BY <1>3, <1>6, <1>7, Zenon DEF IInv

\* The loop of rdlock(), the reading, and unrdlock().
LEMMA ReadIInv ==
  ASSUME IInv, NEW r \in Readers,
         RdTest(r) \/ RdSleep(r) \/ GetRead(r) \/ FlushRead(r) \/ GetUnlock(r)
  PROVE  IInv'
<1>1. r \in alive /\ r \notin Writers /\ pc[r] \in {"test", "sleep", "read", "unlock"}
  BY RolesAssumption, Zenon DEF RdTest, RdSleep, GetRead, FlushRead, GetUnlock, At
<1>2. owner = r /\ mutex = "consistent" /\ r \in Procs
  BY <1>1, HoldsIt, Zenon DEF Section
<1>3. DOMAIN idx = Writers /\ DOMAIN slot = Writers /\ rc = [rc EXCEPT ![r] = rc[r]]
      /\ rc[r] # "ACH_CORRUPT"
  BY <1>2, Zenon DEF IInv, TypeOK
<1>4. pc[r] # "unlock" => rc[r] = "0"
  BY <1>1, <1>2, SMTT(30) DEF IInv, Results
<1>5. ASSUME NEW s, Unlock, Return(r, s), s # "ACH_CORRUPT", UNCHANGED <<dirty, alive, cancel>>
      PROVE  IInv'
  <2>1. owner' = NoOne /\ mutex' = mutex
    BY <1>2, <1>5, Zenon DEF Unlock
  <2>2. /\ pc' = [pc EXCEPT ![r] = "idle"] /\ rc' = [rc EXCEPT ![r] = "0"]
        /\ arg' = [arg EXCEPT ![r] = NoCall] /\ ret'.status = s
        /\ DOMAIN idx' = Writers /\ DOMAIN slot' = Writers
        /\ \A w \in Writers : idx'[w] = idx[w] /\ slot'[w] = slot[w]
    BY <1>1, <1>5, Zenon DEF Return
  <2> QED
    BY <1>1, <1>5, <2>1, <2>2, ReaderIInv, Zenon
<1>6. CASE RdTest(r)
  <2>1. UNCHANGED <<dirty, alive, cancel>>
    BY <1>6, Zenon DEF RdTest, handles
  <2>2. CASE cancel[r]
    BY <1>5, <1>6, <2>1, <2>2, Zenon DEF RdTest
  <2>3. CASE ~ cancel[r]
    <3>1. PICK l \in {"read", "sleep"} : pc' = [pc EXCEPT ![r] = l]
      BY <1>6, <2>3, Zenon DEF RdTest, Goto
    <3>2. owner' = owner /\ mutex' = mutex /\ ret' = NoReturn /\ UNCHANGED <<arg, rc, idx, slot>>
      BY <1>6, <2>3, Zenon DEF RdTest, Goto
    <3>3. rc[r] = "0"
      BY <1>4, <1>6, Zenon DEF RdTest, At
    <3> QED
      BY <1>1, <1>3, <2>1, <3>1, <3>2, <3>3, ReaderIInv, Zenon DEF NoReturn
  <2> QED
    BY <2>2, <2>3, Zenon
<1>7. CASE RdSleep(r)
  <2>1. /\ pc' = [pc EXCEPT ![r] = "wait"] /\ owner' = NoOne /\ mutex' = mutex
        /\ ret' = NoReturn /\ UNCHANGED <<dirty, alive, cancel, arg, rc, idx, slot>>
    BY <1>2, <1>7, Zenon DEF RdSleep, Unlock, Goto, handles
  <2>2. rc[r] = "0"
    BY <1>4, <1>7, Zenon DEF RdSleep, At
  <2> QED
    BY <1>1, <1>3, <2>1, <2>2, ReaderIInv, Zenon DEF NoReturn
<1>8. CASE GetRead(r) \/ FlushRead(r)
  <2>1. PICK v \in Statuses : rc' = [rc EXCEPT ![r] = v]
    <3>1. CASE GetRead(r)
      <4>1. PICK s, n, z, k, c : rc' = [rc EXCEPT ![r] = GetLocked(s, n, z, k, c, FALSE).status]
        BY <3>1, Zenon DEF GetRead
      <4> QED
        BY <4>1, GetStatus, Zenon
    <3>2. CASE FlushRead(r)
      <4>1. rc' = [rc EXCEPT ![r] = FlushLocked.status]
        BY <3>2, Zenon DEF FlushRead
      <4>2. FlushLocked.status \in Statuses
        BY Zenon DEF FlushLocked, Result, Statuses
      <4> QED
        BY <4>1, <4>2, Zenon
    <3> QED
      BY <1>8, <3>1, <3>2, Zenon
  <2>2. /\ pc' = [pc EXCEPT ![r] = "unlock"] /\ ret' = NoReturn
        /\ UNCHANGED <<owner, mutex, dirty, alive, arg, idx, slot, cancel>>
    BY <1>8, Zenon DEF GetRead, FlushRead, sync
  <2> QED
    BY <1>1, <1>3, <2>1, <2>2, ReaderIInv, Zenon DEF NoReturn
<1>9. CASE GetUnlock(r)
  <2>1. Unlock /\ Return(r, rc[r]) /\ UNCHANGED <<dirty, alive, cancel>>
    BY <1>2, <1>9, Zenon DEF GetUnlock, UnlockOr, handles
  <2> QED
    BY <1>3, <1>5, <2>1, Zenon
<1> QED
  BY <1>6, <1>7, <1>8, <1>9, Zenon

\* ach_cancel() past check_lock().
LEMMA CancelIInv ==
  ASSUME IInv, NEW c \in Cancellers, CancelSet(c) \/ CancelUnlock(c)
  PROVE  IInv'
<1>1. c \in alive /\ c \in Procs /\ c \notin Writers /\ c \notin Readers /\ pc[c] \in {"set", "unlock"}
  BY RolesAssumption, Zenon DEF CancelSet, CancelUnlock, At, Procs
<1>2. owner = c /\ mutex = "consistent"
  BY <1>1, HoldsIt, Zenon DEF Section
<1>3. /\ \/ pc' = [pc EXCEPT ![c] = "unlock"] /\ owner' = c
         \/ pc' = [pc EXCEPT ![c] = "broadcast"] /\ owner' = NoOne
      /\ cancel' \in [Readers -> BOOLEAN]
      /\ ret' = NoReturn /\ UNCHANGED <<mutex, dirty, alive, arg, rc, idx, slot>>
  <2>0. cancel \in [Readers -> BOOLEAN]
    BY Zenon DEF IInv, TypeOK
  <2>1. CASE CancelSet(c)
    BY <1>2, <2>0, <2>1, Zenon DEF CancelSet, Goto, sync
  <2>2. CASE CancelUnlock(c)
    BY <1>2, <2>0, <2>2, Zenon DEF CancelUnlock, UnlockOr, Unlock, Goto, handles
  <2> QED
    BY <2>1, <2>2, Zenon
<1>4. TypeOK' /\ LocalTo(c) /\ pc'[c] \in {"unlock", "broadcast"}
  BY <1>1, <1>3, NoOneAssumption, SMTT(30) DEF IInv, TypeOK, LocalTo
<1>5. arg'[c] \in CancelCalls /\ rc'[c] = "0"
  BY <1>1, <1>3, SMTT(30) DEF IInv, Roles, Results
<1>6. Roles' /\ Results' /\ Cleared'
  BY <1>1, <1>4, <1>5, LocalIInv, SMTT(30) DEF IInv, CLabels
<1>7. \/ pc'[c] = "unlock" /\ owner' = c
      \/ pc'[c] = "broadcast" /\ owner' = NoOne
  BY <1>1, <1>3, Zenon DEF IInv, TypeOK
<1>8. Mutex' /\ Exclusive' /\ NoFalseAlarm'
  BY <1>1, <1>2, <1>3, <1>4, <1>7, HolderIInv, Zenon DEF Section, Changing, NoReturn
<1> QED
  BY <1>4, <1>6, <1>8, Zenon DEF IInv

\* A wait ends without a broadcast.
LEMMA WakeIInv ==
  ASSUME IInv, NEW r \in Readers, WakeUp(r)
  PROVE  IInv'
<1>1. /\ r \in alive /\ r \in Procs /\ r \notin Writers /\ r \notin Cancellers
      /\ pc[r] = "wait" /\ pc' = [pc EXCEPT ![r] = "relock"]
      /\ rc' = rc \/ rc' = [rc EXCEPT ![r] = "ETIMEDOUT"]
      /\ ret' = NoReturn /\ UNCHANGED <<owner, mutex, dirty, alive, arg, idx, slot, cancel>>
  BY RolesAssumption, Zenon DEF WakeUp, At, sync, handles, Procs
<1>2. TypeOK' /\ LocalTo(r) /\ pc'[r] = "relock"
  BY <1>1, Zenon DEF IInv, TypeOK, LocalTo
<1>3. rc'[r] \in {"0", "ETIMEDOUT"}
  <2>1. rc[r] = "0" /\ r \in DOMAIN rc
    BY <1>1, Zenon DEF IInv, TypeOK, Results
  <2> QED
    BY <1>1, <2>1, Zenon
<1>4. arg'[r] \in GetCalls \cup {FlushCall}
  BY <1>1, SMTT(30) DEF IInv, Roles
<1>5. Roles' /\ Results' /\ Cleared'
  BY <1>1, <1>2, <1>3, <1>4, LocalIInv, Zenon DEF IInv, RLabels
<1>6. Mutex' /\ Exclusive' /\ NoFalseAlarm'
  BY <1>1, <1>2, StayIInv, Zenon DEF Section, NoReturn
<1> QED
  BY <1>2, <1>5, <1>6, Zenon DEF IInv

\* fork() fails in ach_cancel().
LEMMA CancelForkIInv ==
  ASSUME IInv, NEW c \in Cancellers, CancelFork(c)
  PROVE  IInv'
<1>1. /\ cancel' \in [Readers -> BOOLEAN] /\ ret'.status = "ACH_FAILED_SYSCALL"
      /\ UNCHANGED <<owner, mutex, dirty, alive, pc, arg, rc, idx, slot>>
  BY SMTT(30) DEF CancelFork, sync, locals, IInv, TypeOK
<1>2. TypeOK' /\ Roles' /\ Results' /\ Cleared'
  BY <1>1, SMTT(30) DEF IInv, TypeOK, Roles, Results, Cleared
<1>3. Mutex' /\ Exclusive' /\ NoFalseAlarm'
  BY <1>1, Zenon DEF IInv, Mutex, Recoverable, Exclusive, Interrupted, HoldsMutex, DirtyMarksPut, NoFalseAlarm
<1> QED
  BY <1>2, <1>3, Zenon DEF IInv


\* The mutex is taken.
LEMMA LockIInv ==
  ASSUME IInv, NEW p \in Procs, Lock(p)
  PROVE  IInv'
<1> USE RolesAssumption, NoOneAssumption DEF IInv, TypeOK, Procs, At, Roles, WLabels, RLabels, CLabels, handles, history
<1>1. /\ p \in alive
      /\ \/ pc[p] = "lock" /\ pc' = [pc EXCEPT ![p] = "check"] /\ rc[p] = "0"
         \/ pc[p] = "relock" /\ pc' = [pc EXCEPT ![p] = "recheck"] /\ rc[p] \in {"0", "ETIMEDOUT"}
      /\ owner = NoOne /\ owner' = p
      /\ \/ mutex = "ownerdead" /\ rc' = [rc EXCEPT ![p] = "EOWNERDEAD"]
         \/ mutex = "consistent" /\ rc' = rc
      /\ ret' = NoReturn
      /\ UNCHANGED <<mutex, dirty, alive, arg, idx, slot, cancel>>
  <2>1. mutex \in {"ownerdead", "consistent"}
    BY Zenon DEF Mutex, Recoverable
  <2>2. CASE mutex = "ownerdead"
    BY <2>2, Zenon DEF Lock, Results
  <2>3. CASE mutex = "consistent"
    BY <2>3, ZenonT(60) DEF Lock, Results
  <2> QED
    BY <2>1, <2>2, <2>3, Zenon
<1>2. TypeOK'
  BY <1>1, ZenonT(60)
<1>3. Roles'
  BY <1>1
<1>4. Results'
  BY <1>1 DEF Results
<1>5. Mutex'
  BY <1>1 DEF Mutex, Recoverable, Section
<1>6. Cleared'
  BY <1>1, ZenonT(60) DEF Cleared
<1>7. Exclusive'
  <2>1. \A q \in Procs : /\ q # p => pc'[q] = pc[q]
                         /\ pc'[q] \in Changing <=> pc[q] \in Changing
    BY <1>1, ZenonT(60) DEF Changing
  <2>2. Interrupted' <=> Interrupted
    BY <1>1, <2>1, Zenon DEF Interrupted
  <2>3. ~ Interrupted => DirtyMarksPut'
    BY <1>1, <2>1, Zenon DEF Exclusive, DirtyMarksPut
  <2>4. ~ Interrupted => HoldsMutex'
    BY <1>1, <2>1 DEF Exclusive, HoldsMutex, Section
  <2> QED
    BY <2>2, <2>3, <2>4, Zenon DEF Exclusive
<1>8. NoFalseAlarm'
  BY <1>1, Zenon DEF NoFalseAlarm, NoReturn
<1> QED
  BY <1>2, <1>3, <1>4, <1>5, <1>6, <1>7, <1>8, ZenonT(60)

\* check_lock(), and what its callers do with its result.
LEMMA CheckIInv ==
  ASSUME IInv, NEW p \in Procs, check_lock(p)
  PROVE  IInv'
<1>1. /\ p \in alive /\ pc[p] \in {"check", "recheck"}
      /\ UNCHANGED <<dirty, alive, cancel>>
  BY Zenon DEF check_lock, At, handles
<1>2. owner = p
  BY <1>1, Zenon DEF IInv, Mutex, Section, Roles, WLabels
<1>3. rc[p] \in {"0", "ETIMEDOUT", "EOWNERDEAD"} /\ (mutex = "consistent" \/ rc[p] = "EOWNERDEAD")
  BY <1>1, <1>2, NoOneAssumption, Zenon DEF IInv, TypeOK, Mutex, Recoverable, Results
<1>4. /\ p \in Writers => arg[p].call = "put" /\ arg[p] \in PutCalls /\ arg[p].len \in 1 .. DataSize
                          /\ idx[p] = 0 /\ slot[p] = 0 /\ pc[p] = "check" /\ p \notin Readers /\ p \notin Cancellers
      /\ p \in Readers => arg[p].call \in {"get", "flush"} /\ arg[p] \in GetCalls \cup {FlushCall}
                          /\ p \notin Writers /\ p \notin Cancellers
      /\ p \in Cancellers => arg[p].call = "cancel" /\ arg[p] \in CancelCalls
                             /\ p \notin Writers /\ p \notin Readers
  BY <1>1, RolesAssumption DEF IInv, Roles, Cleared, WLabels, PutCalls, GetCalls, FlushCall, CancelCalls
<1>5. ASSUME NEW s, Return(p, s)
      PROVE  /\ pc' = [pc EXCEPT ![p] = "idle"] /\ rc' = [rc EXCEPT ![p] = "0"]
             /\ LocalTo(p) /\ pc'[p] = "idle" /\ ret'.status = s
             /\ TypeOK' <=> owner' \in Procs \cup {NoOne} /\ mutex' \in {"consistent", "ownerdead", "notrecoverable"}
             /\ TypeOK' => Roles' /\ Results' /\ Cleared'
  <2>1. /\ pc' = [pc EXCEPT ![p] = "idle"] /\ arg' = [arg EXCEPT ![p] = NoCall]
        /\ rc' = [rc EXCEPT ![p] = "0"] /\ ret'.status = s
        /\ idx' = [w \in Writers |-> IF w = p THEN 0 ELSE idx[w]]
        /\ slot' = [w \in Writers |-> IF w = p THEN 0 ELSE slot[w]]
    BY <1>5, Zenon DEF Return
  <2>2. /\ pc'[p] = "idle" /\ rc'[p] = "0" /\ (p \in Writers => idx'[p] = 0 /\ slot'[p] = 0)
        /\ LocalTo(p)
    BY <2>1, Zenon DEF IInv, TypeOK, LocalTo
  <2>3. TypeOK' => Roles' /\ Results' /\ Cleared'
    BY <2>2, LocalIInv, Zenon DEF IInv, WLabels, RLabels, CLabels
  <2>4. TypeOK' <=> owner' \in Procs \cup {NoOne} /\ mutex' \in {"consistent", "ownerdead", "notrecoverable"}
    BY <1>1, <2>1, Zenon DEF IInv, TypeOK
  <2> QED
    BY <2>1, <2>2, <2>3, <2>4, Zenon
<1>6. CASE rc[p] = "ETIMEDOUT"
  <2>1. mutex' = "consistent" /\ owner' = NoOne /\ Return(p, "ACH_TIMEOUT")
    BY <1>3, <1>6, Zenon DEF check_lock, Unlock
  <2>2. TypeOK' /\ Roles' /\ Results' /\ Cleared'
    BY <1>5, <2>1, Zenon
  <2>3. LocalTo(p) /\ pc'[p] = "idle" /\ ret'.status = "ACH_TIMEOUT"
    BY <1>5, <2>1, Zenon
  <2>4. Mutex' /\ Exclusive' /\ NoFalseAlarm'
    BY <1>1, <1>2, <2>1, <2>2, <2>3, HolderIInv, Zenon DEF Section, Changing
  <2> QED
    BY <2>2, <2>4, Zenon DEF IInv
<1>7. CASE rc[p] # "ETIMEDOUT" /\ dirty
  <2>1. mutex' = "consistent" /\ owner' = NoOne /\ LockFailed(p, "ACH_CORRUPT")
    BY <1>3, <1>7, Zenon DEF check_lock
  <2>2. Interrupted
    <3>1. SUFFICES ASSUME HoldsMutex, DirtyMarksPut, ~ Interrupted PROVE FALSE
      BY Zenon DEF IInv, Exclusive
    <3>2. PICK w \in Writers : pc[w] \in Changing
      BY <1>7, <3>1, Zenon DEF DirtyMarksPut
    <3>3. owner = w
      BY <3>1, <3>2, Zenon DEF Interrupted, HoldsMutex, Section, Changing
    <3> QED
      BY <1>1, <1>2, <3>2, <3>3, Zenon DEF Changing
  <2>3. /\ TypeOK' /\ Roles' /\ Results' /\ Cleared' /\ LocalTo(p)
        /\ pc'[p] = "idle" \/ (pc'[p] = "head" /\ p \in Writers)
    <3>1. CASE p \in Writers
      <4>1. /\ pc' = [pc EXCEPT ![p] = "head"] /\ rc' = [rc EXCEPT ![p] = "0"]
            /\ UNCHANGED <<arg, idx, slot>>
        BY <1>4, <2>1, <3>1, Zenon DEF LockFailed
      <4>2. TypeOK' /\ LocalTo(p) /\ pc'[p] = "head" /\ rc'[p] = "0"
        BY <1>1, <2>1, <4>1, Zenon DEF IInv, TypeOK, LocalTo
      <4> QED
        BY <1>4, <3>1, <4>1, <4>2, LocalIInv, Zenon DEF IInv, WLabels
    <3>2. CASE p \notin Writers
      <4>1. Return(p, "ACH_CORRUPT")
        BY <1>4, <2>1, <3>2, Zenon DEF LockFailed, Procs
      <4> QED
        BY <1>5, <2>1, <4>1, Zenon
    <3> QED
      BY <3>1, <3>2, Zenon
  <2>4. Interrupted'
    BY <1>1, <2>2, <2>3, Zenon DEF Interrupted, LocalTo, Procs
  <2>5. Mutex'
    BY <1>1, <1>2, <2>1, <2>3, ZenonT(60) DEF IInv, TypeOK, Mutex, Recoverable, LocalTo, Section
  <2> QED
    BY <2>3, <2>4, <2>5, Zenon DEF IInv, Exclusive, NoFalseAlarm
<1>8. CASE rc[p] # "ETIMEDOUT" /\ ~ dirty
  <2>1. mutex' = "consistent" /\ owner' = p /\ Locked(p)
    BY <1>2, <1>3, <1>8, Zenon DEF check_lock
  <2>2. /\ rc' = [rc EXCEPT ![p] = "0"] /\ ret' = NoReturn /\ UNCHANGED <<arg, idx, slot>>
        /\ \E l \in {"mark", "test", "set", "unlock"} :
             /\ pc' = [pc EXCEPT ![p] = l]
             /\ p \in Writers => l = "mark"
             /\ p \in Readers => l = "test"
             /\ p \in Cancellers => l \in {"set", "unlock"}
    <3>1. CASE p \in Writers
      BY <1>4, <2>1, <3>1, Zenon DEF Locked
    <3>2. CASE p \in Readers
      BY <1>4, <2>1, <3>2, Zenon DEF Locked
    <3>3. CASE p \in Cancellers
      BY <1>4, <2>1, <3>3, Zenon DEF Locked
    <3> QED
      BY <3>1, <3>2, <3>3, Zenon DEF Procs
  <2>3. /\ TypeOK' /\ LocalTo(p) /\ rc'[p] = "0"
        /\ pc'[p] \in {"mark", "test", "set", "unlock"}
        /\ p \in Writers => pc'[p] = "mark"
        /\ p \in Readers => pc'[p] = "test"
        /\ p \in Cancellers => pc'[p] \in {"set", "unlock"}
    BY <1>1, <2>1, <2>2, ZenonT(60) DEF IInv, TypeOK, LocalTo
  <2>4. Roles' /\ Results' /\ Cleared'
    BY <1>4, <2>2, <2>3, LocalIInv, Zenon DEF IInv, WLabels, RLabels, CLabels
  <2>5. Mutex' /\ Exclusive' /\ NoFalseAlarm'
    BY <1>1, <1>2, <2>1, <2>2, <2>3, HolderIInv, Zenon DEF Section, Changing, NoReturn
  <2> QED
    BY <2>3, <2>4, <2>5, Zenon DEF IInv
<1> QED
  BY <1>6, <1>7, <1>8, Zenon

\* The end of wrlock(): the dirty bit is set.
LEMMA PutMarkIInv ==
  ASSUME IInv, NEW w \in Writers, PutMark(w)
  PROVE  IInv'
<1>1. /\ w \in alive /\ w \in Procs /\ w \notin Readers /\ w \notin Cancellers
      /\ pc[w] = "mark" /\ pc' = [pc EXCEPT ![w] = "head"]
      /\ dirty' = TRUE /\ ret' = NoReturn
      /\ UNCHANGED <<owner, mutex, alive, arg, rc, idx, slot, cancel>>
  BY RolesAssumption, Zenon DEF PutMark, At, Goto, handles, Procs
<1>2. owner = w
  BY <1>1, HoldsIt, Zenon DEF Section
<1>3. TypeOK' /\ LocalTo(w) /\ pc'[w] = "head"
  BY <1>1, Zenon DEF IInv, TypeOK, LocalTo
<1>4. /\ rc'[w] = "0" /\ idx'[w] = 0 /\ slot'[w] = 0
      /\ arg'[w] \in PutCalls /\ arg'[w].len \in 1 .. DataSize
  BY <1>1, SMTT(30) DEF IInv, Roles, Results, Cleared
<1>5. Roles' /\ Results' /\ Cleared'
  BY <1>1, <1>3, <1>4, LocalIInv, Zenon DEF IInv, WLabels
<1>6. Mutex'
  BY <1>1, <1>2, <1>3, Zenon DEF IInv, TypeOK, Mutex, Recoverable, Section, LocalTo
<1>7. Interrupted' <=> Interrupted
  BY <1>1, <1>3, Zenon DEF Interrupted, LocalTo, Procs
<1>8. ~ Interrupted => HoldsMutex' /\ DirtyMarksPut'
  BY <1>1, <1>2, <1>3, Zenon DEF IInv, TypeOK, Exclusive, HoldsMutex, DirtyMarksPut, LocalTo, Section, Changing, Procs
<1> QED
  BY <1>1, <1>3, <1>5, <1>6, <1>7, <1>8, Zenon DEF IInv, Exclusive, NoFalseAlarm, NoReturn

\* unwrlock() clears the dirty bit.
LEMMA PutCleanIInv ==
  ASSUME IInv, NEW w \in Writers, PutClean(w)
  PROVE  IInv'
<1>1. /\ w \in alive /\ w \in Procs /\ w \notin Readers /\ w \notin Cancellers
      /\ pc[w] = "clean" /\ pc' = [pc EXCEPT ![w] = "unlock"]
      /\ dirty' = FALSE /\ ret' = NoReturn
      /\ UNCHANGED <<owner, mutex, alive, arg, rc, idx, slot, cancel>>
  BY RolesAssumption, Zenon DEF PutClean, At, Goto, handles, Procs
<1>2. TypeOK' /\ LocalTo(w) /\ pc'[w] = "unlock"
  BY <1>1, Zenon DEF IInv, TypeOK, LocalTo
<1>3. /\ rc'[w] = "0" /\ arg'[w] \in PutCalls /\ arg'[w].len \in 1 .. DataSize
  BY <1>1, Zenon DEF IInv, Roles, Results
<1>4. Roles' /\ Results' /\ Cleared'
  BY <1>1, <1>2, <1>3, LocalIInv, Zenon DEF IInv, WLabels
<1>5. Mutex'
  BY <1>1, <1>2, NoOneAssumption, ZenonT(60) DEF IInv, TypeOK, Mutex, Recoverable, Section, LocalTo
<1>6. Interrupted' <=> Interrupted
  BY <1>1, <1>2, Zenon DEF Interrupted, LocalTo, Procs
<1>7. ASSUME ~ Interrupted
      PROVE  HoldsMutex' /\ DirtyMarksPut'
  <2>1. HoldsMutex /\ owner = w
    BY <1>1, <1>7, Zenon DEF IInv, Exclusive, HoldsMutex, Section
  <2>2. HoldsMutex'
    BY <1>1, <1>2, <2>1, Zenon DEF IInv, TypeOK, HoldsMutex, LocalTo, Section
  <2>3. ASSUME NEW v \in Writers, v # w
        PROVE  pc'[v] \notin Changing
    <3>1. pc'[v] = pc[v]
      BY <1>2, <2>3, Zenon DEF LocalTo, Procs
    <3>2. pc[v] \in Changing => v \in alive
      BY <1>7, Zenon DEF Interrupted
    <3> QED
      BY <2>1, <2>3, <3>1, <3>2, Zenon DEF HoldsMutex, Section, Changing
  <2> QED
    BY <1>1, <1>2, <2>2, <2>3, Zenon DEF DirtyMarksPut, Changing
<1> QED
  BY <1>1, <1>2, <1>4, <1>5, <1>6, <1>7, ZenonT(60) DEF IInv, Exclusive, NoFalseAlarm, NoReturn

\* unwrlock() gives the mutex back, or fails to because it was not held.
LEMMA PutUnlockIInv ==
  ASSUME IInv, NEW w \in Writers, PutUnlock(w)
  PROVE  IInv'
<1>1. w \in alive /\ w \in Procs /\ w \notin Readers /\ w \notin Cancellers /\ pc[w] = "unlock"
  BY RolesAssumption, Zenon DEF PutUnlock, At, Procs
<1>2. rc[w] = "0" /\ arg[w] \in PutCalls /\ arg[w].len \in 1 .. DataSize
  BY <1>1, Zenon DEF IInv, Roles, Results
<1>3. CASE owner = w
  <2>1. mutex = "consistent"
    BY <1>1, <1>3, NoOneAssumption, Zenon DEF IInv, TypeOK, Mutex, Recoverable
  <2>2. /\ pc' = [pc EXCEPT ![w] = "broadcast"] /\ owner' = NoOne /\ mutex' = "consistent"
        /\ ret' = NoReturn /\ UNCHANGED <<dirty, alive, arg, rc, idx, slot, cancel>>
    BY <1>3, <2>1, Zenon DEF PutUnlock, UnlockOr, Unlock, Goto, handles
  <2>3. TypeOK' /\ LocalTo(w) /\ pc'[w] = "broadcast"
    BY <1>1, <2>2, SMTT(30) DEF IInv, TypeOK, LocalTo
  <2>4. Roles' /\ Results' /\ Cleared'
    BY <1>1, <1>2, <2>2, <2>3, LocalIInv, Zenon DEF IInv, WLabels
  <2>5. Mutex' /\ Exclusive' /\ NoFalseAlarm'
    BY <1>1, <1>3, <2>2, <2>3, HolderIInv, Zenon DEF Section, Changing, NoReturn
  <2> QED
    BY <2>3, <2>4, <2>5, Zenon DEF IInv
<1>4. CASE owner # w
  <2>1. /\ pc' = [pc EXCEPT ![w] = "idle"] /\ arg' = [arg EXCEPT ![w] = NoCall]
        /\ rc' = [rc EXCEPT ![w] = "0"]
        /\ idx' = [v \in Writers |-> IF v = w THEN 0 ELSE idx[v]]
        /\ slot' = [v \in Writers |-> IF v = w THEN 0 ELSE slot[v]]
        /\ ret'.status = "ACH_FAILED_SYSCALL" /\ UNCHANGED <<owner, mutex, dirty, alive, cancel>>
    BY <1>4 DEF PutUnlock, UnlockOr, Return, handles
  <2>2. TypeOK'
    BY <1>1, <2>1, Zenon DEF IInv, TypeOK
  <2>3. LocalTo(w) /\ pc'[w] = "idle" /\ rc'[w] = "0" /\ idx'[w] = 0 /\ slot'[w] = 0
    BY <1>1, <2>1, SMTT(30) DEF IInv, TypeOK, LocalTo
  <2>4. Roles' /\ Results' /\ Cleared'
    BY <1>1, <2>2, <2>3, LocalIInv, Zenon DEF IInv, WLabels
  <2>5. ~ HoldsMutex
    BY <1>1, <1>4, Zenon DEF HoldsMutex, Section
  <2>6. Interrupted
    BY <2>5, SMTT(30) DEF IInv, Exclusive
  <2>7. Interrupted'
    BY <1>1, <2>1, <2>3, <2>6, SMTT(30) DEF Interrupted, LocalTo, Procs, Changing
  <2>8. Mutex'
    BY <1>1, <1>4, <2>1, <2>3, NoOneAssumption, SMTT(30) DEF IInv, TypeOK, Mutex, Recoverable, LocalTo, Section
  <2> QED
    BY <2>2, <2>4, <2>7, <2>8, ZenonT(60) DEF IInv, Exclusive, NoFalseAlarm
<1> QED
  BY <1>3, <1>4, Zenon

\* The broadcast wakes those who wait and ends the call.
LEMMA BroadcastIInv ==
  ASSUME IInv, NEW p \in Procs, Broadcast(p)
  PROVE  IInv'
<1>1. /\ p \in alive /\ pc[p] = "broadcast"
      /\ pc' = [q \in Procs |-> IF q = p THEN "idle"
                                ELSE IF pc[q] = "wait" /\ q \in alive THEN "relock" ELSE pc[q]]
      /\ arg' = [arg EXCEPT ![p] = NoCall] /\ rc' = rc
      /\ idx' = [w \in Writers |-> IF w = p THEN 0 ELSE idx[w]]
      /\ slot' = [w \in Writers |-> IF w = p THEN 0 ELSE slot[w]]
      /\ ret'.status = "ACH_OK" /\ UNCHANGED <<owner, mutex, dirty, alive, cancel>>
  BY Zenon DEF Broadcast, At, sync, handles
<1>2. TypeOK'
  BY <1>1, SMTT(30) DEF IInv, TypeOK
<1>3. \A q \in Procs : \/ pc'[q] = pc[q] /\ q # p
                       \/ pc[q] = "wait" /\ pc'[q] = "relock" /\ q # p
                       \/ pc[q] = "broadcast" /\ pc'[q] = "idle" /\ q = p
  BY <1>1, SMTT(30)
<1>4. Roles'
  BY <1>1, <1>3, RolesAssumption, SMTT(30) DEF IInv, TypeOK, Roles, WLabels, RLabels, CLabels, Procs
<1>5. Results'
  BY <1>1, <1>3, SMTT(30) DEF IInv, Results
<1>6. Cleared'
  BY <1>1, <1>3, Zenon DEF IInv, Roles, WLabels, Cleared, Procs
<1>7. \A q \in Procs : /\ pc'[q] \in Changing <=> pc[q] \in Changing
                       /\ pc'[q] \in Section <=> pc[q] \in Section
                       /\ pc[q] \in Section => pc'[q] = pc[q]
  BY <1>3, Zenon DEF Section, Changing
<1>8. alive \subseteq Procs /\ Writers \subseteq Procs
  BY SMTT(30) DEF IInv, TypeOK, Procs
<1>9. Mutex'
  BY <1>1, <1>7, <1>8, SMTT(30) DEF IInv, Mutex, Recoverable
<1>10. Interrupted' <=> Interrupted
  BY <1>1, <1>7, <1>8, SMTT(30) DEF Interrupted
<1>11. ~ Interrupted => HoldsMutex' /\ DirtyMarksPut'
  BY <1>1, <1>7, <1>8, Zenon DEF IInv, Exclusive, HoldsMutex, DirtyMarksPut
<1> QED
  BY <1>1, <1>2, <1>4, <1>5, <1>6, <1>9, <1>10, <1>11, SMTT(30) DEF IInv, Exclusive, NoFalseAlarm

\* A process is killed.
LEMMA DieIInv ==
  ASSUME IInv, NEW p \in Procs, Die(p)
  PROVE  IInv'
<1>1. /\ p \in alive /\ alive' = alive \ {p}
      /\ \/ owner = p /\ owner' = NoOne /\ mutex' = "ownerdead"
         \/ owner # p /\ owner' = owner /\ mutex' = mutex
      /\ ret' = NoReturn /\ UNCHANGED <<dirty, pc, arg, rc, idx, slot, cancel>>
  BY Zenon DEF Die, locals, handles
<1>2. TypeOK'
  BY <1>1, SMTT(30) DEF IInv, TypeOK
<1>3. Roles' /\ Results' /\ Cleared'
  BY <1>1, SMTT(30) DEF IInv, Roles, Results, Cleared
<1>4. Mutex'
  BY <1>1, Zenon DEF IInv, Mutex, Recoverable
<1>5. Interrupted => Interrupted'
  BY <1>1, Zenon DEF Interrupted
<1>6. ~ Interrupted => HoldsMutex' /\ DirtyMarksPut'
  BY <1>1, NoOneAssumption, Zenon DEF IInv, TypeOK, Exclusive, HoldsMutex, DirtyMarksPut
<1> QED
  BY <1>1, <1>2, <1>3, <1>4, <1>5, <1>6, Zenon DEF IInv, Exclusive, NoFalseAlarm, NoReturn

-----------------------------------------------------------------------------
\* A channel that nobody uses yet.
LEMMA InitIInv == Init => IInv
<1> SUFFICES ASSUME Init
             PROVE  IInv
  BY Zenon
<1> USE DEF Init
<1>1. TypeOK /\ Roles /\ Results /\ Cleared
  BY Zenon DEF TypeOK, Roles, Results, Cleared, WLabels, RLabels, CLabels, Procs
<1>2. Mutex /\ Exclusive /\ NoFalseAlarm
  BY NoOneAssumption, Zenon DEF Mutex, Recoverable, Exclusive, HoldsMutex, DirtyMarksPut, NoFalseAlarm, NoReturn,
     Section, Changing, Procs
<1> QED
  BY <1>1, <1>2, Zenon DEF IInv

\* Every step keeps the invariant.
LEMMA NextIInv == IInv /\ [Next]_vars => IInv'
<1> SUFFICES ASSUME IInv, [Next]_vars
             PROVE  IInv'
  BY Zenon
<1> USE DEF Procs
<1>1. ASSUME NEW p \in Procs, Lock(p) \/ Die(p)
      PROVE  IInv'
  BY <1>1, LockIInv, DieIInv, Zenon
<1>2. ASSUME NEW w \in Writers, PutCall(w)
      PROVE  IInv'
  <2>1. PICK a \in PutCalls : a.len \in 1 .. DataSize /\ Call(w, a)
    BY <1>2, Zenon DEF PutCall
  <2>2. UNCHANGED <<sync, alive>> /\ cancel' \in [Readers -> BOOLEAN]
    BY <1>2, Zenon DEF PutCall, handles, IInv, TypeOK
  <2> QED
    BY <2>1, <2>2, CallIInv, Zenon
<1>3. ASSUME NEW w \in Writers, PutStep(w)
      PROVE  IInv'
  BY <1>3, CheckIInv, PutMarkIInv, PutIInv, PutCleanIInv, PutUnlockIInv, BroadcastIInv, ZenonT(60) DEF PutStep
<1>4. ASSUME NEW r \in Readers, GetCall(r)
      PROVE  IInv'
  <2>1. PICK a \in GetCalls \cup {FlushCall} : Call(r, a)
    BY <1>4, SMTT(30) DEF GetCall
  <2>2. UNCHANGED <<sync, alive>> /\ cancel' \in [Readers -> BOOLEAN]
    BY <1>4, Zenon DEF GetCall, handles, IInv, TypeOK
  <2> QED
    BY <2>1, <2>2, CallIInv, Zenon
<1>5. ASSUME NEW r \in Readers, WakeUp(r) \/ GetStep(r)
      PROVE  IInv'
  BY <1>5, WakeIInv, CheckIInv, ReadIInv, Zenon DEF GetStep
<1>6. ASSUME NEW c \in Cancellers, CancelCall(c)
      PROVE  IInv'
  <2>1. PICK a \in CancelCalls :
          Call(c, a) /\ cancel' = [cancel EXCEPT ![a.target] = @ \/ ~ a.async_unsafe]
    BY <1>6, Zenon DEF CancelCall
  <2>2. cancel' \in [Readers -> BOOLEAN]
    BY <2>1, Zenon DEF CancelCalls, IInv, TypeOK
  <2>3. UNCHANGED <<sync, alive>>
    BY <1>6, Zenon DEF CancelCall
  <2> QED
    BY <2>1, <2>2, <2>3, CallIInv, Zenon
<1>7. ASSUME NEW c \in Cancellers, CancelFork(c) \/ CancelStep(c)
      PROVE  IInv'
  BY <1>7, CancelForkIInv, CheckIInv, CancelIInv, BroadcastIInv, Zenon DEF CancelStep
<1>8. CASE UNCHANGED vars
  <2>1. UNCHANGED <<owner, mutex, dirty, alive, pc, arg, rc, idx, slot, ret, cancel>>
    BY <1>8, SMTT(30) DEF vars, sync, locals, handles
  <2>2. TypeOK' /\ Roles' /\ Results' /\ Cleared'
    BY <2>1, SMTT(30) DEF IInv, TypeOK, Roles, Results, Cleared
  <2>3. Mutex' /\ Exclusive' /\ NoFalseAlarm'
    BY <2>1, Zenon DEF IInv, Mutex, Recoverable, Exclusive, Interrupted, HoldsMutex, DirtyMarksPut, NoFalseAlarm
  <2> QED
    BY <2>2, <2>3, Zenon DEF IInv
<1> QED
  BY <1>1, <1>2, <1>3, <1>4, <1>5, <1>6, <1>7, <1>8, ZenonT(60) DEF Next

\* The invariant of the channel, whoever is killed and wherever.
THEOREM Invariance == Spec => []IInv
<1> QED
  BY InitIInv, NextIInv, PTL DEF Spec

\* The variables keep their types.
THEOREM TypeCorrect == Spec => []TypeOK
<1>1. IInv => TypeOK
  BY SMTT(30) DEF IInv
<1> QED
  BY <1>1, Invariance, PTL

\* "we always mark the mutex as consistent": check_lock() never finds the mutex
\* ENOTRECOVERABLE, however many of its holders die.
THEOREM RecoverableHolds == Spec => []Recoverable
<1>1. IInv => Recoverable
  BY Zenon DEF IInv, Mutex
<1> QED
  BY <1>1, Invariance, PTL

\* check_lock() reports ACH_CORRUPT only after a writer was killed in a put:
\* no death elsewhere, of a reader, a canceller or a writer, raises the alarm.
THEOREM NoFalseAlarmHolds == Spec => []NoFalseAlarm
<1>1. IInv => NoFalseAlarm
  BY Zenon DEF IInv
<1> QED
  BY <1>1, Invariance, PTL

\* Until a put is cut short, the mutex excludes and the dirty bit tells, also
\* when processes are killed outside a put.
THEOREM ExclusiveHolds == Spec => [](Interrupted \/ (HoldsMutex /\ DirtyMarksPut))
<1>1. IInv => Interrupted \/ (HoldsMutex /\ DirtyMarksPut)
  BY Zenon DEF IInv, Exclusive
<1> QED
  BY <1>1, Invariance, PTL

-----------------------------------------------------------------------------
\* No writer can be killed.
WritersSurvive == Mortal \cap Writers = {}

\* Then all of them stay alive.
LEMMA Survival ==
  ASSUME WritersSurvive
  PROVE  Spec => [](Writers \subseteq alive)
<1>1. Init => Writers \subseteq alive
  BY Zenon DEF Init, Procs
<1>2. Writers \subseteq alive /\ [Next]_vars => (Writers \subseteq alive)'
  <2> SUFFICES ASSUME Writers \subseteq alive, [Next]_vars
               PROVE  Writers \subseteq alive'
    BY Zenon
  <2>1. ASSUME NEW p \in Procs, Die(p)
        PROVE  Writers \subseteq alive'
    BY <2>1, Zenon DEF Die, WritersSurvive
  <2>2. ASSUME NEW p, Lock(p) \/ check_lock(p) \/ Broadcast(p)
        PROVE  alive' = alive
    BY <2>2, Zenon DEF Lock, check_lock, Broadcast
  <2>3. ASSUME NEW w, PutCall(w) \/ PutStep(w)
        PROVE  alive' = alive
    BY <2>2, <2>3, Zenon DEF PutCall, PutStep, PutMark, PutHead, PutFree, PutCopy, PutIndex, PutAdvance,
       PutClean, PutUnlock
  <2>4. ASSUME NEW r, GetCall(r) \/ WakeUp(r) \/ GetStep(r)
        PROVE  alive' = alive
    BY <2>2, <2>4, ZenonT(60) DEF GetCall, WakeUp, GetStep, RdTest, RdSleep, GetRead, FlushRead, GetUnlock
  <2>5. ASSUME NEW c, CancelCall(c) \/ CancelFork(c) \/ CancelStep(c)
        PROVE  alive' = alive
    BY <2>2, <2>5, Zenon DEF CancelCall, CancelFork, CancelStep, CancelSet, CancelUnlock
  <2>6. CASE UNCHANGED vars
    BY <2>6, Zenon DEF vars
  <2> QED
    BY <2>1, <2>2, <2>3, <2>4, <2>5, <2>6, Zenon DEF Next
<1> QED
  BY <1>1, <1>2, PTL DEF Spec

\* Then no put is cut short.
LEMMA NotCut ==
  ASSUME WritersSurvive
  PROVE  Spec => []~ Interrupted
<1>1. Writers \subseteq alive => ~ Interrupted
  BY Zenon DEF Interrupted
<1> QED
  BY <1>1, Survival, PTL

\* While writers live, whoever is between taking and releasing the mutex holds it,
\* for any number of processes and whichever readers and cancellers are killed.
THEOREM HoldsMutexHolds ==
  ASSUME WritersSurvive
  PROVE  Spec => []HoldsMutex
<1>1. IInv /\ Writers \subseteq alive => HoldsMutex
  BY Zenon DEF IInv, Exclusive, Interrupted
<1> QED
  BY <1>1, Invariance, Survival, PTL

\* While writers live, the dirty bit is set exactly while one changes the ring.
THEOREM DirtyMarksPutHolds ==
  ASSUME WritersSurvive
  PROVE  Spec => []DirtyMarksPut
<1>1. IInv /\ Writers \subseteq alive => DirtyMarksPut
  BY Zenon DEF IInv, Exclusive, Interrupted
<1> QED
  BY <1>1, Invariance, Survival, PTL


-----------------------------------------------------------------------------
(* What the assertions in the code say, and what a put that was cut short leaves. *)

\* A put that is cut short is the last one: there is one writer, or none is killed.
OneWriter == \E w : Writers = {w}
LastPut == OneWriter \/ WritersSurvive

\* Where a process is past check_lock().
Past == Section \ {"check", "recheck"}

\* The dirty bit is set, and nobody gets past check_lock().
Still == dirty /\ \A p \in alive : pc[p] \notin Past
Frozen == Interrupted => Still

\* No sequence number is beyond the last one.
Numbers ==
  /\ index_head \in 0 .. IndexCnt - 1 /\ index_free \in Int /\ last_seq \in Nat
  /\ DOMAIN index_ar = 0 .. IndexCnt - 1
  /\ \A i \in 0 .. IndexCnt - 1 : index_ar[i].seq_num \in 0 .. last_seq
  /\ seq_num \in [Readers -> Nat] /\ \A r \in Readers : seq_num[r] <= last_seq
  /\ next_index \in [Readers -> Nat]

\* A reader that was to wait reads when there is something new.
New ==
  \A r \in Readers \cap alive : pc[r] = "read" /\ waits(r) /\ ~ Interrupted => seq_num[r] # last_seq

\* A step of p that neither changes the ring nor reads a frame.
Apart(p) ==
  /\ UNCHANGED <<shm, seq_num, next_index>>
  /\ dirty' = dirty \/ p \in Writers
  /\ pc[p] \notin Past /\ p \notin Writers /\ dirty => pc'[p] \notin Past
  /\ pc'[p] = "read" => arg'[p] = arg[p] /\ (waits(p) => seq_num[p] # last_seq)

\* A step of p, by what it does.
StepOf(p) ==
  /\ p \in alive /\ alive' = alive
  /\ \A q \in Procs \ {p} :
       /\ pc'[q] = pc[q] \/ (q \in alive /\ pc[q] = "wait" /\ pc'[q] = "relock")
       /\ arg'[q] = arg[q]
  /\ \/ Apart(p)
     \/ /\ p \in Writers /\ pc[p] \in Past /\ pc'[p] \in Past /\ UNCHANGED <<seq_num, next_index, dirty>>
        /\ PutHead(p) \/ PutFree(p) \/ PutCopy(p) \/ PutIndex(p) \/ PutAdvance(p)
     \/ /\ p \in Readers /\ pc[p] = "read" /\ pc'[p] = "unlock" /\ UNCHANGED <<shm, dirty>>
        /\ GetRead(p) \/ FlushRead(p)

\* A process moves alone, by Goto, Call or Return.
LEMMA AloneMoves ==
  ASSUME TypeOK, NEW p \in Procs, pc' = pc \/ \E l : pc' = [pc EXCEPT ![p] = l],
         arg' = arg \/ \E a : arg' = [arg EXCEPT ![p] = a]
  PROVE  \A q \in Procs \ {p} : pc'[q] = pc[q] /\ arg'[q] = arg[q]
<1>1. DOMAIN pc = Procs /\ DOMAIN arg = Procs
  BY Zenon DEF TypeOK
<1>2. \A q \in Procs \ {p} : pc'[q] = pc[q]
  BY <1>1, Zenon
<1>3. \A q \in Procs \ {p} : arg'[q] = arg[q]
  BY <1>1, Zenon
<1> QED
  BY <1>2, <1>3, Zenon

\* Locking, and check_lock(), which lets nobody but a writer past when the dirty bit
\* is set.
LEMMA LockStepOf ==
  ASSUME IInv, NEW p \in Procs, Lock(p) \/ check_lock(p)
  PROVE  StepOf(p)
<1>1. /\ p \in alive /\ alive' = alive /\ UNCHANGED <<shm, seq_num, next_index, dirty>>
      /\ pc[p] \in {"lock", "relock", "check", "recheck"}
  BY Zenon DEF Lock, check_lock, At, handles
<1>2. TypeOK /\ DOMAIN pc = Procs
  BY Zenon DEF IInv, TypeOK
<1>3. CASE Lock(p)
  <2>1. PICK l \in {"check", "recheck"} : pc' = [pc EXCEPT ![p] = l]
    BY <1>3, Zenon DEF Lock
  <2>2. arg' = arg /\ pc'[p] = l
    BY <1>2, <1>3, <2>1, Zenon DEF Lock
  <2>3. \A q \in Procs \ {p} : pc'[q] = pc[q] /\ arg'[q] = arg[q]
    BY <1>2, <2>1, <2>2, AloneMoves, ZenonT(60)
  <2>4. Apart(p)
    BY <1>1, <2>1, <2>2, ZenonT(60) DEF Apart, Past
  <2> QED
    BY <1>1, <2>3, <2>4, Zenon DEF StepOf
<1>4. CASE check_lock(p)
  <2>1. rc[p] \in {"0", "ETIMEDOUT", "EOWNERDEAD"} /\ pc[p] \in {"check", "recheck"}
    BY <1>4, Zenon DEF check_lock, At, IInv, Results
  <2>2. \/ \E s : Return(p, s)
        \/ dirty /\ LockFailed(p, "ACH_CORRUPT")
        \/ ~ dirty /\ Locked(p)
    BY <1>4, <2>1, Zenon DEF check_lock
  <2>3. (p \in Writers <=> arg[p].call = "put") /\ arg[p].call \in {"put", "get", "flush", "cancel"}
    <3>1. /\ p \in Writers => arg[p] \in PutCalls
          /\ p \in Readers => arg[p] \in GetCalls \cup {FlushCall}
          /\ p \in Cancellers => arg[p] \in CancelCalls
      BY <2>1, Zenon DEF IInv, Roles
    <3>2. /\ \A a \in PutCalls : a.call = "put"
          /\ \A a \in GetCalls : a.call = "get"
          /\ FlushCall.call = "flush"
          /\ \A a \in CancelCalls : a.call = "cancel"
      BY DEF PutCalls, GetCalls, FlushCall, CancelCalls
    <3> QED
      BY <3>1, <3>2, RolesAssumption, Zenon DEF Procs
  <2>4. PICK l : /\ pc' = [pc EXCEPT ![p] = l] /\ l # "read"
                 /\ l = "idle" \/ p \in Writers \/ ~ dirty
    <3>1. CASE \E s : Return(p, s)
      BY <3>1, Zenon DEF Return
    <3>2. CASE dirty /\ LockFailed(p, "ACH_CORRUPT")
      BY <2>3, <3>2, Zenon DEF LockFailed, Return
    <3>3. CASE ~ dirty /\ Locked(p)
      <4>1. CASE arg[p].call = "put"
        BY <3>3, <4>1, Zenon DEF Locked
      <4>2. CASE arg[p].call \in {"get", "flush"}
        BY <3>3, <4>2, Zenon DEF Locked
      <4>3. CASE arg[p].call = "cancel"
        BY <3>3, <4>3, Zenon DEF Locked
      <4> QED
        BY <2>3, <4>1, <4>2, <4>3, Zenon
    <3> QED
      BY <2>2, <3>1, <3>2, <3>3, Zenon
  <2>5. arg' = arg \/ arg' = [arg EXCEPT ![p] = NoCall]
    BY <2>2, Zenon DEF Return, LockFailed, Locked
  <2>6. \A q \in Procs \ {p} : pc'[q] = pc[q] /\ arg'[q] = arg[q]
    BY <1>2, <2>4, <2>5, AloneMoves, Zenon
  <2>7. pc'[p] = l
    BY <1>2, <2>4, Zenon
  <2>8. Apart(p)
    BY <1>1, <2>4, <2>7, Zenon DEF Apart, Past, Section
  <2> QED
    BY <1>1, <2>6, <2>8, Zenon DEF StepOf
<1> QED
  BY <1>3, <1>4, Zenon

\* The broadcast wakes those who wait.
LEMMA BroadcastStepOf ==
  ASSUME IInv, NEW p \in Procs, Broadcast(p)
  PROVE  StepOf(p)
<1>1. /\ p \in alive /\ alive' = alive /\ UNCHANGED <<shm, seq_num, next_index, dirty>>
      /\ pc' = [q \in Procs |-> IF q = p THEN "idle"
                                ELSE IF pc[q] = "wait" /\ q \in alive THEN "relock" ELSE pc[q]]
      /\ arg' = [arg EXCEPT ![p] = NoCall]
  BY Zenon DEF Broadcast, At, sync, handles
<1>2. DOMAIN arg = Procs
  BY Zenon DEF IInv, TypeOK
<1>3. pc'[p] = "idle" /\ \A q \in Procs \ {p} : pc'[q] = pc[q] \/ (q \in alive /\ pc[q] = "wait" /\ pc'[q] = "relock")
  BY <1>1, Zenon
<1>4. \A q \in Procs \ {p} : arg'[q] = arg[q]
  BY <1>1, <1>2, Zenon
<1>5. Apart(p)
  BY <1>1, <1>3, Zenon DEF Apart, Past, Section
<1> QED
  BY <1>1, <1>3, <1>4, <1>5, Zenon DEF StepOf

\* The steps of a put past check_lock(), and its beginning.
LEMMA PutStepOf ==
  ASSUME IInv, NEW w \in Writers,
         \/ PutCall(w) \/ PutMark(w) \/ PutHead(w) \/ PutFree(w) \/ PutCopy(w)
         \/ PutIndex(w) \/ PutAdvance(w) \/ PutClean(w) \/ PutUnlock(w)
  PROVE  StepOf(w)
<1>1. TypeOK /\ DOMAIN pc = Procs /\ w \in Procs
  BY Zenon DEF IInv, TypeOK, Procs
<1>2. /\ w \in alive /\ alive' = alive /\ UNCHANGED <<seq_num, next_index>>
      /\ arg' = arg \/ \E a : arg' = [arg EXCEPT ![w] = a]
  BY Zenon DEF PutCall, PutMark, PutHead, PutFree, PutCopy, PutIndex, PutAdvance, PutClean, PutUnlock,
               At, Call, Goto, Return, UnlockOr, handles
<1>3. CASE PutCall(w) \/ PutMark(w) \/ PutClean(w) \/ PutUnlock(w)
  <2>1. PICK l \in {"lock", "head", "unlock", "broadcast", "idle"} : pc' = [pc EXCEPT ![w] = l]
    BY <1>3, Zenon DEF PutCall, PutMark, PutClean, PutUnlock, Call, Goto, Return, UnlockOr
  <2>2. \A q \in Procs \ {w} : pc'[q] = pc[q] /\ arg'[q] = arg[q]
    BY <1>1, <1>2, <2>1, AloneMoves, Zenon
  <2>3. pc'[w] # "read" /\ UNCHANGED shm
    BY <1>1, <1>3, <2>1, Zenon DEF PutCall, PutMark, PutClean, PutUnlock
  <2>4. Apart(w)
    BY <1>2, <2>3, Zenon DEF Apart
  <2> QED
    BY <1>2, <2>2, <2>4, ZenonT(60) DEF StepOf
<1>4. CASE PutHead(w) \/ PutFree(w) \/ PutCopy(w) \/ PutIndex(w) \/ PutAdvance(w)
  <2>1. pc[w] \in Past /\ dirty' = dirty /\ arg' = arg
    BY <1>4, Zenon DEF PutHead, PutFree, PutCopy, PutIndex, PutAdvance, At, Past, Section, sync, Goto
  <2>2. pc' = pc \/ \E l \in {"free", "index", "advance", "clean"} : pc' = [pc EXCEPT ![w] = l]
    BY <1>4, Zenon DEF PutHead, PutFree, PutCopy, PutIndex, PutAdvance, Goto
  <2>3. \A q \in Procs \ {w} : pc'[q] = pc[q] /\ arg'[q] = arg[q]
    BY <1>1, <2>1, <2>2, AloneMoves, ZenonT(60)
  <2>4. pc'[w] \in Past
    BY <1>1, <2>1, <2>2, Zenon DEF Past, Section
  <2> QED
    BY <1>2, <1>4, <2>1, <2>3, <2>4, ZenonT(60) DEF StepOf
<1> QED
  BY <1>3, <1>4, Zenon

\* The steps of readers and cancellers.
LEMMA OtherStepOf ==
  ASSUME IInv, NEW p \in Procs,
         \/ p \in Readers /\ (GetCall(p) \/ WakeUp(p) \/ RdTest(p) \/ RdSleep(p) \/ GetRead(p) \/ FlushRead(p) \/ GetUnlock(p))
         \/ p \in Cancellers /\ (CancelCall(p) \/ CancelFork(p) \/ CancelSet(p) \/ CancelUnlock(p))
  PROVE  StepOf(p)
<1>1. TypeOK /\ DOMAIN pc = Procs
  BY Zenon DEF IInv, TypeOK
<1>2. p \in alive /\ alive' = alive /\ dirty' = dirty
  BY Zenon DEF GetCall, WakeUp, RdTest, RdSleep, GetRead, FlushRead, GetUnlock, CancelCall, CancelFork,
               CancelSet, CancelUnlock, At, Call, sync
<1>3. arg' = arg \/ \E a : arg' = [arg EXCEPT ![p] = a]
  BY Zenon DEF GetCall, WakeUp, RdTest, RdSleep, GetRead, FlushRead, GetUnlock, CancelCall, CancelFork,
               CancelSet, CancelUnlock, Call, Goto, Return, UnlockOr, locals
<1>4. ASSUME pc' = pc \/ \E l : pc' = [pc EXCEPT ![p] = l]
      PROVE  \A q \in Procs \ {p} : pc'[q] = pc[q] /\ arg'[q] = arg[q]
  BY <1>1, <1>3, <1>4, AloneMoves, Zenon
<1>5. CASE GetRead(p) \/ FlushRead(p)
  <2>1. pc[p] = "read" /\ pc' = [pc EXCEPT ![p] = "unlock"] /\ UNCHANGED shm
    BY <1>5, Zenon DEF GetRead, FlushRead, At
  <2>2. p \in Readers
    BY <1>1, <2>1, Zenon DEF IInv, Roles, WLabels, CLabels, Procs
  <2> QED
    BY <1>1, <1>2, <1>4, <1>5, <2>1, <2>2, ZenonT(60) DEF StepOf
<1>6. CASE RdTest(p) /\ p \in Readers
  <2>1. pc[p] = "test" /\ UNCHANGED <<shm, seq_num, next_index>>
    BY <1>6, Zenon DEF RdTest, At, handles
  <2>2. PICK l : /\ pc' = [pc EXCEPT ![p] = l]
                 /\ l = "read" => arg' = arg /\ (waits(p) => seq_num[p] # last_seq)
    <3>1. CASE cancel[p]
      BY <1>6, <3>1, ZenonT(60) DEF RdTest, Return
    <3>2. CASE ~ cancel[p] /\ (~ waits(p) \/ seq_num[p] # last_seq)
      BY <1>6, <3>2, Zenon DEF RdTest, Goto
    <3>3. CASE ~ cancel[p] /\ ~ (~ waits(p) \/ seq_num[p] # last_seq)
      BY <1>6, <3>3, Zenon DEF RdTest, Goto
    <3> QED
      BY <3>1, <3>2, <3>3, Zenon
  <2>3. pc'[p] = l
    BY <1>1, <2>2, Zenon
  <2>4. pc[p] \in Past
    BY <2>1, Zenon DEF Past, Section
  <2>5. Apart(p)
    BY <1>2, <2>1, <2>2, <2>3, <2>4, Zenon DEF Apart
  <2> QED
    BY <1>2, <1>4, <2>2, <2>5, ZenonT(60) DEF StepOf
<1>7. CASE \/ p \in Readers /\ (GetCall(p) \/ WakeUp(p) \/ RdSleep(p) \/ GetUnlock(p))
           \/ p \in Cancellers /\ (CancelCall(p) \/ CancelFork(p) \/ CancelSet(p) \/ CancelUnlock(p))
  <2>1. UNCHANGED <<shm, seq_num, next_index>>
    BY <1>7, Zenon DEF GetCall, WakeUp, RdSleep, GetUnlock, CancelCall, CancelFork, CancelSet, CancelUnlock, handles
  <2>2. \/ pc' = pc /\ pc[p] = "idle"
        \/ \E l \in {"lock", "relock", "wait", "idle", "broadcast"} : pc' = [pc EXCEPT ![p] = l]
        \/ pc[p] = "set" /\ pc' = [pc EXCEPT ![p] = "unlock"]
    BY <1>7, Zenon DEF GetCall, WakeUp, RdSleep, GetUnlock, CancelCall, CancelFork, CancelSet, CancelUnlock,
                       Call, Goto, Return, UnlockOr, At, locals
  <2>3. pc'[p] # "read" /\ (pc[p] \notin Past => pc'[p] \notin Past)
    BY <1>1, <2>2, Zenon DEF Past, Section
  <2>4. Apart(p)
    BY <1>2, <2>1, <2>3, Zenon DEF Apart
  <2> QED
    BY <1>2, <1>4, <2>2, <2>4, Zenon DEF StepOf
<1> QED
  BY <1>5, <1>6, <1>7, Zenon

\* Every step is one of these, or somebody is killed.
LEMMA EveryStep ==
  ASSUME IInv, Next
  PROVE  \E p \in Procs : StepOf(p) \/ Die(p)
BY LockStepOf, BroadcastStepOf, PutStepOf, OtherStepOf, ZenonT(60) DEF Next, PutStep, GetStep, CancelStep, Procs

-----------------------------------------------------------------------------
\* A get leaves the handle at the number of a frame that is there, or as it was.
LEMMA GetNumbers ==
  ASSUME Numbers, NEW r \in Readers, NEW z, NEW l, NEW c
  PROVE  LET g == GetLocked(seq_num[r], next_index[r], z, l, c, FALSE)
         IN g.seq_num \in Nat /\ g.seq_num <= last_seq /\ g.next_index \in Nat
<1> DEFINE s == seq_num[r]
           n == next_index[r]
           i == read_index(s, n, l, FALSE)
           x == ach_get_from_offset(s, n, i, z)
           missed == [x EXCEPT !.status = "ACH_MISSED_FRAME"]
           g == GetLocked(s, n, z, l, c, FALSE)
           Good(f) == f.seq_num \in Nat /\ f.seq_num <= last_seq /\ f.next_index \in Nat
<1>1. s \in Nat /\ n \in Nat /\ s <= last_seq
  BY Zenon DEF Numbers
<1>2. index_head \in Nat /\ index_free \in Int /\ IndexCnt \in Nat \ {0} /\ last_seq \in Nat
  BY IndexCntAssumption DEF Numbers
<1>3. last_index_i \in Nat /\ oldest_index_i \in Nat
  BY <1>2 DEF last_index_i, oldest_index_i
<1>4. i \in Nat
  BY <1>1, <1>3, Zenon DEF read_index
<1> HIDE DEF s, n, i
<1>5. i < IndexCnt => index_ar[i].seq_num \in Nat /\ index_ar[i].seq_num <= last_seq
  <2>1. i < IndexCnt => i \in 0 .. IndexCnt - 1
    BY <1>2, <1>4
  <2>2. i < IndexCnt => index_ar[i].seq_num \in 0 .. last_seq
    BY <2>1, Zenon DEF Numbers
  <2> QED
    BY <1>2, <2>2
<1>6. (i + 1) % IndexCnt \in Nat
  BY <1>2, <1>4
<1>7. \A t, b : Good(Result(t, s, n, b))
  BY <1>1, Zenon DEF Result
<1>8. \A t, b : i < IndexCnt => Good(Result(t, index_ar[i].seq_num, (i + 1) % IndexCnt, b))
  BY <1>5, <1>6, Zenon DEF Result
<1>9. i < IndexCnt => Good(x)
  BY <1>7, <1>8, Zenon DEF ach_get_from_offset
<1>10. /\ "status" \in DOMAIN x /\ missed.seq_num = x.seq_num /\ missed.next_index = x.next_index
  BY DEF ach_get_from_offset, Result
<1>11. i < IndexCnt => Good(missed)
  BY <1>9, <1>10, Zenon
<1>12. \/ \E t : g = Result(t, s, n, <<>>)
       \/ ~ (i >= IndexCnt) /\ g \in {x, missed}
  BY Zenon DEF GetLocked, i
<1>13. i >= IndexCnt \/ i < IndexCnt
  BY <1>2, <1>4
<1> HIDE DEF g, x, missed, Good
<1>14. Good(g)
  BY <1>7, <1>9, <1>11, <1>12, <1>13, ZenonT(60)
<1> QED
  BY <1>14, Zenon DEF g, Good, s, n

\* The steps of a put that change the ring, and the reads, keep the numbers in bounds.
LEMMA NumbersStep ==
  ASSUME IInv, Numbers, NEW p \in Procs, StepOf(p)
  PROVE  Numbers'
<1>1. CASE UNCHANGED <<shm, seq_num, next_index>>
  BY <1>1, Zenon DEF Numbers, shm
<1>2. CASE /\ UNCHANGED <<seq_num, next_index>>
           /\ PutHead(p) \/ PutFree(p) \/ PutCopy(p) \/ PutIndex(p) \/ PutAdvance(p)
  <2>0. /\ index_head \in 0 .. IndexCnt - 1 /\ index_free \in Int /\ last_seq \in Nat
        /\ DOMAIN index_ar = 0 .. IndexCnt - 1
        /\ \A i \in 0 .. IndexCnt - 1 : index_ar[i].seq_num \in 0 .. last_seq
        /\ seq_num' \in [Readers -> Nat] /\ next_index' \in [Readers -> Nat]
        /\ \A r \in Readers : seq_num[r] \in Nat /\ seq_num[r] <= last_seq
        /\ IndexCnt \in Nat \ {0}
    BY <1>2, IndexCntAssumption, Zenon DEF Numbers
  <2>1. ASSUME last_seq' = last_seq, index_head' \in 0 .. IndexCnt - 1, index_free' \in Int,
               DOMAIN index_ar' = 0 .. IndexCnt - 1,
               \A i \in 0 .. IndexCnt - 1 : index_ar'[i] \in {index_ar[i], ZeroIndex}
        PROVE  Numbers'
    <3>1. ZeroIndex.seq_num \in 0 .. last_seq
      BY <2>0 DEF ZeroIndex
    <3>2. \A i \in 0 .. IndexCnt - 1 : index_ar'[i].seq_num \in 0 .. last_seq
      BY <2>0, <2>1, <3>1, Zenon
    <3> QED
      BY <1>2, <2>0, <2>1, <3>2, ZenonT(60) DEF Numbers
  <2>2. CASE PutHead(p) \/ PutFree(p)
    <3>1. UNCHANGED shm \/ \E i : free_index(i)
      BY <2>2, Zenon DEF PutHead, PutFree, ClearHead
    <3>2. CASE UNCHANGED shm
      BY <1>1, <1>2, <3>2, ZenonT(60)
    <3>3. ASSUME NEW i, free_index(i)
          PROVE  Numbers'
      <4>1. /\ UNCHANGED <<index_head, last_seq>> /\ index_free' = index_free + 1
            /\ index_ar' = [index_ar EXCEPT ![i] = ZeroIndex]
        BY <3>3, Zenon DEF free_index
      <4>2. DOMAIN index_ar' = 0 .. IndexCnt - 1 /\ \A j \in 0 .. IndexCnt - 1 : index_ar'[j] \in {index_ar[j], ZeroIndex}
        BY <2>0, <4>1, Zenon
      <4>3. index_free' \in Int
        BY <2>0, <4>1
      <4> QED
        BY <2>0, <2>1, <4>1, <4>2, <4>3, ZenonT(60)
    <3> QED
      BY <3>1, <3>2, <3>3, Zenon
  <2>3. CASE PutCopy(p)
    BY <2>0, <2>1, <2>3, ZenonT(60) DEF PutCopy, CopyIn
  <2>4. CASE PutIndex(p)
    <3>1. PICK rec, i : /\ rec.seq_num = last_seq + 1 /\ index_ar' = [index_ar EXCEPT ![i] = rec]
                        /\ last_seq' = last_seq + 1 /\ UNCHANGED <<index_head, index_free>>
      <4>1. WriteIndex(idx[p], arg[p].len)
        BY <2>4, Zenon DEF PutIndex
      <4> QED
        BY <4>1, Zenon DEF WriteIndex
    <3>2. DOMAIN index_ar' = 0 .. IndexCnt - 1 /\ \A j \in 0 .. IndexCnt - 1 : index_ar'[j] \in {index_ar[j], rec}
      BY <2>0, <3>1, ZenonT(60)
    <3>3. /\ last_seq' \in Nat /\ rec.seq_num \in 0 .. last_seq'
          /\ \A m \in 0 .. last_seq : m \in 0 .. last_seq'
          /\ \A m \in Nat : m <= last_seq => m <= last_seq'
      BY <2>0, <3>1
    <3>4. \A j \in 0 .. IndexCnt - 1 : index_ar'[j].seq_num \in 0 .. last_seq'
      BY <2>0, <3>2, <3>3, ZenonT(60)
    <3>5. \A r \in Readers : seq_num'[r] <= last_seq'
      BY <1>2, <2>0, <3>3, Zenon
    <3> QED
      BY <2>0, <3>1, <3>2, <3>3, <3>4, <3>5, ZenonT(60) DEF Numbers
  <2>5. CASE PutAdvance(p)
    <3>1. /\ index_head' = (index_head + 1) % IndexCnt /\ index_free' = index_free - 1
          /\ UNCHANGED <<last_seq, index_ar>>
      BY <2>5, Zenon DEF PutAdvance, AdvanceHeads
    <3>2. index_head' \in 0 .. IndexCnt - 1 /\ index_free' \in Int
      BY <2>0, <3>1
    <3> QED
      BY <2>0, <2>1, <3>1, <3>2, ZenonT(60)
  <2> QED
    BY <1>2, <2>2, <2>3, <2>4, <2>5, ZenonT(60)
<1>3. CASE p \in Readers /\ UNCHANGED shm /\ (GetRead(p) \/ FlushRead(p))
  <2>1. PICK s, n : /\ seq_num' = [seq_num EXCEPT ![p] = s] /\ next_index' = [next_index EXCEPT ![p] = n]
                    /\ s \in Nat /\ s <= last_seq /\ n \in Nat
    <3>1. CASE GetRead(p)
      <4>1. PICK z, l, c :
              LET g == GetLocked(seq_num[p], next_index[p], z, l, c, FALSE)
              IN /\ seq_num' = [seq_num EXCEPT ![p] = g.seq_num]
                 /\ next_index' = [next_index EXCEPT ![p] = g.next_index]
        BY <3>1, Zenon DEF GetRead
      <4> QED
        BY <1>3, <4>1, GetNumbers, Zenon
    <3>2. CASE FlushRead(p)
      <4>1. FlushLocked.seq_num = last_seq /\ FlushLocked.next_index = index_head
        BY DEF FlushLocked, Result
      <4>2. last_seq \in Nat /\ last_seq <= last_seq /\ index_head \in Nat
        BY IndexCntAssumption DEF Numbers
      <4> QED
        BY <3>2, <4>1, <4>2, ZenonT(60) DEF FlushRead
    <3> QED
      BY <1>3, <3>1, <3>2, Zenon
  <2>2. seq_num' \in [Readers -> Nat] /\ next_index' \in [Readers -> Nat]
    BY <2>1, Zenon DEF Numbers
  <2>3. \A r \in Readers : seq_num'[r] <= last_seq
    BY <2>1, Zenon DEF Numbers
  <2> QED
    BY <1>3, <2>2, <2>3, Zenon DEF Numbers, shm
<1> QED
  BY <1>1, <1>2, <1>3, Zenon DEF StepOf, Apart

\* The dead stay where they were, and a put that was cut short stays so.
LEMMA InterruptedStays ==
  ASSUME IInv, NEW p \in Procs, StepOf(p) \/ Die(p), Interrupted
  PROVE  Interrupted'
<1>1. PICK w \in Writers \ alive : pc[w] \in Changing
  BY Zenon DEF Interrupted
<1>2. w \in Procs
  BY Zenon DEF Procs
<1>3. CASE StepOf(p)
  BY <1>1, <1>2, <1>3, Zenon DEF StepOf, Interrupted
<1>4. CASE Die(p)
  BY <1>1, <1>4, Zenon DEF Die, locals, Interrupted
<1> QED
  BY <1>3, <1>4, Zenon

\* A put is cut short by the death of its writer only.
LEMMA InterruptedBy ==
  ASSUME IInv, NEW p \in Procs, StepOf(p), ~ Interrupted
  PROVE  ~ Interrupted'
<1> SUFFICES ASSUME NEW w \in Writers \ alive', pc'[w] \in Changing
             PROVE  FALSE
  BY Zenon DEF Interrupted
<1>1. w \in Procs /\ w \notin alive /\ w # p
  BY Zenon DEF Procs, StepOf
<1>2. pc'[w] = pc[w]
  BY <1>1, Zenon DEF StepOf
<1> QED
  BY <1>1, <1>2, Zenon DEF Interrupted

\* A reader at "read" holds the mutex, so that no put publishes a frame meanwhile.
LEMMA NewStep ==
  ASSUME IInv, New, NEW p \in Procs, StepOf(p) \/ Die(p)
  PROVE  New'
<1> SUFFICES ASSUME NEW r \in Readers \cap alive', pc'[r] = "read", waits(r)', ~ Interrupted'
             PROVE  seq_num'[r] # last_seq'
  BY Zenon DEF New
<1>1. ~ Interrupted /\ HoldsMutex
  BY InterruptedStays, Zenon DEF IInv, Exclusive
<1>2. r \in Procs /\ r \notin Writers
  BY RolesAssumption, Zenon DEF Procs
<1>3. CASE Die(p)
  <2>1. UNCHANGED <<pc, arg, seq_num, last_seq>> /\ r \in alive
    BY <1>3, Zenon DEF Die, locals, handles, shm
  <2> QED
    BY <1>1, <2>1, Zenon DEF New, waits
<1>4. CASE StepOf(p)
  <2>1. alive' = alive /\ p \in alive /\ r \in alive
    BY <1>4, Zenon DEF StepOf
  <2>2. CASE r = p
    <3>1. Apart(p)
      BY <1>2, <1>4, <2>2, Zenon DEF StepOf
    <3>2. arg'[r] = arg[r] /\ (waits(r) => seq_num[r] # last_seq) /\ seq_num' = seq_num /\ last_seq' = last_seq
      BY <2>2, <3>1, Zenon DEF Apart, shm
    <3> QED
      BY <3>2, Zenon DEF waits
  <2>3. CASE r # p
    <3>1. pc[r] = "read" /\ arg'[r] = arg[r]
      BY <1>2, <1>4, <2>3, Zenon DEF StepOf
    <3>2. owner = r /\ seq_num[r] # last_seq
      BY <1>1, <2>1, <3>1, Zenon DEF HoldsMutex, Section, New, waits
    <3>3. pc[p] \notin Past
      BY <1>1, <2>1, <2>3, <3>2, ZenonT(60) DEF HoldsMutex, Past
    <3>4. Apart(p)
      BY <1>4, <3>3, Zenon DEF StepOf, Past, Section
    <3> QED
      BY <3>2, <3>4, Zenon DEF Apart, shm
  <2> QED
    BY <2>2, <2>3, Zenon
<1> QED
  BY <1>3, <1>4, Zenon

\* After a put was cut short, who is left is stopped by check_lock().
LEMMA StillStep ==
  ASSUME OneWriter, IInv, Interrupted, Still, NEW p \in Procs, StepOf(p) \/ Die(p)
  PROVE  Still' /\ UNCHANGED <<shm, seq_num, next_index>>
<1>1. alive \subseteq Procs
  BY Zenon DEF IInv, TypeOK
<1>2. CASE Die(p)
  <2>1. UNCHANGED <<shm, seq_num, next_index, pc, dirty>> /\ alive' \subseteq alive
    BY <1>2, Zenon DEF Die, locals, handles
  <2> QED
    BY <2>1, Zenon DEF Still
<1>3. CASE StepOf(p)
  <2>1. p \in alive /\ pc[p] \notin Past /\ dirty
    BY <1>3, Zenon DEF StepOf, Still
  <2>2. ASSUME p \in Writers
        PROVE  FALSE
    BY <2>1, <2>2, Zenon DEF Interrupted, OneWriter
  <2>3. Apart(p)
    BY <1>3, <2>1, <2>2, ZenonT(60) DEF StepOf, Past, Section
  <2>4. UNCHANGED <<shm, seq_num, next_index>> /\ dirty' /\ pc'[p] \notin Past
    BY <2>1, <2>2, <2>3, ZenonT(60) DEF Apart
  <2>5. \A q \in alive : pc'[q] \notin Past
    <3>1. \A q \in alive \ {p} : pc'[q] = pc[q] \/ pc'[q] = "relock"
      BY <1>1, <1>3, Zenon DEF StepOf
    <3>2. "relock" \notin Past
      BY Zenon DEF Past, Section
    <3>3. ASSUME NEW q \in alive, q # p
          PROVE  pc'[q] \notin Past
      <4>1. pc[q] \notin Past /\ (pc'[q] = pc[q] \/ pc'[q] = "relock")
        BY <3>1, <3>3, Zenon DEF Still
      <4> QED
        BY <3>2, <4>1, Zenon
    <3> QED
      BY <2>4, <3>3, Zenon
  <2> QED
    BY <1>3, <2>4, <2>5, ZenonT(60) DEF Still, StepOf
<1> QED
  BY <1>2, <1>3, Zenon

\* The death that cuts a put short leaves the dirty bit set, and nobody else in a
\* critical section.
LEMMA CutStep ==
  ASSUME IInv, ~ Interrupted, NEW p \in Procs, Die(p), Interrupted'
  PROVE  Still'
<1>1. UNCHANGED <<pc, dirty>> /\ alive' = alive \ {p} /\ p \in alive
  BY Zenon DEF Die, locals
<1>2. HoldsMutex /\ DirtyMarksPut
  BY Zenon DEF IInv, Exclusive
<1>3. PICK w \in Writers \ alive' : pc[w] \in Changing
  BY <1>1, Zenon DEF Interrupted
<1>4. w = p
  BY <1>1, <1>3, Zenon DEF Interrupted
<1>5. owner = p /\ dirty
  BY <1>1, <1>2, <1>3, <1>4, ZenonT(60) DEF HoldsMutex, DirtyMarksPut, Changing, Section
<1>6. \A q \in alive' : pc[q] \notin Section
  BY <1>1, <1>2, <1>5, ZenonT(60) DEF HoldsMutex
<1> QED
  BY <1>1, <1>5, <1>6, ZenonT(60) DEF Still, Past

\* The assertions follow from mutual exclusion and the numbers.
LEMMA AssertionsFollow ==
  ASSUME IInv, Numbers, New, ~ Interrupted
  PROVE  AssertionsHold
<1> SUFFICES ASSUME NEW p \in alive
             PROVE  /\ pc[p] = "clean" => dirty
                    /\ pc[p] \in {"mark", "read"} => ~ dirty
                    /\ pc[p] = "read" => seq_num[p] <= last_seq /\ (waits(p) => seq_num[p] # last_seq)
                    /\ pc[p] = "unlock" /\ p \in Readers => ~ dirty
  BY Zenon DEF AssertionsHold
<1>1. HoldsMutex /\ DirtyMarksPut /\ p \in Procs
  BY Zenon DEF IInv, Exclusive, TypeOK
<1>2. /\ pc[p] = "read" => p \in Readers
      /\ pc[p] = "clean" => p \in Writers
  BY <1>1, ZenonT(60) DEF IInv, Roles, WLabels, RLabels, CLabels, Procs
<1>3. ASSUME pc[p] \in Section \ Changing
      PROVE  ~ dirty
  <2> SUFFICES ASSUME dirty
               PROVE  FALSE
    BY Zenon
  <2>1. PICK w \in Writers : pc[w] \in Changing
    BY <1>1, Zenon DEF DirtyMarksPut
  <2>2. w \in alive
    BY <2>1, Zenon DEF Interrupted
  <2>3. owner = w /\ owner = p
    BY <1>1, <1>3, <2>1, <2>2, ZenonT(60) DEF HoldsMutex, Section, Changing
  <2> QED
    BY <1>3, <2>1, <2>3, ZenonT(60)
<1>4. pc[p] \in {"mark", "read", "unlock"} => ~ dirty
  BY <1>3, Zenon DEF Section, Changing
<1>5. pc[p] = "clean" => dirty
  BY <1>1, <1>2, Zenon DEF DirtyMarksPut, Changing
<1>6. pc[p] = "read" => seq_num[p] <= last_seq /\ (waits(p) => seq_num[p] # last_seq)
  BY <1>2, Zenon DEF Numbers, New
<1> QED
  BY <1>4, <1>5, <1>6, ZenonT(60)

\* A new channel has no frames.
LEMMA InitNumbers == Init => Numbers /\ New /\ Frozen
<1> SUFFICES ASSUME Init
             PROVE  Numbers /\ New /\ Frozen
  BY Zenon
<1>1. /\ index_head = 0 /\ index_free = IndexCnt /\ last_seq = 0 /\ alive = Procs
      /\ index_ar = [i \in 0 .. IndexCnt - 1 |-> ZeroIndex]
      /\ seq_num = [r \in Readers |-> 0] /\ next_index = [r \in Readers |-> 1]
      /\ pc = [p \in Procs |-> "idle"]
  BY Zenon DEF Init, ShmInit
<1>2. index_head \in 0 .. IndexCnt - 1 /\ index_free \in Int /\ last_seq \in Nat
  BY <1>1, IndexCntAssumption
<1>3. ZeroIndex.seq_num \in 0 .. last_seq /\ 0 \in Nat /\ 1 \in Nat /\ 0 <= last_seq
  BY <1>1 DEF ZeroIndex
<1>4. Numbers
  BY <1>1, <1>2, <1>3, Zenon DEF Numbers
<1>5. ~ Interrupted
  BY <1>1, Zenon DEF Interrupted, Procs
<1>6. New
  BY <1>1, Zenon DEF New, Procs
<1> QED
  BY <1>4, <1>5, <1>6, ZenonT(60) DEF Frozen

\* Every step keeps them.
LEMMA NextNumbers == IInv /\ Numbers /\ New /\ [Next]_vars => Numbers' /\ New'
<1> SUFFICES ASSUME IInv, Numbers, New, [Next]_vars
             PROVE  Numbers' /\ New'
  BY Zenon
<1>1. CASE UNCHANGED vars
  <2>1. UNCHANGED <<shm, seq_num, next_index, pc, arg, alive>>
    BY <1>1, Zenon DEF vars, locals, handles
  <2>2. Numbers'
    BY <2>1, Zenon DEF Numbers, shm
  <2>3. New'
    BY <2>1, Zenon DEF New, waits, Interrupted, shm
  <2> QED
    BY <2>2, <2>3, Zenon
<1>2. ASSUME NEW p \in Procs, Die(p)
      PROVE  Numbers'
  BY <1>2, Zenon DEF Die, Numbers, shm, handles
<1> QED
  BY <1>1, <1>2, EveryStep, NumbersStep, NewStep, ZenonT(60)

\* With one writer, whose put was cut short, everything stands still.
LEMMA NextFrozen ==
  ASSUME OneWriter
  PROVE  IInv /\ Frozen /\ [Next]_vars =>
           Frozen' /\ (Interrupted => UNCHANGED <<shm, seq_num, next_index>>)
<1> SUFFICES ASSUME IInv, Frozen, [Next]_vars
             PROVE  Frozen' /\ (Interrupted => UNCHANGED <<shm, seq_num, next_index>>)
  BY Zenon
<1>1. CASE UNCHANGED vars
  <2>1. UNCHANGED <<shm, seq_num, next_index, pc, dirty, alive>>
    BY <1>1, Zenon DEF vars, locals, handles, sync
  <2> QED
    BY <2>1, Zenon DEF Frozen, Still, Interrupted
<1>2. ASSUME NEW p \in Procs, StepOf(p) \/ Die(p)
      PROVE  Frozen' /\ (Interrupted => UNCHANGED <<shm, seq_num, next_index>>)
  <2>1. CASE Interrupted
    BY <1>2, <2>1, StillStep, Zenon DEF Frozen
  <2>2. CASE ~ Interrupted
    BY <1>2, <2>2, InterruptedBy, CutStep, Zenon DEF Frozen
  <2> QED
    BY <2>1, <2>2, Zenon
<1> QED
  BY <1>1, <1>2, EveryStep, Zenon

\* Until a put is cut short, with any number of writers, the assertions of unrdlock(),
\* wrlock(), unwrlock() and ach_get() hold, whoever else is killed.
THEOREM AssertedUntilCut == Spec => [](Interrupted \/ AssertionsHold)
<1>1. IInv /\ Numbers /\ New => Interrupted \/ AssertionsHold
  BY AssertionsFollow
<1>2. Init => Numbers /\ New
  BY InitNumbers, Zenon
<1> QED
  BY <1>1, <1>2, NextNumbers, Invariance, PTL DEF Spec

\* They hold for ever if a put that is cut short is the last: those that are left stop
\* at check_lock().
THEOREM AssertionsAlwaysHold ==
  ASSUME LastPut
  PROVE  Spec => []AssertionsHold
<1>1. CASE OneWriter
  <2>1. Frozen /\ (Interrupted \/ AssertionsHold) => AssertionsHold
    <3> SUFFICES ASSUME Interrupted, Still
                 PROVE  AssertionsHold
      BY Zenon DEF Frozen
    <3>1. \A p \in alive : pc[p] \notin {"clean", "mark", "read", "unlock"}
      BY Zenon DEF Still, Past, Section
    <3> QED
      BY <3>1, Zenon DEF AssertionsHold
  <2>2. Init => Frozen
    BY InitNumbers, Zenon
  <2>3. IInv /\ Frozen /\ [Next]_vars => Frozen'
    BY <1>1, NextFrozen, Zenon
  <2> QED
    BY <2>1, <2>2, <2>3, AssertedUntilCut, Invariance, PTL DEF Spec
<1>2. CASE WritersSurvive
  <2>1. Writers \subseteq alive /\ (Interrupted \/ AssertionsHold) => AssertionsHold
    BY Zenon DEF Interrupted
  <2>2. Spec => [](Writers \subseteq alive)
    BY <1>2, Survival, ZenonT(60)
  <2> QED
    BY <2>1, <2>2, AssertedUntilCut, PTL
<1> QED
  BY <1>1, <1>2, Zenon DEF LastPut

\* "Others will detect corruption based on the dirty bit": they do, if a put that was
\* cut short is the last.
THEOREM CorruptionIsDetectable ==
  ASSUME LastPut
  PROVE  Spec => []CorruptionDetectable
<1>1. CASE OneWriter
  <2>1. Frozen => CorruptionDetectable
    BY ZenonT(60) DEF Frozen, Still, CorruptionDetectable
  <2>2. Init => Frozen
    BY InitNumbers, Zenon
  <2>3. IInv /\ Frozen /\ [Next]_vars => Frozen'
    BY <1>1, NextFrozen, Zenon
  <2> QED
    BY <2>1, <2>2, <2>3, Invariance, PTL DEF Spec
<1>2. CASE WritersSurvive
  <2>1. Writers \subseteq alive => CorruptionDetectable
    BY Zenon DEF Interrupted, CorruptionDetectable
  <2>2. Spec => [](Writers \subseteq alive)
    BY <1>2, Survival, Zenon
  <2> QED
    BY <2>1, <2>2, PTL
<1> QED
  BY <1>1, <1>2, Zenon DEF LastPut

\* Then nobody changes the ring or reads from it once a put was cut short.
THEOREM CutPutFreezes ==
  ASSUME LastPut
  PROVE  Spec => InterruptedFreezes
<1>1. CASE OneWriter
  <2>1. Init => Frozen
    BY InitNumbers, Zenon
  <2>2. IInv /\ Frozen /\ [Next]_vars => Frozen' /\ [Interrupted => UNCHANGED <<shm, seq_num, next_index>>]_vars
    BY <1>1, NextFrozen, Zenon
  <2> QED
    BY <2>1, <2>2, Invariance, PTL DEF Spec, InterruptedFreezes
<1>2. CASE WritersSurvive
  <2>1. Writers \subseteq alive => [Interrupted => UNCHANGED <<shm, seq_num, next_index>>]_vars
    BY ZenonT(60) DEF Interrupted
  <2>2. Spec => [](Writers \subseteq alive)
    BY <1>2, Survival, Zenon
  <2> QED
    BY <2>1, <2>2, PTL DEF InterruptedFreezes
<1> QED
  BY <1>1, <1>2, Zenon DEF LastPut

-----------------------------------------------------------------------------
(* Waiting and waking. *)

\* A canceller that will not come back to the flag has set it.
Flagged ==
  \A c \in Cancellers : pc[c] # "idle" /\ (~ arg[c].async_unsafe \/ pc[c] \in {"unlock", "broadcast"}) =>
    cancel[arg[c].target]

\* A reader that is about to wait has seen all frames, one that waits all but those
\* of which it is still to be told, and no canceller tells it between the two.
Waking ==
  ~ Interrupted =>
    /\ Flagged
    /\ \A r \in Readers \cap alive :
         /\ pc[r] = "sleep" => seq_num[r] = last_seq
         /\ pc[r] = "wait" => last_seq - seq_num[r] <= Cardinality(Owing)
    /\ \A c \in Cancellers : pc[c] = "broadcast" /\ arg[c].target \in alive =>
         pc[arg[c].target] # "sleep"

\* What a step of writer w has to do with those who wait.
Tells(w) ==
  \/ last_seq' = last_seq /\ (w \in Owing' <=> w \in Owing)
  \/ last_seq' = last_seq + 1 /\ w \notin Owing /\ w \in Owing'
  \/ last_seq' = last_seq /\ \A r \in Readers \cap alive : pc'[r] # "wait"

\* How reader r comes to wait.
Waits(r) ==
  \/ pc'[r] \notin {"sleep", "wait"}
  \/ pc'[r] = "sleep" /\ ~ cancel[r] /\ seq_num[r] = last_seq /\ UNCHANGED seq_num
  \/ pc'[r] = "wait" /\ pc[r] = "sleep" /\ UNCHANGED seq_num

\* How canceller c comes to set the flag and to tell.
Flags(c) ==
  \/ pc'[c] = "idle"
  \/ pc'[c] = "lock" /\ (arg'[c].async_unsafe \/ cancel'[arg'[c].target])
  \/ pc[c] # "idle" /\ arg'[c] = arg[c] /\ pc'[c] \notin {"unlock", "broadcast"}
  \/ pc[c] # "idle" /\ arg'[c] = arg[c] /\ pc'[c] = "unlock" /\ (~ arg[c].async_unsafe \/ cancel'[arg[c].target])
  \/ pc[c] = "unlock" /\ arg'[c] = arg[c] /\ pc'[c] = "broadcast"

\* A step of p, by what it does for waiting and waking.
WakeOf(p) ==
  /\ \A r \in Readers : cancel[r] => cancel'[r]
  /\ p \in Writers => Tells(p) /\ UNCHANGED seq_num
  /\ p \in Readers => Waits(p) /\ last_seq' = last_seq /\ \A r \in Readers \ {p} : seq_num'[r] = seq_num[r]
  /\ p \in Cancellers => Flags(p) /\ UNCHANGED <<last_seq, seq_num>>

\* Writers are counted.
LEMMA OwingCount == IsFiniteSet(Owing) /\ Cardinality(Owing) \in Nat
<1>1. Owing \subseteq Writers /\ IsFiniteSet(Writers)
  BY RolesAssumption, Zenon DEF Owing
<1>2. IsFiniteSet(Owing)
  BY <1>1, FS_Subset, Zenon
<1> QED
  BY <1>2, FS_CardinalityType, Zenon

\* Only the writer that takes a step begins or stops to owe a broadcast.
LEMMA OthersOwe ==
  ASSUME IInv, NEW p \in Procs, StepOf(p)
  PROVE  /\ \A w \in Writers \ {p} : w \in Owing' <=> w \in Owing
         /\ p \notin Writers => Owing' = Owing
<1>1. ASSUME NEW w \in Writers \ {p}
      PROVE  pc'[w] = pc[w]
  <2>1. w \in Procs \ {p} /\ pc[w] # "wait"
    BY Zenon DEF Procs, IInv, Roles, WLabels
  <2> QED
    BY <2>1, Zenon DEF StepOf
<1>2. \A w \in Writers \ {p} : w \in Owing' <=> w \in Owing
  BY <1>1, ZenonT(60) DEF Owing
<1> QED
  BY <1>2, Zenon DEF Owing

\* Steps that leave flags, handles and numbers alone, and where they lead.
LEMMA LockWakes ==
  ASSUME IInv, NEW p \in Procs, Lock(p) \/ check_lock(p)
  PROVE  WakeOf(p)
<1>1. UNCHANGED <<last_seq, seq_num, cancel>> /\ p \in alive /\ DOMAIN pc = Procs /\ DOMAIN arg = Procs
      /\ pc[p] \in {"lock", "relock", "check", "recheck"}
  BY Zenon DEF Lock, check_lock, At, handles, shm, IInv, TypeOK
<1>2. CASE Lock(p)
  <2>1. PICK l \in {"check", "recheck"} : pc' = [pc EXCEPT ![p] = l]
    BY <1>2, Zenon DEF Lock
  <2>2. pc'[p] = l /\ arg' = arg
    BY <1>1, <1>2, <2>1, Zenon DEF Lock
  <2>3. p \in Writers => Tells(p)
    BY <1>1, <2>2, Zenon DEF Tells, Owing
  <2>4. Waits(p) /\ Flags(p)
    BY <1>1, <2>2, Zenon DEF Waits, Flags
  <2> QED
    BY <1>1, <2>3, <2>4, ZenonT(60) DEF WakeOf
<1>3. CASE check_lock(p)
  <2>1. rc[p] \in {"0", "ETIMEDOUT", "EOWNERDEAD"} /\ pc[p] \in {"check", "recheck"}
    BY <1>3, Zenon DEF check_lock, At, IInv, Results
  <2>2. (\E s : Return(p, s)) \/ LockFailed(p, "ACH_CORRUPT") \/ Locked(p)
    BY <1>3, <2>1, Zenon DEF check_lock
  <2>3. arg[p].call \in {"put", "get", "flush", "cancel"} /\ (p \in Writers <=> arg[p].call = "put")
        /\ (p \in Readers <=> arg[p].call \in {"get", "flush"})
    <3>1. /\ p \in Writers => arg[p] \in PutCalls
          /\ p \in Readers => arg[p] \in GetCalls \cup {FlushCall}
          /\ p \in Cancellers => arg[p] \in CancelCalls
      BY <2>1, Zenon DEF IInv, Roles
    <3>2. /\ \A a \in PutCalls : a.call = "put"
          /\ \A a \in GetCalls : a.call = "get"
          /\ FlushCall.call = "flush"
          /\ \A a \in CancelCalls : a.call = "cancel"
      BY DEF PutCalls, GetCalls, FlushCall, CancelCalls
    <3> QED
      BY <3>1, <3>2, RolesAssumption, ZenonT(60) DEF Procs
  <2>4. CASE \E s : Return(p, s)
    <3>1. pc'[p] = "idle"
      BY <1>1, <2>4, Zenon DEF Return
    <3> QED
      BY <1>1, <2>1, <3>1, Zenon DEF WakeOf, Tells, Owing, Waits, Flags
  <2>5. CASE arg[p].call = "put" /\ (LockFailed(p, "ACH_CORRUPT") \/ Locked(p))
    <3>1. pc'[p] \in {"head", "mark"}
      BY <1>1, <2>5, Zenon DEF LockFailed, Locked
    <3>2. p \in Writers /\ p \notin Readers /\ p \notin Cancellers
      BY <2>3, <2>5, RolesAssumption, Zenon
    <3> QED
      BY <1>1, <2>1, <3>1, <3>2, Zenon DEF WakeOf, Tells, Owing
  <2>6. CASE arg[p].call # "put" /\ LockFailed(p, "ACH_CORRUPT")
    BY <2>4, <2>6, Zenon DEF LockFailed
  <2>7. CASE arg[p].call \in {"get", "flush"} /\ Locked(p)
    <3>1. pc'[p] = "test"
      BY <1>1, <2>7, Zenon DEF Locked
    <3>2. p \notin Writers /\ p \in Readers /\ p \notin Cancellers
      BY <2>3, <2>7, RolesAssumption, ZenonT(60)
    <3> QED
      BY <1>1, <3>1, <3>2, Zenon DEF WakeOf, Waits
  <2>8. CASE arg[p].call = "cancel" /\ Locked(p)
    <3>1. arg'[p] = arg[p] /\ pc'[p] = IF arg[p].async_unsafe THEN "set" ELSE "unlock"
      BY <1>1, <2>8, Zenon DEF Locked
    <3>2. p \notin Writers /\ p \notin Readers
      BY <2>3, <2>8, Zenon
    <3>3. Flags(p)
      BY <2>1, <3>1, Zenon DEF Flags
    <3> QED
      BY <1>1, <3>2, <3>3, ZenonT(60) DEF WakeOf
  <2> QED
    BY <2>2, <2>3, <2>4, <2>5, <2>6, <2>7, <2>8, ZenonT(60)
<1> QED
  BY <1>2, <1>3, Zenon

\* A broadcast leaves nobody waiting.
LEMMA BroadcastWakes ==
  ASSUME IInv, NEW p \in Procs, Broadcast(p)
  PROVE  WakeOf(p)
<1>1. /\ UNCHANGED <<last_seq, seq_num, cancel>> /\ p \in alive /\ pc[p] = "broadcast"
      /\ pc' = [q \in Procs |-> IF q = p THEN "idle"
                                ELSE IF pc[q] = "wait" /\ q \in alive THEN "relock" ELSE pc[q]]
  BY Zenon DEF Broadcast, At, handles, shm
<1>2. pc'[p] = "idle" /\ \A q \in Procs \cap alive : pc'[q] # "wait"
  BY <1>1, Zenon
<1>3. Tells(p)
  BY <1>1, <1>2, Zenon DEF Tells, Procs
<1>4. Waits(p) /\ Flags(p)
  BY <1>2, Zenon DEF Waits, Flags
<1> QED
  BY <1>1, <1>3, <1>4, ZenonT(60) DEF WakeOf

\* A put numbers its frame before it tells; until another one is cut short, it has
\* the mutex to release.
LEMMA PutWakes ==
  ASSUME IInv, ~ Interrupted, NEW w \in Writers,
         \/ PutCall(w) \/ PutMark(w) \/ PutHead(w) \/ PutFree(w) \/ PutCopy(w)
         \/ PutIndex(w) \/ PutAdvance(w) \/ PutClean(w) \/ PutUnlock(w)
  PROVE  WakeOf(w)
<1>1. w \in Procs /\ DOMAIN pc = Procs /\ w \notin Readers /\ w \notin Cancellers
  BY RolesAssumption, Zenon DEF IInv, TypeOK, Procs
<1>2. UNCHANGED <<seq_num, cancel>>
  BY Zenon DEF PutCall, PutMark, PutHead, PutFree, PutCopy, PutIndex, PutAdvance, PutClean, PutUnlock, handles
<1>3. CASE PutIndex(w)
  <2>1. last_seq' = last_seq + 1 /\ pc[w] = "index" /\ pc'[w] = "advance"
    BY <1>1, <1>3, Zenon DEF PutIndex, WriteIndex, Goto, At
  <2>2. Tells(w)
    BY <2>1, Zenon DEF Tells, Owing
  <2> QED
    BY <1>1, <1>2, <2>2, Zenon DEF WakeOf
<1>4. CASE PutCall(w) \/ PutMark(w) \/ PutHead(w) \/ PutFree(w) \/ PutCopy(w)
  <2>1. last_seq' = last_seq
    BY <1>4, Zenon DEF PutCall, PutMark, PutHead, PutFree, PutCopy, ClearHead, free_index, CopyIn, shm
  <2>2. pc[w] \in {"idle", "mark", "head", "free"}
    BY <1>4, Zenon DEF PutCall, PutMark, PutHead, PutFree, PutCopy, Call, At
  <2>3. pc' = pc \/ \E l \in {"lock", "head", "free", "index"} : pc' = [pc EXCEPT ![w] = l]
    BY <1>4, Zenon DEF PutCall, PutMark, PutHead, PutFree, PutCopy, Call, Goto
  <2>4. pc'[w] \in {"idle", "mark", "head", "free", "lock", "index"}
    BY <1>1, <2>2, <2>3, Zenon
  <2>5. Tells(w)
    BY <2>1, <2>2, <2>4, ZenonT(60) DEF Tells, Owing
  <2> QED
    BY <1>1, <1>2, <2>5, Zenon DEF WakeOf
<1>5. CASE PutAdvance(w) \/ PutClean(w) \/ PutUnlock(w)
  <2>1. last_seq' = last_seq
    BY <1>5, Zenon DEF PutAdvance, PutClean, PutUnlock, AdvanceHeads, shm
  <2>2. pc[w] \in {"advance", "clean", "unlock"} /\ w \in alive
    BY <1>5, Zenon DEF PutAdvance, PutClean, PutUnlock, At
  <2>3. owner = w
    BY <2>2, Zenon DEF IInv, Exclusive, HoldsMutex, Section
  <2>4. \E l \in {"clean", "unlock", "broadcast"} : pc' = [pc EXCEPT ![w] = l]
    BY <1>5, <2>3, Zenon DEF PutAdvance, PutClean, PutUnlock, UnlockOr, Goto
  <2>5. pc'[w] \in {"clean", "unlock", "broadcast"}
    BY <1>1, <2>4, Zenon
  <2>6. Tells(w)
    BY <2>1, <2>2, <2>5, Zenon DEF Tells, Owing
  <2> QED
    BY <1>1, <1>2, <2>6, Zenon DEF WakeOf
<1> QED
  BY <1>3, <1>4, <1>5, Zenon

\* A reader goes to wait when it has seen the last frame and no flag.
LEMMA ReaderWakes ==
  ASSUME IInv, Numbers, NEW r \in Readers,
         GetCall(r) \/ WakeUp(r) \/ RdTest(r) \/ RdSleep(r) \/ GetRead(r) \/ FlushRead(r) \/ GetUnlock(r)
  PROVE  WakeOf(r)
<1>1. r \in Procs /\ DOMAIN pc = Procs /\ DOMAIN seq_num = Readers /\ r \notin Writers /\ r \notin Cancellers
  BY RolesAssumption, Zenon DEF IInv, TypeOK, Procs, Numbers
<1>2. last_seq' = last_seq /\ cancel' = cancel
  BY Zenon DEF GetCall, WakeUp, RdTest, RdSleep, GetRead, FlushRead, GetUnlock, handles, shm
<1>3. \A q \in Readers \ {r} : seq_num'[q] = seq_num[q]
  <2>1. seq_num' = seq_num \/ \E n : seq_num' = [seq_num EXCEPT ![r] = n]
    BY Zenon DEF GetCall, WakeUp, RdTest, RdSleep, GetRead, FlushRead, GetUnlock, handles
  <2> QED
    BY <1>1, <2>1, Zenon
<1>4. Waits(r)
  <2>1. CASE GetCall(r) \/ WakeUp(r) \/ GetRead(r) \/ FlushRead(r) \/ GetUnlock(r)
    <3>1. \E l \in {"lock", "relock", "unlock", "idle"} : pc' = [pc EXCEPT ![r] = l]
      BY <2>1, ZenonT(60) DEF GetCall, WakeUp, GetRead, FlushRead, GetUnlock, UnlockOr, Call, Return
    <3>2. pc'[r] \notin {"sleep", "wait"}
      BY <1>1, <3>1, Zenon
    <3> QED
      BY <3>2, Zenon DEF Waits
  <2>2. CASE RdTest(r)
    <3>1. CASE cancel[r]
      <4>1. pc'[r] = "idle"
        BY <1>1, <2>2, <3>1, ZenonT(60) DEF RdTest, Return
      <4> QED
        BY <4>1, Zenon DEF Waits
    <3>2. CASE ~ cancel[r] /\ (~ waits(r) \/ seq_num[r] # last_seq)
      <4>1. pc'[r] = "read"
        BY <1>1, <2>2, <3>2, ZenonT(60) DEF RdTest, Goto
      <4> QED
        BY <4>1, Zenon DEF Waits
    <3>3. CASE ~ cancel[r] /\ waits(r) /\ seq_num[r] = last_seq
      <4>1. pc'[r] = "sleep" /\ UNCHANGED seq_num
        BY <1>1, <2>2, <3>3, ZenonT(60) DEF RdTest, Goto, handles
      <4> QED
        BY <3>3, <4>1, ZenonT(60) DEF Waits
    <3> QED
      BY <3>1, <3>2, <3>3, ZenonT(60)
  <2>3. CASE RdSleep(r)
    <3>1. pc'[r] = "wait" /\ pc[r] = "sleep" /\ UNCHANGED seq_num
      BY <1>1, <2>3, Zenon DEF RdSleep, Goto, At, handles
    <3> QED
      BY <3>1, Zenon DEF Waits
  <2> QED
    BY <2>1, <2>2, <2>3, ZenonT(60)
<1> QED
  BY <1>1, <1>2, <1>3, <1>4, ZenonT(60) DEF WakeOf

\* A canceller sets the flag, now or once it has the mutex, and then tells.
LEMMA CancelWakes ==
  ASSUME IInv, NEW c \in Cancellers, CancelCall(c) \/ CancelFork(c) \/ CancelSet(c) \/ CancelUnlock(c)
  PROVE  WakeOf(c)
<1>1. c \in Procs /\ DOMAIN pc = Procs /\ DOMAIN arg = Procs /\ c \notin Writers /\ c \notin Readers
      /\ DOMAIN cancel = Readers
  BY RolesAssumption, Zenon DEF IInv, TypeOK, Procs
<1>2. UNCHANGED <<last_seq, seq_num>>
  BY Zenon DEF CancelCall, CancelFork, CancelSet, CancelUnlock, handles, shm
<1>3. CASE CancelCall(c)
  <2>1. PICK a \in CancelCalls : Call(c, a) /\ cancel' = [cancel EXCEPT ![a.target] = @ \/ ~ a.async_unsafe]
    BY <1>3, Zenon DEF CancelCall
  <2>2. a.target \in Readers
    BY DEF CancelCalls
  <2>3. pc'[c] = "lock" /\ arg'[c] = a
    BY <1>1, <2>1, Zenon DEF Call
  <2>4. (\A r \in Readers : cancel[r] => cancel'[r]) /\ (~ a.async_unsafe => cancel'[a.target])
    BY <1>1, <2>1, <2>2, Zenon
  <2>5. Flags(c)
    BY <2>3, <2>4, Zenon DEF Flags
  <2> QED
    BY <1>1, <1>2, <2>4, <2>5, ZenonT(60) DEF WakeOf
<1>4. CASE CancelFork(c)
  <2>1. pc'[c] = "idle"
    BY <1>4, Zenon DEF CancelFork, At, locals
  <2>2. \A r \in Readers : cancel[r] => cancel'[r]
    BY <1>1, <1>4, Zenon DEF CancelFork
  <2> QED
    BY <1>1, <1>2, <2>1, <2>2, Zenon DEF WakeOf, Flags
<1>5. CASE CancelSet(c)
  <2>1. pc[c] = "set" /\ arg'[c] = arg[c] /\ pc'[c] = "unlock"
    BY <1>1, <1>5, Zenon DEF CancelSet, At, Goto
  <2>2. arg[c] \in CancelCalls
    BY <2>1, Zenon DEF IInv, Roles
  <2>3. arg[c].target \in Readers
    BY <2>2 DEF CancelCalls
  <2>4. (\A r \in Readers : cancel[r] => cancel'[r]) /\ cancel'[arg[c].target]
    BY <1>1, <1>5, <2>3, Zenon DEF CancelSet
  <2>5. Flags(c)
    BY <2>1, <2>4, Zenon DEF Flags
  <2> QED
    BY <1>1, <1>2, <2>4, <2>5, Zenon DEF WakeOf
<1>6. CASE CancelUnlock(c)
  <2>1. pc[c] = "unlock" /\ cancel' = cancel
    BY <1>6, Zenon DEF CancelUnlock, At, handles
  <2>2. pc'[c] = "idle" \/ (pc'[c] = "broadcast" /\ arg'[c] = arg[c])
    BY <1>1, <1>6, Zenon DEF CancelUnlock, UnlockOr, Goto, Return
  <2>3. Flags(c)
    BY <2>1, <2>2, Zenon DEF Flags
  <2> QED
    BY <1>1, <1>2, <2>1, <2>3, Zenon DEF WakeOf
<1> QED
  BY <1>3, <1>4, <1>5, <1>6, ZenonT(60)

\* Until a put is cut short, every step is one of these, or somebody is killed.
LEMMA EveryWake ==
  ASSUME IInv, Numbers, ~ Interrupted, Next
  PROVE  \E p \in Procs : (StepOf(p) /\ WakeOf(p)) \/ Die(p)
BY LockStepOf, BroadcastStepOf, PutStepOf, OtherStepOf, LockWakes, BroadcastWakes, PutWakes, ReaderWakes,
   CancelWakes, ZenonT(60) DEF Next, PutStep, GetStep, CancelStep, Procs

\* A reader at "sleep" holds the mutex, so that no put numbers a frame meanwhile; for
\* one that waits, a frame is numbered by a writer that from then on owes a broadcast.
LEMMA WaitersStep ==
  ASSUME IInv, Numbers, Waking, ~ Interrupted, NEW p \in Procs, StepOf(p), WakeOf(p),
         NEW r \in Readers \cap alive
  PROVE  /\ pc'[r] = "sleep" => seq_num'[r] = last_seq'
         /\ pc'[r] = "wait" => last_seq' - seq_num'[r] <= Cardinality(Owing')
<1>1. r \in Procs /\ r \notin Writers /\ r \notin Cancellers /\ p \in alive
  BY RolesAssumption, Zenon DEF Procs, StepOf
<1>2. IsFiniteSet(Owing) /\ Cardinality(Owing) \in Nat /\ Cardinality(Owing') \in Nat
  <2>1. IsFiniteSet(Owing) /\ IsFiniteSet(Owing')
    BY RolesAssumption, FS_Subset, Zenon DEF Owing
  <2> QED
    BY <2>1, FS_CardinalityType, Zenon
<1>3. last_seq \in Nat /\ seq_num[r] \in Nat
  BY Zenon DEF Numbers
<1>4. /\ pc[r] = "sleep" => seq_num[r] = last_seq
      /\ pc[r] = "wait" => last_seq - seq_num[r] <= Cardinality(Owing)
  BY Zenon DEF Waking
<1>5. CASE r = p
  <2>1. Waits(r) /\ last_seq' = last_seq
    BY <1>5, Zenon DEF WakeOf
  <2>2. pc'[r] \in {"sleep", "wait"} => seq_num'[r] = last_seq'
    BY <1>4, <2>1, Zenon DEF Waits
  <2> QED
    BY <1>2, <1>3, <2>1, <2>2
<1>6. CASE r # p
  <2>1. /\ pc'[r] = "sleep" => pc[r] = "sleep"
        /\ pc'[r] = "wait" => pc[r] = "wait"
    BY <1>1, <1>6, Zenon DEF StepOf
  <2>2. seq_num'[r] = seq_num[r]
    BY <1>1, <1>6, Zenon DEF WakeOf, Procs
  <2>3. ASSUME pc'[r] = "sleep"
        PROVE  seq_num'[r] = last_seq'
    <3>1. owner = r /\ HoldsMutex
      BY <2>1, <2>3, Zenon DEF IInv, Exclusive, HoldsMutex, Section
    <3>2. pc[p] \notin Past
      BY <1>1, <1>6, <3>1, Zenon DEF HoldsMutex, Past
    <3>3. Apart(p)
      BY <3>2, Zenon DEF StepOf, Past, Section
    <3> QED
      BY <1>4, <2>1, <2>2, <2>3, <3>3, ZenonT(60) DEF Apart, shm
  <2>4. ASSUME pc'[r] = "wait"
        PROVE  last_seq' - seq_num'[r] <= Cardinality(Owing')
    <3>1. CASE last_seq' = last_seq /\ Owing' = Owing
      BY <1>4, <2>1, <2>2, <2>4, <3>1, SMTT(30)
    <3>2. CASE last_seq' = last_seq + 1 /\ p \notin Owing /\ Owing' = Owing \cup {p}
      <4>1. Cardinality(Owing') = Cardinality(Owing) + 1
        BY <1>2, <3>2, FS_AddElement, SMTT(30)
      <4> QED
        BY <1>2, <1>3, <1>4, <2>1, <2>2, <2>4, <3>2, <4>1, SMTT(30)
    <3>3. CASE p \in Writers
      <4>1. Tells(p) /\ \A w \in Writers \ {p} : w \in Owing' <=> w \in Owing
        BY <3>3, OthersOwe, Zenon DEF WakeOf
      <4>2. Owing \subseteq Writers /\ Owing' \subseteq Writers
        BY Zenon DEF Owing
      <4>3. CASE last_seq' = last_seq /\ (p \in Owing' <=> p \in Owing)
        <5>1. \A w : w \in Owing' <=> w \in Owing
          BY <4>1, <4>2, <4>3, ZenonT(60)
        <5>2. Owing' = Owing
          BY <5>1
        <5> QED
          BY <3>1, <4>3, <5>2, ZenonT(60)
      <4>4. CASE last_seq' = last_seq + 1 /\ p \notin Owing /\ p \in Owing'
        <5>1. Owing' = Owing \cup {p}
          BY <4>1, <4>2, <4>4, ZenonT(60)
        <5> QED
          BY <3>2, <4>4, <5>1, ZenonT(60)
      <4> QED
        BY <2>4, <4>1, <4>3, <4>4, ZenonT(60) DEF Tells
    <3>4. CASE p \notin Writers
      BY <3>1, <3>4, OthersOwe, ZenonT(60) DEF WakeOf, Procs
    <3> QED
      BY <3>3, <3>4, ZenonT(60)
  <2> QED
    BY <2>3, <2>4, Zenon
<1> QED
  BY <1>5, <1>6, Zenon

\* A flag stays set, and the canceller had the mutex between setting it and telling:
\* the reader was not on its way from the test of the flag to the wait.
LEMMA FlagsStep ==
  ASSUME IInv, Waking, ~ Interrupted, NEW p \in Procs, StepOf(p), WakeOf(p)
  PROVE  /\ Flagged'
         /\ \A c \in Cancellers : pc'[c] = "broadcast" /\ arg'[c].target \in alive =>
              pc'[arg'[c].target] # "sleep"
<1>1. Flagged /\ HoldsMutex /\ p \in alive
  BY Zenon DEF Waking, IInv, Exclusive, StepOf
<1>2. ASSUME NEW c \in Cancellers, pc[c] # "idle"
      PROVE  arg[c].target \in Readers /\ (cancel[arg[c].target] => cancel'[arg[c].target])
  <2>1. arg[c] \in CancelCalls
    BY <1>2, Zenon DEF IInv, Roles
  <2>2. arg[c].target \in Readers
    BY <2>1 DEF CancelCalls
  <2> QED
    BY <2>2, Zenon DEF WakeOf
<1>3. ASSUME NEW c \in Cancellers, c # p
      PROVE  pc'[c] = pc[c] /\ arg'[c] = arg[c]
  <2>1. c \in Procs \ {p} /\ pc[c] # "wait"
    BY <1>3, Zenon DEF Procs, IInv, Roles, CLabels
  <2> QED
    BY <2>1, Zenon DEF StepOf
<1>4. ASSUME NEW c \in Cancellers, pc'[c] # "idle", ~ arg'[c].async_unsafe \/ pc'[c] \in {"unlock", "broadcast"}
      PROVE  cancel'[arg'[c].target]
  <2>1. CASE c # p
    BY <1>1, <1>2, <1>3, <1>4, <2>1, ZenonT(60) DEF Flagged
  <2>2. CASE c = p
    <3>1. Flags(c)
      BY <2>2, Zenon DEF WakeOf
    <3>2. CASE pc'[c] = "lock" /\ (arg'[c].async_unsafe \/ cancel'[arg'[c].target])
      BY <1>4, <3>2, Zenon
    <3>3. CASE pc[c] # "idle" /\ arg'[c] = arg[c] /\ (~ arg[c].async_unsafe \/ pc[c] = "unlock")
      BY <1>1, <1>2, <3>3, ZenonT(60) DEF Flagged
    <3>4. CASE pc[c] # "idle" /\ arg'[c] = arg[c] /\ cancel'[arg[c].target]
      BY <3>4, Zenon
    <3> QED
      BY <1>4, <3>1, <3>2, <3>3, <3>4, ZenonT(60) DEF Flags
  <2> QED
    BY <2>1, <2>2, Zenon
<1>5. ASSUME NEW c \in Cancellers, pc'[c] = "broadcast", arg'[c].target \in alive
      PROVE  pc'[arg'[c].target] # "sleep"
  <2> DEFINE t == arg[c].target
  <2>1. CASE c # p
    <3>1. pc[c] = "broadcast" /\ arg'[c] = arg[c] /\ t \in alive
      BY <1>3, <1>5, <2>1, ZenonT(60)
    <3>2. t \in Readers /\ cancel[t] /\ pc[t] # "sleep"
      BY <1>1, <1>2, <3>1, ZenonT(60) DEF Flagged, Waking
    <3>3. t \in Procs
      BY <3>2, ZenonT(60) DEF Procs
    <3>4. pc'[t] # "sleep"
      <4> HIDE DEF t
      <4>1. CASE t # p
        BY <3>2, <3>3, <4>1, ZenonT(60) DEF StepOf
      <4>2. CASE t = p
        BY <3>2, <4>2, ZenonT(60) DEF WakeOf, Waits
      <4> QED
        BY <4>1, <4>2, ZenonT(60)
    <3> QED
      BY <3>1, <3>4, Zenon
  <2>2. CASE c = p
    <3>1. pc[c] = "unlock" /\ arg'[c] = arg[c] /\ t \in alive
      BY <1>5, <2>2, ZenonT(60) DEF WakeOf, Flags
    <3>2. t \in Readers /\ t \in Procs /\ t # c
      BY <1>2, <3>1, RolesAssumption, ZenonT(60) DEF Procs
    <3>3. pc[t] # "sleep"
      <4> HIDE DEF t
      <4> QED
        BY <1>1, <2>2, <3>1, <3>2, ZenonT(60) DEF HoldsMutex, Section
    <3>4. pc'[t] # "sleep"
      <4> HIDE DEF t
      <4> QED
        BY <2>2, <3>2, <3>3, ZenonT(60) DEF StepOf
    <3> QED
      BY <3>1, <3>4, ZenonT(60)
  <2> QED
    BY <2>1, <2>2, Zenon
<1> QED
  BY <1>4, <1>5, Zenon DEF Flagged

\* Every step keeps waiters told.
LEMMA NextWaking == IInv /\ Numbers /\ Waking /\ [Next]_vars => Waking'
<1> SUFFICES ASSUME IInv, Numbers, Waking, [Next]_vars
             PROVE  Waking'
  BY Zenon
<1>1. CASE UNCHANGED vars
  <2>1. UNCHANGED <<last_seq, seq_num, cancel, pc, arg, alive>>
    BY <1>1, Zenon DEF vars, locals, handles, shm
  <2> QED
    BY <2>1, Zenon DEF Waking, Flagged, Owing, Interrupted
<1>2. CASE Interrupted /\ Next
  BY <1>2, EveryStep, InterruptedStays, ZenonT(60) DEF Waking
<1>3. ASSUME NEW p \in Procs, Die(p), ~ Interrupted
      PROVE  Waking'
  <2>1. UNCHANGED <<last_seq, seq_num, cancel, pc, arg>> /\ alive' \subseteq alive
    BY <1>3, ZenonT(60) DEF Die, locals, handles, shm
  <2>2. Owing' = Owing
    BY <2>1, Zenon DEF Owing
  <2> QED
    BY <1>3, <2>1, <2>2, ZenonT(60) DEF Waking, Flagged
<1>4. ASSUME NEW p \in Procs, StepOf(p), WakeOf(p), ~ Interrupted
      PROVE  Waking'
  <2>1. alive' = alive
    BY <1>4, Zenon DEF StepOf
  <2> QED
    BY <1>4, <2>1, WaitersStep, FlagsStep, ZenonT(60) DEF Waking
<1> QED
  BY <1>1, <1>2, <1>3, <1>4, EveryWake, ZenonT(60)

\* No wakeup is lost, with any number of processes of each kind and whoever is
\* killed, until a put is cut short: rdlock() tests for a new frame and for the flag
\* with the mutex, and gives the mutex up only as it begins to wait; ach_put() numbers
\* its frame and ach_cancel() sets the flag before they broadcast, and both had the
\* mutex in between.
THEOREM NoWakeupLost == Spec => []WakeupOwed
<1>1. Init => Numbers /\ New /\ Waking
  <2> SUFFICES ASSUME Init
               PROVE  Waking
    BY InitNumbers, Zenon
  <2>1. pc = [p \in Procs |-> "idle"]
    BY Zenon DEF Init
  <2> QED
    BY <2>1, Zenon DEF Waking, Flagged, Procs
<1>2. IInv /\ Numbers /\ Waking => WakeupOwed
  <2> SUFFICES ASSUME IInv, Numbers, Waking, ~ Interrupted
               PROVE  WakeupOwed
    BY Zenon DEF WakeupOwed
  <2>1. ASSUME NEW r \in Readers \cap alive, pc[r] \in {"sleep", "wait"}
        PROVE  last_seq - seq_num[r] <= Cardinality(Owing)
    <3>1. last_seq \in Nat /\ seq_num[r] \in Nat
      BY Zenon DEF Numbers
    <3>2. /\ pc[r] = "sleep" => seq_num[r] = last_seq
          /\ pc[r] = "wait" => last_seq - seq_num[r] <= Cardinality(Owing)
      BY Zenon DEF Waking
    <3> QED
      BY <2>1, <3>1, <3>2, OwingCount, SMTT(30)
  <2>2. ASSUME NEW c \in Cancellers, pc[c] = "broadcast"
        PROVE  cancel[arg[c].target] /\ (arg[c].target \in alive => pc[arg[c].target] # "sleep")
    BY <2>2, Zenon DEF Waking, Flagged
  <2> QED
    BY <2>1, <2>2, Zenon DEF WakeupOwed
<1> QED
  BY <1>1, <1>2, NextNumbers, NextWaking, Invariance, PTL DEF Spec
=============================================================================
