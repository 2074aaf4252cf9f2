------------------------ MODULE AchChannelRingProofs ------------------------
(***************************************************************************)
(* The channel implements the ring until a put is cut short, for any       *)
(* number of processes, whoever else is killed.  A step of the channel is  *)
(* one of the ring when the process has the mutex and is past              *)
(* check_lock(); by then no other writer is changing the ring, so that the *)
(* put of the ring is that of one writer only.  All other steps are quiet. *)
(***************************************************************************)
EXTENDS AchChannelRing, AchChannelProofs, FiniteSetTheorems

\* The writers that have yet to number their frame.
Pending == {w \in Writers : pc[w] \in {"lock", "check", "mark", "head", "free", "index"}}

\* The bound on the frames counts those that are being put.
Bound == last_seq \in Nat /\ last_seq + Cardinality(Pending) <= MaxSeq

\* What the steps rely on.
RInv == IInv /\ Bound /\ ~ Interrupted

-----------------------------------------------------------------------------
(* The writer that changes the ring. *)

\* There is no other.
LEMMA ChooseOnly ==
  ASSUME NEW S, NEW w \in S, \A v \in S : v = w
  PROVE  (CHOOSE v \in S : TRUE) = w
<1>1. (CHOOSE v \in S : TRUE) \in S
  BY ZenonT(60)
<1> QED
  BY <1>1, Zenon

\* With the mutex held by w, no other writer changes the ring.
LEMMA OthersOutside ==
  ASSUME RInv, NEW p \in Procs, owner = p, NEW w \in Writers, w # p
  PROVE  pc[w] \notin RingLabels
<1>1. pc[w] \in Changing => w \in alive
  BY ZenonT(60) DEF RInv, Interrupted
<1>2. w \in alive /\ pc[w] \in Section => owner = w
  BY Zenon DEF RInv, IInv, Exclusive, HoldsMutex
<1> QED
  BY <1>1, <1>2, ZenonT(60) DEF RingLabels, Changing, Section

\* While nobody changes the ring it is not in a put.
LEMMA RingIdle ==
  ASSUME \A w \in Writers : pc[w] \notin RingLabels
  PROVE  RingPc = "idle" /\ RingLen = 0 /\ RingIdx = 0 /\ RingI = 0
<1>1. RingWriters = {}
  BY Zenon DEF RingWriters
<1> QED
  BY <1>1, Zenon DEF RingPc, RingLen, RingIdx, RingI

\* The same of the next state.
LEMMA RingIdleNext ==
  ASSUME \A w \in Writers : pc'[w] \notin RingLabels
  PROVE  RingPc' = "idle" /\ RingLen' = 0 /\ RingIdx' = 0 /\ RingI' = 0
<1>1. RingWriters' = {}
  BY Zenon DEF RingWriters, RingLabels, Changing
<1> QED
  BY <1>1, Zenon DEF RingPc, RingLen, RingIdx, RingI

\* The put of the only writer that changes the ring is the put of the ring.
LEMMA RingBusy ==
  ASSUME NEW w \in Writers, pc[w] \in RingLabels,
         \A v \in Writers \ {w} : pc[v] \notin RingLabels
  PROVE  RingPc = pc[w] /\ RingLen = arg[w].len /\ RingIdx = idx[w] /\ RingI = slot[w]
<1>1. w \in RingWriters /\ \A v \in RingWriters : v = w
  BY Zenon DEF RingWriters
<1>2. RingWriter = w /\ RingWriters # {}
  BY <1>1, ChooseOnly, ZenonT(60) DEF RingWriter
<1> QED
  BY <1>2, ZenonT(60) DEF RingPc, RingLen, RingIdx, RingI

\* The same of the next state.
LEMMA RingBusyNext ==
  ASSUME NEW w \in Writers, pc'[w] \in RingLabels,
         \A v \in Writers \ {w} : pc'[v] \notin RingLabels
  PROVE  RingPc' = pc'[w] /\ RingLen' = arg'[w].len /\ RingIdx' = idx'[w] /\ RingI' = slot'[w]
<1>1. w \in RingWriters' /\ \A v \in RingWriters' : v = w
  BY Zenon DEF RingWriters, RingLabels, Changing
<1>2. RingWriter' = w /\ RingWriters' # {}
  BY <1>1, ChooseOnly, ZenonT(60) DEF RingWriter
<1> QED
  BY <1>2, Zenon DEF RingPc, RingLen, RingIdx, RingI

\* A step that leaves the writers' changes alone leaves the put of the ring alone.
LEMMA RingSame ==
  ASSUME \A w \in Writers :
           \/ pc[w] \notin RingLabels /\ pc'[w] \notin RingLabels
           \/ /\ pc'[w] = pc[w] /\ arg'[w] = arg[w] /\ idx'[w] = idx[w] /\ slot'[w] = slot[w]
  PROVE  UNCHANGED <<RingPc, RingLen, RingIdx, RingI>>
<1>1. RingWriters' = RingWriters
  BY Zenon DEF RingWriters, RingLabels, Changing
<1>2. RingWriter' = RingWriter
  BY <1>1, ZenonT(60) DEF RingWriter
<1>3. CASE RingWriters = {}
  BY <1>1, <1>3, ZenonT(60) DEF RingPc, RingLen, RingIdx, RingI
<1>4. CASE RingWriters # {}
  <2>1. RingWriter \in RingWriters
    BY <1>4, Zenon DEF RingWriter
  <2>2. RingWriter \in Writers /\ pc[RingWriter] \in RingLabels
    BY <2>1, Zenon DEF RingWriters
  <2>3. /\ pc'[RingWriter] = pc[RingWriter] /\ arg'[RingWriter] = arg[RingWriter]
        /\ idx'[RingWriter] = idx[RingWriter] /\ slot'[RingWriter] = slot[RingWriter]
    BY <2>2, Zenon
  <2> QED
    BY <1>1, <1>2, <1>4, <2>3, SMTT(30) DEF RingPc, RingLen, RingIdx, RingI
<1> QED
  BY <1>3, <1>4, ZenonT(60)

-----------------------------------------------------------------------------
(* The steps of the ring. *)

\* wrlock() sets the dirty bit: the put of the ring begins.
LEMMA MarkStep ==
  ASSUME RInv, NEW w \in Writers, PutMark(w)
  PROVE  \E len \in Lengths : Ring!PutCall(len)
<1>1. /\ w \in alive /\ w \in Procs /\ pc[w] = "mark" /\ pc' = [pc EXCEPT ![w] = "head"]
      /\ UNCHANGED <<shm, arg, idx, slot, seq_num, next_index, start>>
      /\ reply' = [call |-> "none"]
  BY Zenon DEF PutMark, At, Goto, handles, Procs
<1>2. owner = w
  BY <1>1, HoldsIt, ZenonT(60) DEF RInv, Section
<1>3. \A v \in Writers \ {w} : pc[v] \notin RingLabels
  BY <1>1, <1>2, OthersOutside, SMTT(30)
<1>4. RingPc = "idle" /\ RingIdx = 0 /\ RingI = 0
  BY <1>1, <1>3, RingIdle, SMTT(30) DEF RingLabels, Changing
<1>5. pc'[w] = "head" /\ \A v \in Writers \ {w} : pc'[v] = pc[v]
  BY <1>1, ZenonT(60) DEF RInv, IInv, TypeOK, Procs
<1>6. idx[w] = 0 /\ slot[w] = 0 /\ arg[w].len \in Lengths /\ arg[w].len \in 1 .. DataSize
  BY <1>1, ZenonT(60) DEF RInv, IInv, Cleared, Roles, PutCalls
<1>7. RingPc' = "head" /\ RingLen' = arg[w].len /\ RingIdx' = 0 /\ RingI' = 0
  BY <1>1, <1>3, <1>5, <1>6, RingBusyNext, SMTT(30) DEF RingLabels, Changing
<1>8. last_seq < MaxSeq
  <2>1. IsFiniteSet(Pending) /\ w \in Pending
    BY <1>1, RolesAssumption, FS_Subset, ZenonT(60) DEF Pending
  <2>2. Cardinality(Pending) \in Nat /\ Cardinality(Pending) # 0
    BY <2>1, FS_CardinalityType, FS_EmptySet, SMTT(30)
  <2> QED
    BY <2>2, MaxSeqAssumption DEF RInv, Bound
<1>9. Ring!PutCall(arg[w].len)
  BY <1>1, <1>4, <1>6, <1>7, <1>8, DataSizeAssumption, SMTT(30) DEF Ring!PutCall, Ring!NoReply, Ring!shm, Ring!handles, shm
<1> QED
  BY <1>6, <1>9, ZenonT(60)

\* The blocks of ach_put() are those of the ring.
LEMMA BlockStep ==
  ASSUME RInv, NEW w \in Writers,
         PutHead(w) \/ PutFree(w) \/ PutCopy(w) \/ PutIndex(w) \/ PutAdvance(w)
  PROVE  Ring!PutHead \/ Ring!PutFree \/ Ring!PutCopy \/ Ring!PutIndex \/ Ring!PutAdvance
<1>1. w \in alive /\ w \in Procs /\ pc[w] \in RingLabels
  BY Zenon DEF PutHead, PutFree, PutCopy, PutIndex, PutAdvance, At, RingLabels, Changing, Procs
<1>2. pc = [q \in Procs |-> pc[q]] /\ DOMAIN idx = Writers /\ DOMAIN slot = Writers
  BY Zenon DEF RInv, IInv, TypeOK
<1>3. owner = w
  BY <1>1, Zenon DEF RInv, IInv, Exclusive, HoldsMutex, RingLabels, Changing, Section
<1>4. \A v \in Writers \ {w} : pc[v] \notin RingLabels
  BY <1>1, <1>3, OthersOutside, ZenonT(60)
<1>5. RingPc = pc[w] /\ RingLen = arg[w].len /\ RingIdx = idx[w] /\ RingI = slot[w]
  BY <1>1, <1>4, RingBusy, SMTT(30)
<1>6. ASSUME NEW l \in RingLabels, pc' = [pc EXCEPT ![w] = l]
      PROVE  RingPc' = l /\ RingLen' = arg'[w].len /\ RingIdx' = idx'[w] /\ RingI' = slot'[w]
  <2>1. pc'[w] = l /\ \A v \in Writers \ {w} : pc'[v] = pc[v]
    BY <1>1, <1>2, <1>6, ZenonT(60) DEF Procs
  <2> QED
    BY <1>4, <2>1, RingBusyNext, ZenonT(60)
<1> USE DEF At, Goto, sync, handles, history, Ring!handles
<1>7. CASE PutHead(w)
  <2>1. /\ pc[w] = "head" /\ ClearHead /\ pc' = [pc EXCEPT ![w] = "free"]
        /\ idx'[w] = index_head /\ slot'[w] = (index_head + index_free') % IndexCnt
        /\ arg' = arg /\ UNCHANGED <<seq_num, next_index, reply, start>>
    BY <1>2, <1>7, SMTT(30) DEF PutHead
  <2>2. RingPc' = "free" /\ RingLen' = RingLen /\ RingIdx' = index_head
        /\ RingI' = (index_head + index_free') % IndexCnt
    BY <1>5, <1>6, <2>1, ZenonT(60) DEF RingLabels, Changing
  <2>3. Ring!ClearHead
    BY <2>1, ZenonT(60) DEF ClearHead, Ring!ClearHead, free_index, Ring!free_index, ZeroIndex, Ring!ZeroIndex, shm, Ring!shm
  <2> QED
    BY <1>5, <2>1, <2>2, <2>3, SMTT(30) DEF Ring!PutHead
<1>8. CASE PutFree(w)
  <2>1. /\ pc[w] = "free" /\ data_free < arg[w].len /\ free_index(slot[w]) /\ pc' = [pc EXCEPT ![w] = "free"]
        /\ slot'[w] = (slot[w] + 1) % IndexCnt
        /\ idx' = idx /\ arg' = arg /\ UNCHANGED <<seq_num, next_index, reply, start>>
    BY <1>1, <1>2, <1>8, SMTT(30) DEF PutFree
  <2>2. RingPc' = "free" /\ RingLen' = RingLen /\ RingIdx' = RingIdx /\ RingI' = (RingI + 1) % IndexCnt
    BY <1>5, <1>6, <2>1, ZenonT(60) DEF RingLabels, Changing
  <2>3. Ring!free_index(RingI)
    BY <1>5, <2>1, ZenonT(60) DEF free_index, Ring!free_index, ZeroIndex, Ring!ZeroIndex
  <2> QED
    BY <1>5, <2>1, <2>2, <2>3, ZenonT(60) DEF Ring!PutFree
<1>9. CASE PutCopy(w)
  <2>1. /\ pc[w] = "free" /\ data_free >= arg[w].len /\ pc' = [pc EXCEPT ![w] = "index"]
        /\ CopyIn(Buffer(last_seq + 1, arg[w].len), arg[w].len)
        /\ UNCHANGED <<arg, idx, slot, seq_num, next_index, reply, start>>
    BY <1>9, SMTT(30) DEF PutCopy
  <2>2. RingPc' = "index" /\ RingLen' = RingLen /\ RingIdx' = RingIdx /\ RingI' = RingI
    BY <1>5, <1>6, <2>1, ZenonT(60) DEF RingLabels, Changing
  <2>3. CopyIn(Buffer(last_seq + 1, RingLen), RingLen)
    BY <1>5, <2>1, ZenonT(60)
  <2>4. Ring!CopyIn(Ring!Buffer(last_seq + 1, RingLen), RingLen)
    BY <2>3, ZenonT(60) DEF CopyIn, Ring!CopyIn, Buffer, Ring!Buffer, Byte, Ring!Byte, memcpy, Ring!memcpy
  <2> QED
    BY <1>5, <2>1, <2>2, <2>4, ZenonT(60) DEF Ring!PutCopy
<1>10. CASE PutIndex(w)
  <2>1. /\ pc[w] = "index" /\ pc' = [pc EXCEPT ![w] = "advance"] /\ WriteIndex(idx[w], arg[w].len)
        /\ UNCHANGED <<arg, idx, slot, seq_num, next_index, reply, start>>
    BY <1>10, SMTT(30) DEF PutIndex
  <2>2. RingPc' = "advance" /\ RingLen' = RingLen /\ RingIdx' = RingIdx /\ RingI' = RingI
    BY <1>5, <1>6, <2>1, ZenonT(60) DEF RingLabels, Changing
  <2>3. Ring!WriteIndex(RingIdx, RingLen)
    BY <1>5, <2>1, ZenonT(60) DEF WriteIndex, Ring!WriteIndex
  <2> QED
    BY <1>5, <2>1, <2>2, <2>3, ZenonT(60) DEF Ring!PutIndex
<1>11. CASE PutAdvance(w)
  <2>1. /\ pc[w] = "advance" /\ pc' = [pc EXCEPT ![w] = "clean"] /\ AdvanceHeads(arg[w].len)
        /\ reply' = [call |-> "put", status |-> "ACH_OK"]
        /\ start' = Append(start, start[Len(start)] + arg[w].len)
        /\ UNCHANGED <<seq_num, next_index>>
    BY <1>11, ZenonT(60) DEF PutAdvance
  <2>2. \A v \in Writers : pc'[v] \notin RingLabels
    BY <1>1, <1>2, <1>4, <2>1, SMTT(30) DEF RingLabels, Changing, Procs
  <2>3. RingPc' = "idle" /\ RingLen' = 0 /\ RingIdx' = 0 /\ RingI' = 0
    BY <2>2, RingIdleNext, ZenonT(60)
  <2>4. Ring!AdvanceHeads(RingLen)
    BY <1>5, <2>1, ZenonT(60) DEF AdvanceHeads, Ring!AdvanceHeads
  <2> QED
    BY <1>5, <2>1, <2>3, <2>4, ZenonT(60) DEF Ring!PutAdvance, Ring!PutReply
<1> QED
  BY <1>7, <1>8, <1>9, <1>10, <1>11, SMTT(30)

\* ach_get() and ach_flush() read while no put is under way.
LEMMA ReadStep ==
  ASSUME RInv, NEW r \in Readers, GetRead(r) \/ FlushRead(r)
  PROVE  Ring!Next
<1>1. /\ r \in alive /\ r \in Procs /\ r \notin Writers /\ pc[r] = "read" /\ pc' = [pc EXCEPT ![r] = "unlock"]
      /\ UNCHANGED <<shm, arg, idx, slot, start>>
  BY RolesAssumption, ZenonT(60) DEF GetRead, FlushRead, At, Procs
<1>2. owner = r
  BY <1>1, HoldsIt, SMTT(30) DEF RInv, Section
<1>3. \A w \in Writers : pc[w] \notin RingLabels /\ pc'[w] = pc[w]
  BY <1>1, <1>2, OthersOutside, SMTT(30) DEF RInv, IInv, TypeOK, Procs
<1>4. RingPc = "idle" /\ UNCHANGED <<RingPc, RingLen, RingIdx, RingI>>
  BY <1>3, RingIdle, RingSame, ZenonT(60)
<1>5. CASE GetRead(r)
  <2> DEFINE o == arg[r].opts
             res == GetLocked(seq_num[r], next_index[r], o.size, o.last, o.copy, FALSE)
             i == read_index(seq_num[r], next_index[r], o.last, FALSE)
             opt == [last |-> o.last, copy |-> o.copy]
  <2>1. /\ seq_num' = [seq_num EXCEPT ![r] = res.seq_num]
        /\ next_index' = [next_index EXCEPT ![r] = res.next_index]
        /\ reply' = [call |-> "get", handle |-> r, from |-> seq_num[r], opts |-> opt,
                     status |-> res.status, seq |-> res.seq_num, buf |-> res.buf, index |-> i]
    BY <1>5, ZenonT(60) DEF GetRead
  <2>2. o \in GetOptions
    <3>1. arg[r] \in GetCalls \cup {FlushCall} /\ arg[r].call = "get"
      BY <1>1, <1>5, ZenonT(60) DEF RInv, IInv, Roles, GetRead
    <3> QED
      BY <3>1 DEF GetCalls, FlushCall
  <2>3. opt \in Ring!Options /\ o.size \in {q.size : q \in GetOptions} /\ opt.last = o.last /\ opt.copy = o.copy
    BY <2>2, GetOptionsAssumption, ZenonT(60) DEF Ring!Options
  <2>4. /\ res = Ring!GetLocked(seq_num[r], next_index[r], o.size, o.last, o.copy, FALSE)
        /\ i = Ring!read_index(seq_num[r], next_index[r], o.last, FALSE)
    BY Zenon DEF GetLocked, Ring!GetLocked, read_index, Ring!read_index, NextMatches, Ring!NextMatches,
       last_index_i, Ring!last_index_i, oldest_index_i, Ring!oldest_index_i,
       ach_get_from_offset, Ring!ach_get_from_offset, Result, Ring!Result, CopyOut, Ring!CopyOut,
       memcpy, Ring!memcpy, ZeroByte, Ring!ZeroByte, Byte, Ring!Byte
  <2> HIDE DEF res, i, opt, o
  <2>5. UNCHANGED <<Ring!shm, Ring!put, start>>
    BY <1>1, <1>4, ZenonT(60) DEF shm, Ring!shm, Ring!put
  <2>6. Ring!ach_get(r, o.size, opt, FALSE)
    BY <1>4, <2>1, <2>3, <2>4, <2>5, ZenonT(60) DEF Ring!ach_get, Ring!GetReply
  <2> QED
    BY <2>3, <2>6, ZenonT(60) DEF Ring!Next
<1>6. CASE FlushRead(r)
  <2>1. /\ seq_num' = [seq_num EXCEPT ![r] = FlushLocked.seq_num]
        /\ next_index' = [next_index EXCEPT ![r] = FlushLocked.next_index]
        /\ reply' = [call |-> "none"]
    BY <1>6, ZenonT(60) DEF FlushRead
  <2>2. FlushLocked = Ring!FlushLocked
    BY ZenonT(60) DEF FlushLocked, Ring!FlushLocked, Result, Ring!Result
  <2>3. UNCHANGED <<Ring!shm, Ring!put, start>>
    BY <1>1, <1>4, Zenon DEF shm, Ring!shm, Ring!put
  <2>4. Ring!ach_flush(r)
    BY <1>4, <2>1, <2>2, <2>3, ZenonT(60) DEF Ring!ach_flush, Ring!NoReply
  <2> QED
    BY <2>4, ZenonT(60) DEF Ring!Next
<1> QED
  BY <1>5, <1>6, ZenonT(60)

\* The steps that leave the ring alone, or only forget the last reply.
LEMMA QuietStep ==
  ASSUME UNCHANGED <<shm, seq_num, next_index, start>>, reply' \in {reply, [call |-> "none"]},
         \A w \in Writers :
           \/ pc[w] \notin RingLabels /\ pc'[w] \notin RingLabels
           \/ pc'[w] = pc[w] /\ arg'[w] = arg[w] /\ idx'[w] = idx[w] /\ slot'[w] = slot[w]
  PROVE  [Ring!Next]_(Ring!vars)
<1>1. UNCHANGED <<RingPc, RingLen, RingIdx, RingI>>
  BY RingSame, ZenonT(60)
<1>2. UNCHANGED <<Ring!shm, Ring!handles, Ring!put, start>>
  BY <1>1, ZenonT(60) DEF shm, Ring!shm, Ring!handles, Ring!put
<1>3. CASE reply' = reply
  BY <1>2, <1>3, ZenonT(60) DEF Ring!vars
<1>4. CASE reply' # reply
  <2>1. Ring!Forget
    BY <1>2, <1>4, ZenonT(60) DEF Ring!Forget, Ring!NoReply
  <2> QED
    BY <2>1, ZenonT(60) DEF Ring!Next
<1> QED
  BY <1>3, <1>4, ZenonT(60)

\* Of the writers, only p moves.
OthersKeep(p) ==
  \A w \in Writers \ {p} :
    pc'[w] = pc[w] /\ arg'[w] = arg[w] /\ idx'[w] = idx[w] /\ slot'[w] = slot[w]

\* Every step that does not change the ring, and what it leaves as it was.
Quiet(p) ==
  /\ OthersKeep(p)
  /\ p \in Writers => pc[p] \notin RingLabels /\ pc'[p] \notin RingLabels
  /\ UNCHANGED <<shm, seq_num, next_index, start>>
  /\ reply' \in {reply, [call |-> "none"]}
  /\ Pending' \subseteq Pending

\* Such a step is none of the ring, or forgets its reply.
LEMMA QuietRefines ==
  ASSUME NEW p, Quiet(p)
  PROVE  [Ring!Next]_(Ring!vars)
<1>1. \A w \in Writers :
        \/ pc[w] \notin RingLabels /\ pc'[w] \notin RingLabels
        \/ pc'[w] = pc[w] /\ arg'[w] = arg[w] /\ idx'[w] = idx[w] /\ slot'[w] = slot[w]
  BY Zenon DEF Quiet, OthersKeep
<1> QED
  BY <1>1, QuietStep, ZenonT(60) DEF Quiet

\* A process moves alone, by Goto or by Return.
LEMMA MovesAlone ==
  ASSUME RInv, NEW p \in Procs, NEW l, pc' = [pc EXCEPT ![p] = l],
         arg' = arg \/ arg' = [arg EXCEPT ![p] = NoCall],
         \/ UNCHANGED <<idx, slot>>
         \/ /\ idx' = [w \in Writers |-> IF w = p THEN 0 ELSE idx[w]]
            /\ slot' = [w \in Writers |-> IF w = p THEN 0 ELSE slot[w]]
  PROVE  OthersKeep(p) /\ pc'[p] = l
<1>1. pc = [q \in Procs |-> pc[q]] /\ arg = [q \in Procs |-> arg[q]] /\ Writers \subseteq Procs
  BY ZenonT(60) DEF RInv, IInv, TypeOK, Procs
<1> QED
  BY <1>1, ZenonT(60) DEF OthersKeep

\* Locking and check_lock() are quiet: before a put is cut short none fails to get
\* the lock and goes on.
LEMMA LockQuiet ==
  ASSUME RInv, IInv', ~ Interrupted', NEW p \in Procs, Lock(p) \/ check_lock(p)
  PROVE  Quiet(p)
<1> DEFINE Moves ==
      /\ \E l : pc' = [pc EXCEPT ![p] = l]
      /\ arg' = arg \/ arg' = [arg EXCEPT ![p] = NoCall]
      /\ \/ UNCHANGED <<idx, slot>>
         \/ /\ idx' = [w \in Writers |-> IF w = p THEN 0 ELSE idx[w]]
            /\ slot' = [w \in Writers |-> IF w = p THEN 0 ELSE slot[w]]
<1>1. Moves
  <2>1. ASSUME NEW s, Return(p, s) \/ LockFailed(p, s) \/ Locked(p)
        PROVE  Moves
    BY <2>1, ZenonT(60) DEF Return, LockFailed, Locked
  <2>2. CASE Lock(p)
    BY <2>2, ZenonT(60) DEF Lock
  <2>3. CASE check_lock(p)
    <3>1. rc[p] \in {"0", "ETIMEDOUT", "EOWNERDEAD"}
      BY <2>3, ZenonT(60) DEF check_lock, At, RInv, IInv, Results
    <3> HIDE DEF Moves
    <3> QED
      BY <2>1, <2>3, <3>1, ZenonT(60) DEF check_lock
  <2> QED
    BY <2>2, <2>3, ZenonT(60)
<1>2. PICK l : pc' = [pc EXCEPT ![p] = l]
  BY <1>1, ZenonT(60)
<1>3. OthersKeep(p) /\ pc'[p] = l
  BY <1>1, <1>2, MovesAlone, ZenonT(60)
<1> HIDE DEF Moves
<1>4. UNCHANGED <<shm, seq_num, next_index, reply, start>>
  BY Zenon DEF Lock, check_lock, handles, history
<1>5. pc[p] \in {"lock", "relock", "check", "recheck"}
  BY ZenonT(60) DEF Lock, check_lock, At
<1>6. ASSUME p \in Writers
      PROVE  pc'[p] \in {"idle", "check", "mark"}
  <2>1. CASE Lock(p)
    <3>1. pc[p] # "relock" /\ DOMAIN pc = Procs /\ p \in Procs
      BY <1>6, ZenonT(60) DEF RInv, IInv, TypeOK, Roles, WLabels, Procs
    <3> QED
      BY <2>1, <3>1, ZenonT(60) DEF Lock, At
  <2>2. CASE check_lock(p)
    <3>1. arg[p].call = "put" /\ rc[p] \in {"0", "ETIMEDOUT", "EOWNERDEAD"} /\ pc[p] \in {"check", "recheck"}
      BY <1>6, <2>2, SMTT(30) DEF check_lock, At, RInv, IInv, Roles, Results, PutCalls
    <3>2. \/ pc' = [pc EXCEPT ![p] = "idle"] \/ pc' = [pc EXCEPT ![p] = "mark"]
          \/ pc' = [pc EXCEPT ![p] = "head"] /\ owner' = NoOne
      BY <2>2, <3>1, ZenonT(60) DEF check_lock, Return, LockFailed, Locked
    <3>3. pc'[p] = "head" => owner' = p
      <4>1. p \in alive' /\ HoldsMutex'
        BY <2>2, ZenonT(60) DEF check_lock, At, IInv, Exclusive
      <4> QED
        BY <4>1, ZenonT(60) DEF HoldsMutex, Section
    <3> QED
      BY <3>2, <3>3, NoOneAssumption, SMTT(30) DEF RInv, IInv, TypeOK
  <2> QED
    BY <2>1, <2>2, ZenonT(60)
<1>7. Pending' \subseteq Pending
  <2>1. p \in Writers => p \in Pending
    BY <1>5, SMTT(30) DEF Pending, RInv, IInv, Roles, WLabels
  <2> QED
    BY <1>3, <2>1, SMTT(30) DEF Pending, OthersKeep
<1> QED
  BY <1>3, <1>4, <1>5, <1>6, <1>7, SMTT(30) DEF Quiet, RingLabels, Changing

\* So are the steps of a put that come before and after its changes.
LEMMA PutQuiet ==
  ASSUME RInv, NEW w \in Writers, PutClean(w) \/ PutUnlock(w)
  PROVE  Quiet(w)
<1>1. PICK l \in {"unlock", "broadcast", "idle"} : pc' = [pc EXCEPT ![w] = l]
  BY ZenonT(60) DEF PutClean, PutUnlock, UnlockOr, Goto, Return
<1>2. /\ arg' = arg \/ arg' = [arg EXCEPT ![w] = NoCall]
      /\ \/ UNCHANGED <<idx, slot>>
         \/ /\ idx' = [v \in Writers |-> IF v = w THEN 0 ELSE idx[v]]
            /\ slot' = [v \in Writers |-> IF v = w THEN 0 ELSE slot[v]]
  BY Zenon DEF PutClean, PutUnlock, UnlockOr, Goto, Return
<1>3. OthersKeep(w) /\ pc'[w] = l
  BY <1>1, <1>2, MovesAlone, ZenonT(60) DEF Procs
<1>4. UNCHANGED <<shm, seq_num, next_index, start>> /\ reply' \in {reply, [call |-> "none"]}
  BY ZenonT(60) DEF PutClean, PutUnlock, handles, history
<1>5. pc[w] \in {"clean", "unlock"}
  BY Zenon DEF PutClean, PutUnlock, At
<1>6. Pending' \subseteq Pending
  BY <1>3, ZenonT(60) DEF Pending, OthersKeep
<1> QED
  BY <1>3, <1>4, <1>5, <1>6, SMTT(30) DEF Quiet, RingLabels, Changing

\* So is the broadcast: no writer waits.
LEMMA BroadcastQuiet ==
  ASSUME RInv, NEW p \in Procs, Broadcast(p)
  PROVE  Quiet(p)
<1>1. /\ pc[p] = "broadcast"
      /\ pc' = [q \in Procs |-> IF q = p THEN "idle"
                                ELSE IF pc[q] = "wait" /\ q \in alive THEN "relock" ELSE pc[q]]
      /\ arg' = [arg EXCEPT ![p] = NoCall]
      /\ idx' = [w \in Writers |-> IF w = p THEN 0 ELSE idx[w]]
      /\ slot' = [w \in Writers |-> IF w = p THEN 0 ELSE slot[w]]
      /\ UNCHANGED <<shm, seq_num, next_index, reply, start>>
  BY ZenonT(60) DEF Broadcast, At, handles, history
<1>2. \A w \in Writers : w \in Procs /\ pc[w] # "wait"
  BY SMTT(30) DEF RInv, IInv, Roles, WLabels, Procs
<1>3. OthersKeep(p) /\ pc'[p] = "idle"
  BY <1>1, <1>2, ZenonT(60) DEF OthersKeep, RInv, IInv, TypeOK
<1>4. Pending' \subseteq Pending
  BY <1>3, SMTT(30) DEF Pending, OthersKeep
<1> QED
  BY <1>1, <1>3, <1>4, ZenonT(60) DEF Quiet, RingLabels, Changing

\* So are the other steps of readers and cancellers.
LEMMA OthersQuiet ==
  ASSUME RInv, NEW p \in Readers \cup Cancellers,
         \/ GetCall(p) \/ WakeUp(p) \/ RdTest(p) \/ RdSleep(p) \/ GetUnlock(p)
         \/ CancelCall(p) \/ CancelFork(p) \/ CancelSet(p) \/ CancelUnlock(p)
  PROVE  Quiet(p)
<1>1. p \in Procs /\ p \notin Writers /\ Writers \subseteq Procs
  BY RolesAssumption, ZenonT(60) DEF Procs
<1>2. pc' = pc \/ \E l : pc' = [pc EXCEPT ![p] = l]
  BY ZenonT(60) DEF GetCall, WakeUp, RdTest, RdSleep, GetUnlock, CancelCall, CancelFork, CancelSet, CancelUnlock,
     Call, Goto, Return, UnlockOr, locals
<1>3. arg' = arg \/ \E a : arg' = [arg EXCEPT ![p] = a]
  BY ZenonT(60) DEF GetCall, WakeUp, RdTest, RdSleep, GetUnlock, CancelCall, CancelFork, CancelSet, CancelUnlock,
     Call, Goto, Return, UnlockOr, locals
<1>4. \/ UNCHANGED <<idx, slot>>
      \/ /\ idx' = [w \in Writers |-> IF w = p THEN 0 ELSE idx[w]]
         /\ slot' = [w \in Writers |-> IF w = p THEN 0 ELSE slot[w]]
  BY ZenonT(60) DEF GetCall, WakeUp, RdTest, RdSleep, GetUnlock, CancelCall, CancelFork, CancelSet, CancelUnlock,
     Call, Goto, Return, UnlockOr, locals
<1>5. UNCHANGED <<shm, seq_num, next_index, start>> /\ reply' \in {reply, [call |-> "none"]}
  BY SMTT(30) DEF GetCall, WakeUp, RdTest, RdSleep, GetUnlock, CancelCall, CancelFork, CancelSet, CancelUnlock,
     handles, history
<1>6. pc = [q \in Procs |-> pc[q]] /\ arg = [q \in Procs |-> arg[q]]
  BY ZenonT(60) DEF RInv, IInv, TypeOK
<1>7. OthersKeep(p)
  BY <1>1, <1>2, <1>3, <1>4, <1>6, SMTT(30) DEF OthersKeep
<1>8. Pending' \subseteq Pending
  BY <1>1, <1>7, ZenonT(60) DEF Pending, OthersKeep
<1> QED
  BY <1>1, <1>5, <1>7, <1>8, ZenonT(60) DEF Quiet

-----------------------------------------------------------------------------
(* The bound on the number of frames. *)

\* A step that publishes nothing keeps the bound.
LEMMA BoundKept ==
  ASSUME Bound, last_seq' = last_seq, Pending' \subseteq Pending
  PROVE  Bound'
<1>1. IsFiniteSet(Pending)
  BY RolesAssumption, FS_Subset, ZenonT(60) DEF Pending
<1>2. /\ Cardinality(Pending') <= Cardinality(Pending)
      /\ Cardinality(Pending) \in Nat /\ Cardinality(Pending') \in Nat
  BY <1>1, FS_Subset, FS_CardinalityType, ZenonT(60)
<1> QED
  BY <1>2, MaxSeqAssumption, SMTT(30) DEF Bound

\* A put that begins is within the bound.
LEMMA CallBound ==
  ASSUME RInv, NEW w \in Writers, PutCall(w)
  PROVE  Bound'
<1>1. /\ pc[w] = "idle" /\ pc' = [pc EXCEPT ![w] = "lock"] /\ last_seq' = last_seq
      /\ last_seq + Cardinality(Putting) < MaxSeq
  BY SMTT(30) DEF PutCall, Call, At, shm
<1>2. pc = [q \in Procs |-> pc[q]] /\ Writers \subseteq Procs
  BY ZenonT(60) DEF RInv, IInv, TypeOK, Procs
<1>3. Pending' \subseteq Pending \cup {w}
  BY <1>1, <1>2, ZenonT(60) DEF Pending
<1>4. IsFiniteSet(Putting) /\ IsFiniteSet(Pending) /\ Pending \subseteq Putting
  BY RolesAssumption, FS_Subset, ZenonT(60) DEF Putting, Pending
<1>5. /\ Cardinality(Pending) <= Cardinality(Putting)
      /\ Cardinality(Pending) \in Nat /\ Cardinality(Putting) \in Nat
  BY <1>4, FS_Subset, FS_CardinalityType, SMTT(30)
<1>6. /\ IsFiniteSet(Pending \cup {w})
      /\ Cardinality(Pending \cup {w}) <= Cardinality(Pending) + 1
  BY <1>4, <1>5, FS_AddElement, SMTT(30)
<1>7. /\ Cardinality(Pending') <= Cardinality(Pending \cup {w})
      /\ Cardinality(Pending') \in Nat /\ Cardinality(Pending \cup {w}) \in Nat
  BY <1>3, <1>6, FS_Subset, FS_CardinalityType, SMTT(30)
<1> QED
  BY <1>1, <1>5, <1>6, <1>7, MaxSeqAssumption, SMTT(30) DEF RInv, Bound

\* A put uses up its place when it numbers its frame; the other steps of a put
\* publish nothing.
LEMMA PutBound ==
  ASSUME RInv, NEW w \in Writers,
         PutMark(w) \/ PutHead(w) \/ PutFree(w) \/ PutCopy(w) \/ PutIndex(w) \/ PutAdvance(w)
  PROVE  Bound'
<1>1. pc = [q \in Procs |-> pc[q]] /\ Writers \subseteq Procs
  BY ZenonT(60) DEF RInv, IInv, TypeOK, Procs
<1>2. CASE PutMark(w) \/ PutHead(w) \/ PutFree(w) \/ PutCopy(w) \/ PutAdvance(w)
  <2>1. last_seq' = last_seq
    BY <1>2, ZenonT(60) DEF PutMark, PutHead, PutFree, PutCopy, PutAdvance, ClearHead, free_index, CopyIn, AdvanceHeads, shm
  <2>2. /\ w \in Pending \/ pc[w] = "advance"
        /\ \/ pc' = pc
           \/ \E l \in {"head", "free", "index", "clean"} :
                pc' = [pc EXCEPT ![w] = l] /\ (pc[w] = "advance" => l = "clean")
    BY <1>2, ZenonT(60) DEF PutMark, PutHead, PutFree, PutCopy, PutAdvance, At, Goto, Pending
  <2>3. Pending' \subseteq Pending
    BY <1>1, <2>2, SMTT(30) DEF Pending
  <2> QED
    BY <2>1, <2>3, BoundKept, SMTT(30) DEF RInv
<1>3. CASE PutIndex(w)
  <2>1. pc[w] = "index" /\ pc' = [pc EXCEPT ![w] = "advance"] /\ last_seq' = last_seq + 1
    BY <1>3, ZenonT(60) DEF PutIndex, At, Goto, WriteIndex
  <2>2. w \in Pending /\ Pending' = Pending \ {w}
    BY <1>1, <2>1, ZenonT(60) DEF Pending
  <2>3. IsFiniteSet(Pending) /\ Cardinality(Pending) \in Nat
    BY RolesAssumption, FS_Subset, FS_CardinalityType, ZenonT(60) DEF Pending
  <2>4. Cardinality(Pending') = Cardinality(Pending) - 1
    BY <2>2, <2>3, FS_RemoveElement, SMTT(30)
  <2> QED
    BY <2>1, <2>3, <2>4, MaxSeqAssumption, SMTT(30) DEF RInv, Bound
<1> QED
  BY <1>2, <1>3, SMTT(30)

-----------------------------------------------------------------------------
\* Until a put is cut short, every step of the channel is a step of the ring, or none,
\* and keeps the bound.
LEMMA NextRefines ==
  ASSUME RInv, IInv', ~ Interrupted', [Next]_vars
  PROVE  [Ring!Next]_(Ring!vars) /\ Bound'
<1>1. ASSUME NEW p, Quiet(p)
      PROVE  [Ring!Next]_(Ring!vars) /\ Bound'
  <2>1. last_seq' = last_seq /\ Pending' \subseteq Pending
    BY <1>1, ZenonT(60) DEF Quiet, shm
  <2> QED
    BY <1>1, <2>1, QuietRefines, BoundKept, SMTT(30) DEF RInv
<1>2. ASSUME NEW p \in Procs, Lock(p) \/ check_lock(p) \/ Broadcast(p)
      PROVE  [Ring!Next]_(Ring!vars) /\ Bound'
  BY <1>1, <1>2, LockQuiet, BroadcastQuiet, SMTT(30)
<1>3. ASSUME NEW p \in Procs, Die(p)
      PROVE  [Ring!Next]_(Ring!vars) /\ Bound'
  <2>1. UNCHANGED <<shm, seq_num, next_index, reply, start, pc, arg, idx, slot>>
    BY <1>3, ZenonT(60) DEF Die, locals, handles, history
  <2>2. last_seq' = last_seq /\ Pending' \subseteq Pending
    BY <2>1, SMTT(30) DEF shm, Pending
  <2> QED
    BY <2>1, <2>2, QuietStep, BoundKept, SMTT(30) DEF RInv
<1>4. ASSUME NEW w \in Writers, PutCall(w)
      PROVE  [Ring!Next]_(Ring!vars) /\ Bound'
  <2>1. /\ pc[w] = "idle" /\ pc' = [pc EXCEPT ![w] = "lock"] /\ \E a : arg' = [arg EXCEPT ![w] = a]
        /\ UNCHANGED <<shm, seq_num, next_index, reply, start, idx, slot>>
    BY <1>4, ZenonT(60) DEF PutCall, Call, At, handles, history
  <2>2. \A v \in Writers : \/ pc[v] \notin RingLabels /\ pc'[v] \notin RingLabels
                           \/ pc'[v] = pc[v] /\ arg'[v] = arg[v] /\ idx'[v] = idx[v] /\ slot'[v] = slot[v]
    BY <2>1, ZenonT(60) DEF RInv, IInv, TypeOK, Procs, RingLabels, Changing
  <2> QED
    BY <1>4, <2>1, <2>2, QuietStep, CallBound, SMTT(30)
<1>5. ASSUME NEW w \in Writers, PutStep(w)
      PROVE  [Ring!Next]_(Ring!vars) /\ Bound'
  <2>1. CASE PutMark(w)
    BY <2>1, MarkStep, PutBound, SMTT(30) DEF Ring!Next
  <2>2. CASE PutHead(w) \/ PutFree(w) \/ PutCopy(w) \/ PutIndex(w) \/ PutAdvance(w)
    BY <2>2, BlockStep, PutBound, SMTT(30) DEF Ring!Next
  <2>3. CASE PutClean(w) \/ PutUnlock(w)
    BY <1>1, <2>3, PutQuiet, SMTT(30)
  <2> QED
    BY <1>2, <1>5, <2>1, <2>2, <2>3, ZenonT(60) DEF PutStep, Procs
<1>6. ASSUME NEW r \in Readers, GetRead(r) \/ FlushRead(r)
      PROVE  [Ring!Next]_(Ring!vars) /\ Bound'
  <2>1. last_seq' = last_seq /\ pc' = [pc EXCEPT ![r] = "unlock"]
    BY <1>6, ZenonT(60) DEF GetRead, FlushRead, shm
  <2>2. Pending' \subseteq Pending
    BY <2>1, SMTT(30) DEF Pending, RInv, IInv, TypeOK, Procs
  <2> QED
    BY <1>6, <2>1, <2>2, ReadStep, BoundKept, SMTT(30) DEF RInv
<1>7. ASSUME NEW r \in Readers, GetCall(r) \/ WakeUp(r) \/ GetStep(r)
      PROVE  [Ring!Next]_(Ring!vars) /\ Bound'
  BY <1>1, <1>2, <1>6, <1>7, OthersQuiet, SMTT(30) DEF GetStep, Procs
<1>8. ASSUME NEW c \in Cancellers, CancelCall(c) \/ CancelFork(c) \/ CancelStep(c)
      PROVE  [Ring!Next]_(Ring!vars) /\ Bound'
  BY <1>1, <1>2, <1>8, OthersQuiet, SMTT(30) DEF CancelStep, Procs
<1>9. CASE UNCHANGED vars
  <2>1. UNCHANGED <<shm, seq_num, next_index, reply, start, pc, arg, idx, slot>>
    BY <1>9, ZenonT(60) DEF vars, locals, handles, history
  <2>2. last_seq' = last_seq /\ Pending' \subseteq Pending
    BY <2>1, ZenonT(60) DEF shm, Pending
  <2> QED
    BY <2>1, <2>2, QuietStep, BoundKept, SMTT(30) DEF RInv
<1> QED
  BY <1>2, <1>3, <1>4, <1>5, <1>7, <1>8, <1>9, SMTT(30) DEF Next

\* A channel that nobody uses yet is a new ring.
LEMMA InitRefines == Init => Ring!Init /\ Bound
<1> SUFFICES ASSUME Init
             PROVE  Ring!Init /\ Bound
  BY Zenon
<1>1. \A w \in Writers : pc[w] = "idle"
  BY Zenon DEF Init, Procs
<1>2. RingPc = "idle" /\ RingLen = 0 /\ RingIdx = 0 /\ RingI = 0
  BY <1>1, RingIdle, ZenonT(60) DEF RingLabels, Changing
<1>3. Ring!ShmInit
  BY ZenonT(60) DEF Init, ShmInit, Ring!ShmInit, ZeroIndex, Ring!ZeroIndex, ZeroByte, Ring!ZeroByte, Byte, Ring!Byte
<1>4. Ring!Init
  BY <1>2, <1>3, SMTT(30) DEF Init, Ring!Init, Ring!NoReply
<1>5. Pending = {} /\ last_seq = 0
  BY <1>1, ZenonT(60) DEF Pending, Init, ShmInit
<1>6. Bound
  BY <1>5, FS_EmptySet, MaxSeqAssumption, SMTT(30) DEF Bound
<1> QED
  BY <1>4, <1>6, ZenonT(60)

\* As long as no writer is killed, the channel implements the ring: puts, gets and
\* flushes of any number of processes, interleaved with cancellations and the
\* deaths of readers, have the effect of one critical section after another.
THEOREM RefinesRing ==
  ASSUME WritersSurvive
  PROVE  Spec => ImplementsRing
<1>1. Init => Ring!Init /\ Bound
  BY InitRefines, ZenonT(60)
<1>2. /\ IInv /\ IInv' /\ ~ Interrupted /\ (~ Interrupted)' /\ Bound /\ [Next]_vars
      => [Ring!Next]_(Ring!vars) /\ Bound'
  BY NextRefines, ZenonT(60) DEF RInv
<1>3. Spec => []IInv
  BY Invariance, ZenonT(60)
<1>4. Spec => []~ Interrupted
  BY NotCut, ZenonT(60)
<1> QED
  BY <1>1, <1>2, <1>3, <1>4, PTL DEF Spec, ImplementsRing, Ring!Spec

\* A put that was cut short stays so.
LEMMA CutStays == IInv /\ [Next]_vars /\ Interrupted => Interrupted'
<1>1. UNCHANGED vars => UNCHANGED <<pc, alive>>
  BY ZenonT(60) DEF vars, locals
<1>2. UNCHANGED <<pc, alive>> /\ Interrupted => Interrupted'
  BY ZenonT(60) DEF Interrupted
<1> QED
  BY <1>1, <1>2, EveryStep, InterruptedStays, ZenonT(60)

-----------------------------------------------------------------------------
(* What readers see. *)

\* Readers see the frames in their order: no handle goes back, and one that passes
\* over frames other than by a flush is told so.
SeesInOrder ==
  \A r \in Readers :
    /\ seq_num'[r] >= seq_num[r]
    /\ seq_num'[r] > seq_num[r] + 1 /\ arg[r].call = "get" => rc'[r] = "ACH_MISSED_FRAME"

\* What a get of the ring does to handles.
RingAdvances ==
  reply'.call = "get" =>
    \A r \in Readers :
      /\ seq_num'[r] >= seq_num[r]
      /\ seq_num'[r] > seq_num[r] + 1 => reply'.status = "ACH_MISSED_FRAME"

\* A get is one of the ring, and a flush goes to the last number.
LEMMA StepSees == IInv /\ Numbers /\ [Next]_vars /\ RingAdvances => SeesInOrder
<1> SUFFICES ASSUME IInv, Numbers, [Next]_vars, RingAdvances
             PROVE  SeesInOrder
  BY ZenonT(60)
<1>1. seq_num \in [Readers -> Nat] /\ last_seq \in Nat /\ \A r \in Readers : seq_num[r] <= last_seq
  BY ZenonT(60) DEF Numbers
<1>2. CASE seq_num' = seq_num
  <2>1. \A r \in Readers : seq_num[r] >= seq_num[r] /\ ~ (seq_num[r] > seq_num[r] + 1)
    BY <1>1, SMTT(30)
  <2> QED
    BY <1>2, <2>1, ZenonT(60) DEF SeesInOrder
<1>3. ASSUME NEW p \in Readers, FlushRead(p)
      PROVE  SeesInOrder
  <2>1. seq_num' = [seq_num EXCEPT ![p] = last_seq] /\ arg[p].call = "flush"
    BY <1>3, ZenonT(60) DEF FlushRead, FlushLocked, Result
  <2>2. \A r \in Readers : seq_num'[r] = IF r = p THEN last_seq ELSE seq_num[r]
    BY <1>1, <2>1, ZenonT(60)
  <2> QED
    BY <1>1, <2>1, <2>2, SMTT(30) DEF SeesInOrder
<1>4. ASSUME NEW p \in Readers, GetRead(p)
      PROVE  SeesInOrder
  <2>1. PICK n, s : /\ seq_num' = [seq_num EXCEPT ![p] = n] /\ rc' = [rc EXCEPT ![p] = s]
                    /\ reply'.call = "get" /\ reply'.status = s
    BY <1>4, ZenonT(60) DEF GetRead
  <2>2. p \in Procs /\ DOMAIN rc = Procs
    BY ZenonT(60) DEF Procs, IInv, TypeOK
  <2>3. rc'[p] = reply'.status
    BY <2>1, <2>2, ZenonT(60)
  <2>4. \A r \in Readers : r # p => seq_num'[r] = seq_num[r]
    BY <1>1, <2>1, ZenonT(60)
  <2>5. \A r \in Readers : /\ seq_num'[r] >= seq_num[r]
                           /\ seq_num'[r] > seq_num[r] + 1 => reply'.status = "ACH_MISSED_FRAME"
    BY <2>1, ZenonT(60) DEF RingAdvances
  <2>6. \A r \in Readers : ~ (seq_num[r] > seq_num[r] + 1)
    BY <1>1, SMTT(30)
  <2> QED
    BY <2>3, <2>4, <2>5, <2>6, ZenonT(60) DEF SeesInOrder
<1>5. CASE UNCHANGED vars
  BY <1>2, <1>5, ZenonT(60) DEF vars, handles
<1>6. ASSUME NEW p \in Procs, StepOf(p) \/ Die(p)
      PROVE  seq_num' = seq_num \/ (p \in Readers /\ (GetRead(p) \/ FlushRead(p)))
  BY <1>6, ZenonT(60) DEF StepOf, Apart, Die, handles
<1> QED
  BY <1>2, <1>3, <1>4, <1>5, <1>6, EveryStep, ZenonT(60)

\* A step that leaves the handles alone keeps to it.
LEMMA SameSees ==
  ASSUME Numbers, seq_num' = seq_num
  PROVE  SeesInOrder
<1>1. \A r \in Readers : seq_num[r] >= seq_num[r] /\ ~ (seq_num[r] > seq_num[r] + 1)
  BY SMTT(30) DEF Numbers
<1> QED
  BY <1>1, ZenonT(60) DEF SeesInOrder

\* The step that cuts a put short is a death.
LEMMA CutSees ==
  ASSUME IInv, Numbers, [Next]_vars, ~ Interrupted, Interrupted'
  PROVE  SeesInOrder
<1>1. CASE UNCHANGED vars
  BY <1>1, SameSees, ZenonT(60) DEF vars, handles
<1>2. ASSUME NEW p \in Procs, Die(p)
      PROVE  SeesInOrder
  BY <1>2, SameSees, ZenonT(60) DEF Die, handles
<1> QED
  BY <1>1, <1>2, EveryStep, InterruptedBy, ZenonT(60)

-----------------------------------------------------------------------------
(* What the theorems of the ring say of the channel. *)

\* The ring of the channel once more, with the theorems about it.
RP == INSTANCE AchRingProofs WITH
  Handles <- Readers,
  Sizes <- {o.size : o \in GetOptions},
  put_pc <- RingPc, put_len <- RingLen, put_idx <- RingIdx, put_i <- RingI

\* It starts in the same states.
LEMMA SameInit == RP!Init <=> Ring!Init
  BY ZenonT(60) DEF RP!Init, Ring!Init, RP!ShmInit, Ring!ShmInit, RP!ZeroIndex,
     Ring!ZeroIndex, RP!ZeroByte, Ring!ZeroByte, RP!Byte, Ring!Byte, RP!NoReply,
     Ring!NoReply

\* It takes the same steps.
LEMMA SameNext == [Ring!Next]_(Ring!vars) => [RP!Next]_(RP!vars)
<1>1. \A len : RP!PutReject(len) <=> Ring!PutReject(len)
  BY ZenonT(60) DEF RP!PutReject, Ring!PutReject, RP!PutReply, Ring!PutReply, RP!shm,
     Ring!shm, RP!handles, Ring!handles, RP!put, Ring!put
<1>2. \A len : RP!PutCall(len) <=> Ring!PutCall(len)
  BY ZenonT(60) DEF RP!PutCall, Ring!PutCall, RP!NoReply, Ring!NoReply, RP!shm, Ring!shm,
     RP!handles, Ring!handles
<1>3. RP!PutHead <=> Ring!PutHead
  BY ZenonT(60) DEF RP!PutHead, Ring!PutHead, RP!ClearHead, Ring!ClearHead, RP!free_index,
     Ring!free_index, RP!ZeroIndex, Ring!ZeroIndex, RP!shm, Ring!shm, RP!handles,
     Ring!handles
<1>4. RP!PutFree <=> Ring!PutFree
  BY ZenonT(60) DEF RP!PutFree, Ring!PutFree, RP!free_index, Ring!free_index, RP!ZeroIndex,
     Ring!ZeroIndex, RP!handles, Ring!handles
<1>5. RP!PutCopy <=> Ring!PutCopy
  BY ZenonT(60) DEF RP!PutCopy, Ring!PutCopy, RP!CopyIn, Ring!CopyIn, RP!Buffer,
     Ring!Buffer, RP!Byte, Ring!Byte, RP!memcpy, Ring!memcpy, RP!handles, Ring!handles
<1>6. RP!PutIndex <=> Ring!PutIndex
  BY ZenonT(60) DEF RP!PutIndex, Ring!PutIndex, RP!WriteIndex, Ring!WriteIndex, RP!handles,
     Ring!handles
<1>7. RP!PutAdvance <=> Ring!PutAdvance
  BY ZenonT(60) DEF RP!PutAdvance, Ring!PutAdvance, RP!AdvanceHeads, Ring!AdvanceHeads,
     RP!PutReply, Ring!PutReply, RP!handles, Ring!handles
<1>8. \A h, size, o, stray : RP!ach_get(h, size, o, stray) <=> Ring!ach_get(h, size, o, stray)
  <2> SUFFICES ASSUME NEW h, NEW size, NEW o, NEW stray
               PROVE  RP!ach_get(h, size, o, stray) <=> Ring!ach_get(h, size, o, stray)
    BY ZenonT(60)
  <2> DEFINE i == RP!read_index(seq_num[h], next_index[h], o.last, stray)
             r == RP!GetLocked(seq_num[h], next_index[h], size, o.last, o.copy, stray)
  <2>1. i = Ring!read_index(seq_num[h], next_index[h], o.last, stray)
    BY ZenonT(60) DEF RP!read_index, Ring!read_index, RP!NextMatches, Ring!NextMatches,
       RP!last_index_i, Ring!last_index_i, RP!oldest_index_i, Ring!oldest_index_i
  <2>2. RP!ach_get_from_offset(seq_num[h], next_index[h], i, size)
        = Ring!ach_get_from_offset(seq_num[h], next_index[h], i, size)
    BY ZenonT(60) DEF RP!ach_get_from_offset, Ring!ach_get_from_offset, RP!Result,
       Ring!Result, RP!CopyOut, Ring!CopyOut, RP!memcpy, Ring!memcpy, RP!Byte,
       Ring!Byte, RP!ZeroByte, Ring!ZeroByte
  <2>3. r = Ring!GetLocked(seq_num[h], next_index[h], size, o.last, o.copy, stray)
    BY <2>1, <2>2, ZenonT(60) DEF RP!GetLocked, Ring!GetLocked, RP!Result, Ring!Result
  <2> QED
    BY <2>1, <2>3, ZenonT(60) DEF RP!ach_get, Ring!ach_get, RP!GetReply, Ring!GetReply,
       RP!shm, Ring!shm, RP!put, Ring!put
<1>9. \A h : RP!ach_flush(h) <=> Ring!ach_flush(h)
  BY ZenonT(60) DEF RP!ach_flush, Ring!ach_flush, RP!FlushLocked, Ring!FlushLocked,
     RP!Result, Ring!Result, RP!NoReply, Ring!NoReply, RP!shm, Ring!shm, RP!put,
     Ring!put
<1>10. \A h : RP!ach_open(h) <=> Ring!ach_open(h)
  BY ZenonT(60) DEF RP!ach_open, Ring!ach_open, RP!NoReply, Ring!NoReply, RP!shm, Ring!shm,
     RP!put, Ring!put
<1>11. RP!Forget <=> Ring!Forget
  BY ZenonT(60) DEF RP!Forget, Ring!Forget, RP!NoReply, Ring!NoReply, RP!shm, Ring!shm,
     RP!handles, Ring!handles, RP!put, Ring!put
<1>12. RP!Options = Ring!Options
  BY ZenonT(60) DEF RP!Options, Ring!Options
<1>13. RP!Next <=> Ring!Next
  BY <1>1, <1>2, <1>3, <1>4, <1>5, <1>6, <1>7, <1>8, <1>9, <1>10, <1>11, <1>12, ZenonT(60)
     DEF RP!Next, Ring!Next
<1>14. UNCHANGED Ring!vars <=> UNCHANGED RP!vars
  BY ZenonT(60) DEF RP!vars, Ring!vars, RP!shm, Ring!shm, RP!handles, Ring!handles, RP!put, Ring!put
<1> QED
  BY <1>13, <1>14, ZenonT(60)

\* So the channel is the ring with the theorems.
LEMMA ChannelIsRing ==
  ASSUME WritersSurvive
  PROVE  Spec => RP!Spec
<1>1. Spec => Ring!Spec
  BY RefinesRing, SMTT(30) DEF ImplementsRing
<1> QED
  BY <1>1, SameInit, SameNext, PTL DEF RP!Spec, Ring!Spec

\* What a step of the channel does to the ring, as long as no put was cut short.
LEMMA RingStep ==
  ASSUME IInv, IInv', Bound, ~ Interrupted, ~ Interrupted', [Next]_vars
  PROVE  [RP!Next]_(RP!vars) /\ Bound'
<1>1. [Ring!Next]_(Ring!vars) /\ Bound'
  BY NextRefines, ZenonT(60) DEF RInv
<1> QED
  BY <1>1, SameNext, ZenonT(60)

\* The invariant of the ring holds until a put is cut short.
LEMMA RingUntilCut == Spec => [](Interrupted \/ (RP!RingInv /\ Bound))
<1>1. {o.size : o \in GetOptions} \subseteq Nat
  BY GetOptionsAssumption, ZenonT(60)
<1>2. RP!Init => RP!RingInv
  BY <1>1, LengthsAssumption, MaxSeqAssumption, IndexCntAssumption, DataSizeAssumption,
     RP!InitInv, SMTT(30)
<1>3. RP!RingInv /\ [RP!Next]_(RP!vars) => RP!RingInv'
  BY <1>1, LengthsAssumption, MaxSeqAssumption, IndexCntAssumption, DataSizeAssumption,
     RP!NextInv, SMTT(30)
<1>4. Init => RP!RingInv /\ Bound
  BY <1>2, InitRefines, SameInit, ZenonT(60)
<1>5. /\ IInv /\ IInv' /\ (Interrupted \/ (RP!RingInv /\ Bound)) /\ [Next]_vars
      => Interrupted' \/ (RP!RingInv' /\ Bound')
  BY <1>3, RingStep, CutStays, ZenonT(60)
<1> QED
  BY <1>4, <1>5, Invariance, PTL DEF Spec

\* However the calls of any number of processes interleave, and whoever is killed,
\* until a writer is killed in the middle of a put: the header and the index array
\* always describe the retained frames, every byte of a retained frame is the one that
\* was put, and between puts as many frames are retained as fit.
THEOREM FramesKeptUntilCut ==
  Spec => [](Interrupted \/ (Ring!IndexConsistent /\ Ring!FramesIntact /\ Ring!KeepsAllThatFits))
<1>1. RP!RingInv => Ring!IndexConsistent
  BY ZenonT(60) DEF RP!RingInv, RP!IndexConsistent, Ring!IndexConsistent,
     RP!oldest, Ring!oldest, RP!published, Ring!published, RP!used, Ring!used,
     RP!Slot, Ring!Slot, RP!Entry, Ring!Entry, RP!ZeroIndex, Ring!ZeroIndex
<1>2. RP!RingInv => Ring!FramesIntact
  BY ZenonT(60) DEF RP!RingInv, RP!FramesIntact, Ring!FramesIntact,
     RP!oldest, Ring!oldest, RP!published, Ring!published, RP!used, Ring!used,
     RP!Byte, Ring!Byte
<1>3. RP!RingInv => Ring!KeepsAllThatFits
  BY ZenonT(60) DEF RP!RingInv, RP!KeepsAllThatFits, Ring!KeepsAllThatFits,
     RP!oldest, Ring!oldest, RP!published, Ring!published, RP!used, Ring!used
<1> QED
  BY <1>1, <1>2, <1>3, RingUntilCut, PTL

\* So they always do as long as no writer is killed.
THEOREM ChannelKeepsFrames ==
  ASSUME WritersSurvive
  PROVE  Spec => [](Ring!IndexConsistent /\ Ring!FramesIntact /\ Ring!KeepsAllThatFits)
BY FramesKeptUntilCut, NotCut, PTL

\* As long as no writer is killed, concurrent calls are those of the channel that
\* Ach promises: a put publishes one frame; a get delivers, byte for byte, the
\* newest frame or the first one that its handle has not seen and that still fits,
\* reports the frames passed over, and never ends in ACH_BUG.
THEOREM ChannelRefinesPubSub ==
  ASSUME WritersSurvive
  PROVE  Spec => RP!ImplementsPubSub
<1>1. {o.size : o \in GetOptions} \subseteq Nat
  BY GetOptionsAssumption, ZenonT(60)
<1>2. RP!Spec => RP!ImplementsPubSub
  BY <1>1, LengthsAssumption, MaxSeqAssumption, IndexCntAssumption, DataSizeAssumption,
     EntriesAssumption, RP!RefinesPubSub, SMTT(30)
<1> QED
  BY <1>2, ChannelIsRing, PTL

\* However puts, gets, flushes and cancellations of any number of processes
\* interleave, and whoever is killed, until a writer is killed in the middle of a put:
\* no handle goes back in the stream of frames, and an ach_get() that passes over
\* frames returns ACH_MISSED_FRAME.
THEOREM SeenInOrderUntilCut == Spec => [][Interrupted \/ SeesInOrder]_vars
<1>1. {o.size : o \in GetOptions} \subseteq Nat
  BY GetOptionsAssumption, ZenonT(60)
<1>2. RP!RingInv /\ [RP!Next]_(RP!vars) => RingAdvances
  <2>1. RP!RingInv /\ [RP!Next]_(RP!vars) => RP!GetAdvances
    BY <1>1, LengthsAssumption, MaxSeqAssumption, IndexCntAssumption, DataSizeAssumption,
       RP!StepAdvances, SMTT(30)
  <2> QED
    BY <2>1, ZenonT(60) DEF RP!GetAdvances, RingAdvances
<1>3. ASSUME IInv, IInv', Numbers, Interrupted \/ (RP!RingInv /\ Bound), [Next]_vars
      PROVE  Interrupted \/ SeesInOrder
  <2>1. CASE ~ Interrupted /\ ~ Interrupted'
    BY <1>2, <1>3, <2>1, RingStep, StepSees, ZenonT(60)
  <2>2. CASE ~ Interrupted /\ Interrupted'
    BY <1>3, <2>2, CutSees, ZenonT(60)
  <2> QED
    BY <2>1, <2>2, ZenonT(60)
<1>4. Init => Numbers /\ New
  BY InitNumbers, ZenonT(60)
<1> QED
  BY <1>3, <1>4, NextNumbers, RingUntilCut, Invariance, PTL DEF Spec

\* So it is for ever if a put that is cut short is the last: nobody reads after it.
THEOREM ReadersSeeInOrder ==
  ASSUME LastPut
  PROVE  Spec => [][SeesInOrder]_vars
<1>1. Spec => InterruptedFreezes
  BY CutPutFreezes, ZenonT(60)
<1>2. ASSUME Numbers, Interrupted => UNCHANGED <<shm, seq_num, next_index>>, Interrupted \/ SeesInOrder
      PROVE  SeesInOrder
  BY <1>2, SameSees, ZenonT(60)
<1>3. Init => Numbers /\ New
  BY InitNumbers, ZenonT(60)
<1> QED
  BY <1>1, <1>2, <1>3, SeenInOrderUntilCut, NextNumbers, Invariance, PTL DEF Spec, InterruptedFreezes

=============================================================================
