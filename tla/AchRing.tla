------------------------------- MODULE AchRing ------------------------------
(***************************************************************************)
(* The ring of one ach channel with one critical section at a time: what   *)
(* ach_put(), ach_get(), ach_flush() and ach_open() do to the shared       *)
(* memory and to the handles when the mutex does its job.  ach_put() runs  *)
(* in steps, one per block of its code, because its loop frees one old     *)
(* frame per turn; the other calls are one step each.                      *)
(*                                                                         *)
(* start is a history variable: start[s] is the position of frame s in the *)
(* stream of all bytes ever published and the last element is the length   *)
(* of that stream.  It gains an element when a put is complete.            *)
(***************************************************************************)
EXTENDS AchShm

CONSTANTS
  Handles,   \* the open handles (ach_channel_t) on the channel
  Lengths,   \* lengths that callers pass to ach_put()
  Sizes,     \* buffer sizes that callers pass to ach_get()
  MaxSeq     \* bound on the number of frames published

ASSUME LengthsAssumption == Lengths \subseteq Nat
ASSUME SizesAssumption == Sizes \subseteq Nat
ASSUME MaxSeqAssumption == MaxSeq \in Nat

VARIABLES
  seq_num,    \* per handle: sequence number of the last frame it read
  next_index, \* per handle: index entry it expects to read next
  put_pc,     \* the block of ach_put() to run next, "idle" between calls
  put_len,    \* the argument len of that call
  put_idx,    \* its local idx
  put_i,      \* its loop variable i
  reply,      \* what the call that just returned gave to its caller
  start       \* history: where each frame starts in the stream of all bytes

handles == <<seq_num, next_index>>
put == <<put_pc, put_len, put_idx, put_i>>
vars == <<shm, handles, put, reply, start>>

-----------------------------------------------------------------------------
(* The replies that calls give. *)

NoReply == [call |-> "none"]
PutReply(status) == [call |-> "put", status |-> status]
GetReply(h, from, o, r, i) ==
  [call |-> "get", handle |-> h, from |-> from, opts |-> o, status |-> r.status,
   seq |-> r.seq_num, buf |-> r.buf, index |-> i]

\* The flags ACH_O_LAST and ACH_O_COPY of ach_get().
Options == [last : BOOLEAN, copy : BOOLEAN]

-----------------------------------------------------------------------------

Init ==
  /\ ShmInit
  /\ seq_num = [h \in Handles |-> 0]
  /\ next_index = [h \in Handles |-> 1]
  /\ put_pc = "idle"
  /\ put_len = 0
  /\ put_idx = 0
  /\ put_i = 0
  /\ reply = NoReply
  /\ start = <<0>>

\* The calls of ach_put() that return before taking the lock.
PutReject(len) ==
  /\ put_pc = "idle"
  /\ \/ /\ len = 0
        /\ reply' = PutReply("ACH_EINVAL")
     \/ /\ DataSize < len
        /\ reply' = PutReply("ACH_OVERFLOW")
  /\ UNCHANGED <<shm, handles, put, start>>

PutCall(len) ==
  /\ put_pc = "idle"
  /\ len # 0
  /\ len <= DataSize
  /\ last_seq < MaxSeq
  /\ put_pc' = "head"
  /\ put_len' = len
  /\ reply' = NoReply
  /\ UNCHANGED <<shm, handles, put_idx, put_i, start>>

PutHead ==
  /\ put_pc = "head"
  /\ put_idx' = index_head
  /\ ClearHead
  /\ put_i' = (index_head + index_free') % IndexCnt
  /\ put_pc' = "free"
  /\ UNCHANGED <<handles, put_len, reply, start>>

PutFree ==
  /\ put_pc = "free"
  /\ data_free < put_len
  /\ free_index(put_i)
  /\ put_i' = (put_i + 1) % IndexCnt
  /\ UNCHANGED <<handles, put_pc, put_len, put_idx, reply, start>>

\* The frame is copied before there is room for it.
PutCopy_early ==
  /\ put_pc = "free"
  /\ CopyIn(Buffer(last_seq + 1, put_len), put_len)
  /\ put_pc' = "index"
  /\ UNCHANGED <<handles, put_len, put_idx, put_i, reply, start>>

PutCopy ==
  /\ put_pc = "free"
  /\ data_free >= put_len
  /\ CopyIn(Buffer(last_seq + 1, put_len), put_len)
  /\ put_pc' = "index"
  /\ UNCHANGED <<handles, put_len, put_idx, put_i, reply, start>>

PutIndex ==
  /\ put_pc = "index"
  /\ WriteIndex(put_idx, put_len)
  /\ put_pc' = "advance"
  /\ UNCHANGED <<handles, put_len, put_idx, put_i, reply, start>>

PutAdvance ==
  /\ put_pc = "advance"
  /\ AdvanceHeads(put_len)
  /\ put_pc' = "idle"
  /\ reply' = PutReply("ACH_OK")
  /\ start' = Append(start, start[Len(start)] + put_len)
  /\ put_len' = 0
  /\ put_idx' = 0
  /\ put_i' = 0
  /\ UNCHANGED handles

ach_get(h, size, o, stray) ==
  LET r == GetLocked(seq_num[h], next_index[h], size, o.last, o.copy, stray)
      i == read_index(seq_num[h], next_index[h], o.last, stray)
  IN  /\ put_pc = "idle"
      /\ seq_num' = [seq_num EXCEPT ![h] = r.seq_num]
      /\ next_index' = [next_index EXCEPT ![h] = r.next_index]
      /\ reply' = GetReply(h, seq_num[h], o, r, i)
      /\ UNCHANGED <<shm, put, start>>

ach_flush(h) ==
  /\ put_pc = "idle"
  /\ seq_num' = [seq_num EXCEPT ![h] = FlushLocked.seq_num]
  /\ next_index' = [next_index EXCEPT ![h] = FlushLocked.next_index]
  /\ reply' = NoReply
  /\ UNCHANGED <<shm, put, start>>

\* Closing a handle and opening the channel again starts it from scratch.
ach_open(h) ==
  /\ seq_num' = [seq_num EXCEPT ![h] = 0]
  /\ next_index' = [next_index EXCEPT ![h] = 1]
  /\ reply' = NoReply
  /\ UNCHANGED <<shm, put, start>>

\* The caller goes on.
Forget ==
  /\ reply # NoReply
  /\ reply' = NoReply
  /\ UNCHANGED <<shm, handles, put, start>>

Next ==
  \/ \E len \in Lengths : PutReject(len) \/ PutCall(len)
  \/ PutHead \/ PutFree \/ PutCopy \/ PutIndex \/ PutAdvance
  \/ \E h \in Handles, size \in Sizes, o \in Options, stray \in BOOLEAN :
       ach_get(h, size, o, stray)
  \/ \E h \in Handles : ach_flush(h) \/ ach_open(h)
  \/ Forget

Spec == Init /\ [][Next]_vars

-----------------------------------------------------------------------------
(* The properties. *)

\* Every variable keeps the type of the C field or local it stands for; the
\* counts stay within the arrays, so none of them wraps around.
TypeOK ==
  /\ index_head \in 0 .. IndexCnt - 1
  /\ index_free \in 0 .. IndexCnt
  /\ data_head \in 0 .. DataSize - 1
  /\ data_free \in 0 .. DataSize
  /\ last_seq \in Nat
  /\ index_ar \in IndexArray
  /\ data_ar \in DataArray
  /\ seq_num \in [Handles -> Nat]
  /\ next_index \in [Handles -> 0 .. IndexCnt]
  /\ put_pc \in {"idle", "head", "free", "index", "advance"}
  /\ put_len \in 0 .. DataSize
  /\ put_idx \in 0 .. IndexCnt - 1
  /\ put_i \in 0 .. IndexCnt - 1
  /\ start \in Seq(Nat)

published == Len(start) - 1
used == IndexCnt - index_free
oldest == published - used + 1

\* The place of frame s in the index array, and the entry it has there.
Slot(s) == (s - 1) % IndexCnt
Entry(s) ==
  [size |-> start[s + 1] - start[s], offset |-> start[s] % DataSize, seq_num |-> s]

\* The counts of the header and the index array always describe the retained
\* frames: their entries are in order and adjacent, every other entry is
\* cleared, and the bytes accounted free are the ones no frame owns.
\* (free_index(), and the counts that ach_put() modifies.)
IndexConsistent ==
  /\ last_seq = IF put_pc = "advance" THEN published + 1 ELSE published
  /\ index_head = published % IndexCnt
  /\ data_head = start[published + 1] % DataSize
  /\ used <= published
  /\ data_free = DataSize - (start[published + 1] - start[oldest])
  /\ \A s \in oldest .. published : index_ar[Slot(s)] = Entry(s)
  /\ \A s \in published + 1 .. oldest + IndexCnt - 1 :
       index_ar[Slot(s)] =
         IF put_pc = "advance" /\ s = last_seq
         THEN [size |-> put_len, offset |-> data_head, seq_num |-> last_seq]
         ELSE ZeroIndex

\* No put ever overwrites a byte of a frame that is still in the index: each
\* retained frame reads back byte for byte, wherever it wraps around the end
\* of the data array.
FramesIntact ==
  \A s \in oldest .. published :
    \A k \in 0 .. start[s + 1] - start[s] - 1 :
      data_ar[(start[s] + k) % DataSize] = Byte(s, k)

\* Between puts the channel retains as much as it can: one more frame would
\* not fit into the index or into the data array.  ach_put() drops no frame
\* that it could have kept.
KeepsAllThatFits ==
  put_pc = "idle" /\ oldest > 1 =>
    \/ published + 1 - (oldest - 1) > IndexCnt
    \/ start[published + 1] - start[oldest - 1] > DataSize

\* The first assertion of ach_get_from_offset(): the entry that ach_get() reads is
\* one of the index array.  It fails in a channel with one entry.
ReadIndexInRange ==
  reply.call = "get" /\ reply.status # "ACH_STALE_FRAMES" => reply.index < IndexCnt

\* What is true of every channel: a get reads past the array only if that has one
\* entry and the handle, which has read nothing yet, asks for the next frame; built
\* without assertions it then returns ACH_OVERFLOW and leaves the handle as it was.
StraysOnlyWhenNew ==
  reply.call = "get" /\ reply.status # "ACH_STALE_FRAMES" =>
    \/ reply.index < IndexCnt
    \/ /\ IndexCnt = 1 /\ reply.from = 0 /\ ~ reply.opts.last
       /\ reply.status = "ACH_OVERFLOW" /\ reply.seq = 0

(***************************************************************************)
(* The inductive invariant.  IndexConsistent and FramesIntact are not      *)
(* enough to show that a step preserves them: a put needs to know what its *)
(* locals stand for and that it has made room, and a get needs to know     *)
(* that next_index follows seq_num.                                        *)
(***************************************************************************)
StartIncreasing ==
  /\ Len(start) >= 1
  /\ \A s, t \in 1 .. Len(start) : s < t => start[s] < start[t]

PutLocals ==
  /\ put_pc = "idle" /\ published > 0 => used > 0
  /\ put_pc # "idle" => put_len > 0 /\ put_len \in Lengths
  /\ put_pc \in {"free", "index", "advance"} => index_free > 0 /\ put_idx = index_head
  /\ put_pc = "free" => put_i = oldest_index_i
  /\ put_pc \in {"index", "advance"} =>
       /\ data_free >= put_len
       /\ \A k \in 0 .. put_len - 1 :
            data_ar[(start[published + 1] + k) % DataSize] = Byte(published + 1, k)

DroppedForRoom ==
  put_pc # "idle" /\ oldest > 1 =>
    \/ published + 2 - (oldest - 1) > IndexCnt
    \/ start[published + 1] + put_len - start[oldest - 1] > DataSize

HandlesInStep ==
  \A h \in Handles :
    /\ seq_num[h] <= published
    /\ \/ next_index[h] = seq_num[h] % IndexCnt
       \/ seq_num[h] = 0 /\ next_index[h] = 1

\* The inductive invariant of the ring.
RingInv ==
  /\ TypeOK
  /\ StartIncreasing
  /\ IndexConsistent
  /\ FramesIntact
  /\ PutLocals
  /\ KeepsAllThatFits
  /\ DroppedForRoom
  /\ HandlesInStep

(***************************************************************************)
(* The ring implements the publish/subscribe channel.                      *)
(***************************************************************************)
Answer ==
  IF reply.call = "get"
  THEN [call |-> "get", status |-> reply.status, seq |-> reply.seq, buf |-> reply.buf]
  ELSE reply

PS == INSTANCE AchPubSub WITH
  MaxFrames <- IndexCnt, MaxBytes <- DataSize, cursor <- seq_num, answer <- Answer

\* Every behaviour of the ring is one of the channel it promises to be: a put
\* appends one frame; a get delivers, whole, the newest frame or the oldest
\* unseen one that is retained, reports a gap exactly when frames were passed
\* over (a get with ACH_O_COPY may or may not report it), and changes nothing when
\* the buffer is too small; no call ends in ACH_BUG.
ImplementsPubSub == PS!Spec

=============================================================================
