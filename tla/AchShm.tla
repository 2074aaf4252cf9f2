------------------------------- MODULE AchShm -------------------------------
(***************************************************************************)
(* The shared memory of one ach channel and the straight-line pieces of    *)
(* code that read and change it while the channel mutex is held.           *)
(*                                                                         *)
(* The variables are the fields of ach_header_t that change after the      *)
(* channel is created, the index array and the data array.  index_cnt and  *)
(* data_size are fixed by ach_create() and are the constants IndexCnt and  *)
(* DataSize.  The operators are the pieces of ach_put(), ach_get() and     *)
(* ach_flush() that lie between taking and releasing the lock; the modules *)
(* that extend this one give them control flow.                            *)
(*                                                                         *)
(* Names such as free_index_leaks are mistakes that could be made in the   *)
(* code: they serve to see that the properties notice them.                *)
(***************************************************************************)
EXTENDS Integers, Sequences

CONSTANTS
  IndexCnt,   \* index_cnt: number of entries of the index array
  DataSize    \* data_size: number of bytes of the data array

ASSUME IndexCntAssumption == IndexCnt \in Nat \ {0}
ASSUME DataSizeAssumption == DataSize \in Nat \ {0}

VARIABLES
  index_head, \* next entry of the index array to fill
  index_free, \* number of unused entries of the index array
  data_head,  \* next byte of the data array to fill
  data_free,  \* number of unused bytes of the data array
  last_seq,   \* sequence number of the newest frame, 0 if there is none
  index_ar,   \* the index array
  data_ar     \* the data array

shm == <<index_head, index_free, data_head, data_free, last_seq, index_ar, data_ar>>

(***************************************************************************)
(* A byte is named by the frame it was published in and its place there,   *)
(* so that a byte of one frame never passes for a byte of another.         *)
(***************************************************************************)
Byte(s, k) == <<s, k>>

\* The buffer handed to the ach_put() that publishes sequence number s.
Buffer(s, len) == [k \in 0 .. len - 1 |-> Byte(s, k)]

\* What memset(..., 0, ...) leaves in an index entry and in a data byte.
ZeroIndex == [size |-> 0, offset |-> 0, seq_num |-> 0]
ZeroByte == Byte(0, 0)

\* The values the arrays can have.
IndexArray ==
  [0 .. IndexCnt - 1 -> [size : 0 .. DataSize, offset : 0 .. DataSize - 1, seq_num : Nat]]
DataArray == [0 .. DataSize - 1 -> Nat \X Nat]

\* The counts and arrays a new channel starts with.
ShmInit ==
  /\ index_head = 0
  /\ index_free = IndexCnt
  /\ data_head = 0
  /\ data_free = DataSize
  /\ last_seq = 0
  /\ index_ar = [i \in 0 .. IndexCnt - 1 |-> ZeroIndex]
  /\ data_ar = [a \in 0 .. DataSize - 1 |-> ZeroByte]

-----------------------------------------------------------------------------

oldest_index_i == (index_head + index_free) % IndexCnt

last_index_i == (index_head + IndexCnt - 1) % IndexCnt

\* dst after n bytes of src, from src[s] on, are copied to dst[d] and on.
memcpy(dst, d, src, s, n) ==
  [a \in DOMAIN dst |-> IF a \in d .. d + n - 1 THEN src[s + (a - d)] ELSE dst[a]]

-----------------------------------------------------------------------------
(* The pieces of ach_put(). *)

\* The bytes of the frame are lost.
free_index_leaks(i) ==
  /\ index_free' = index_free + 1
  /\ index_ar' = [index_ar EXCEPT ![i] = ZeroIndex]
  /\ UNCHANGED <<index_head, data_head, data_free, last_seq, data_ar>>

free_index(i) ==
  /\ data_free' = data_free + index_ar[i].size
  /\ index_free' = index_free + 1
  /\ index_ar' = [index_ar EXCEPT ![i] = ZeroIndex]
  /\ UNCHANGED <<index_head, data_head, last_seq, data_ar>>

\* One entry is always kept free.
ClearHead_spare ==
  IF index_free <= 1 THEN free_index(oldest_index_i) ELSE UNCHANGED shm

\* "clear entry used by index"
ClearHead ==
  IF index_free = 0 THEN free_index(index_head) ELSE UNCHANGED shm

\* "copy buffer"
CopyIn(buf, len) ==
  /\ data_ar' =
       IF DataSize - data_head >= len
       THEN memcpy(data_ar, data_head, buf, 0, len)
       ELSE LET end_cnt == DataSize - data_head
            IN  memcpy(memcpy(data_ar, data_head, buf, 0, end_cnt),
                       0, buf, end_cnt, len - end_cnt)
  /\ UNCHANGED <<index_head, index_free, data_head, data_free, last_seq, index_ar>>

\* The first half of "modify counts": the sequence number and the index entry.
WriteIndex(idx, len) ==
  /\ last_seq' = last_seq + 1
  /\ index_ar' = [index_ar EXCEPT ![idx] =
                    [size |-> len, offset |-> data_head, seq_num |-> last_seq + 1]]
  /\ UNCHANGED <<index_head, index_free, data_head, data_free, data_ar>>

\* The second half: the heads and the free counts.
AdvanceHeads(len) ==
  /\ data_head' = (data_head + len) % DataSize
  /\ data_free' = data_free - len
  /\ index_head' = (index_head + 1) % IndexCnt
  /\ index_free' = index_free - 1
  /\ UNCHANGED <<last_seq, index_ar, data_ar>>

-----------------------------------------------------------------------------
(***************************************************************************)
(* The body of ach_get().  seq and next are the seq_num and next_index of  *)
(* the handle; the result gives their new values with the status and the   *)
(* bytes copied out.                                                       *)
(***************************************************************************)
Result(status, seq, next, buf) ==
  [status |-> status, seq_num |-> seq, next_index |-> next, buf |-> buf]

CopyOut(idx) ==
  LET blank == [k \in 0 .. idx.size - 1 |-> ZeroByte]
      end_cnt == DataSize - idx.offset
  IN  IF idx.offset + idx.size < DataSize
      THEN memcpy(blank, 0, data_ar, idx.offset, idx.size)
      ELSE memcpy(memcpy(blank, 0, data_ar, idx.offset, end_cnt),
                  end_cnt, data_ar, 0, idx.size - end_cnt)

ach_get_from_offset(seq, next, i, size) ==
  LET idx == index_ar[i]
  IN  IF seq > idx.seq_num THEN Result("ACH_BUG", seq, next, <<>>)
      ELSE IF idx.size > size THEN Result("ACH_OVERFLOW", seq, next, <<>>)
      ELSE Result("ACH_OK", idx.seq_num, (i + 1) % IndexCnt, CopyOut(idx))

(***************************************************************************)
(* next_index is 1 in a handle that has not read yet, which lies past the  *)
(* index array of a channel with one entry.  stray says whether the memory *)
(* found there happens to equal the sequence number that is looked for.    *)
(***************************************************************************)
NextMatches(seq, next, stray) ==
  IF next < IndexCnt THEN index_ar[next].seq_num = seq + 1 ELSE stray

\* Any frame in the next entry is taken for the next frame.
read_index_blind(seq, next, o_last, stray) ==
  IF o_last THEN last_index_i
  ELSE IF next < IndexCnt /\ index_ar[next].seq_num > seq THEN next
  ELSE IF seq = last_seq THEN last_index_i
  ELSE oldest_index_i

read_index(seq, next, o_last, stray) ==
  IF o_last THEN last_index_i
  ELSE IF NextMatches(seq, next, stray) THEN next
  ELSE IF seq = last_seq THEN last_index_i
  ELSE oldest_index_i

\* Reading past the array finds the index guard where the size should be,
\* which is larger than any buffer.
GetLocked(seq, next, size, o_last, o_copy, stray) ==
  LET i == read_index(seq, next, o_last, stray)
      r == ach_get_from_offset(seq, next, i, size)
  IN  IF (seq = last_seq /\ ~o_copy) \/ last_seq = 0
      THEN Result("ACH_STALE_FRAMES", seq, next, <<>>)
      ELSE IF i >= IndexCnt THEN Result("ACH_OVERFLOW", seq, next, <<>>)
      ELSE IF r.status = "ACH_OK" /\ index_ar[i].seq_num > seq + 1
      THEN [r EXCEPT !.status = "ACH_MISSED_FRAME"]
      ELSE r

\* The body of ach_flush().
FlushLocked == Result("ACH_OK", last_seq, index_head, <<>>)

=============================================================================
