---------------------------- MODULE AchRingProofs ----------------------------
(***************************************************************************)
(* The ring keeps its frames, and implements AchPubSub, for every size.    *)
(* First arithmetic modulo the size of a ring, then the invariant of the   *)
(* ring and what each step of ach_put() and the other calls does to it,    *)
(* then the theorems.                                                      *)
(***************************************************************************)
EXTENDS AchRing, TLAPS

(* Remainders, which the provers do not know: each fact is proved from the *)
(* definition of % by writing x as n * q + r.                              *)

\* Division with remainder: every ring position is a lap and a place in it.
LEMMA ModDef ==
  ASSUME NEW n \in Nat \ {0}, NEW x \in Nat
  PROVE  /\ x \div n \in Nat
         /\ x % n \in 0 .. n - 1
         /\ x = (n * (x \div n)) + (x % n)
BY SMT

\* The remainder is the only number below n that is a multiple of n away.
LEMMA ModUnique ==
  ASSUME NEW n \in Nat \ {0}, NEW q \in Nat, NEW r \in 0 .. n - 1
  PROVE  ((n * q) + r) % n = r
BY SMT

\* Less than one lap further on: straight ahead, or past the end once.  This
\* is the case split that ach_put() and ach_get() make when they copy.
LEMMA ModShift ==
  ASSUME NEW n \in Nat \ {0}, NEW x \in Nat, NEW k \in 0 .. n - 1
  PROVE  (x + k) % n = IF (x % n) + k < n THEN (x % n) + k ELSE (x % n) + k - n
<1> DEFINE q == x \div n
           r == x % n
<1>1. q \in Nat /\ r \in 0 .. n - 1 /\ x = (n * q) + r
  BY ModDef, Zenon
<1> HIDE DEF q, r
<1>2. CASE r + k < n
  <2>1. r + k \in 0 .. n - 1
    BY <1>1, <1>2
  <2>2. ((n * q) + (r + k)) % n = r + k
    BY <2>1, <1>1, ModUnique, Zenon
  <2>3. (n * q) + (r + k) = x + k
    BY <1>1, SMT
  <2> QED
    BY <2>2, <2>3, <1>2, Zenon DEF r
<1>3. CASE ~ (r + k < n)
  <2>1. r + k - n \in 0 .. n - 1 /\ q + 1 \in Nat
    BY <1>1, <1>3
  <2>2. ((n * (q + 1)) + (r + k - n)) % n = r + k - n
    BY <2>1, <1>1, ModUnique, Zenon
  <2>3. (n * (q + 1)) + (r + k - n) = x + k
    BY <1>1, SMT
  <2> QED
    BY <2>2, <2>3, <1>3, Zenon DEF r
<1> QED
  BY <1>2, <1>3, Zenon

\* Reducing a summand first makes no difference.
LEMMA ModAdd ==
  ASSUME NEW n \in Nat \ {0}, NEW x \in Nat, NEW y \in Nat
  PROVE  ((x % n) + y) % n = (x + y) % n
<1> DEFINE q == x \div n
           r == x % n
<1>1. q \in Nat /\ r \in 0 .. n - 1 /\ x = (n * q) + r
  BY ModDef, Zenon
<1> HIDE DEF q, r
<1> DEFINE p == (r + y) \div n
           t == (r + y) % n
<1>0. r + y \in Nat
  BY <1>1
<1>2. p \in Nat /\ t \in 0 .. n - 1 /\ r + y = (n * p) + t
  BY <1>0, ModDef, Zenon
<1> HIDE DEF p, t
<1>3. ((n * (q + p)) + t) % n = t
  <2>1. q + p \in Nat
    BY <1>1, <1>2
  <2> QED
    BY <2>1, <1>2, ModUnique, Zenon
<1>4. (n * (q + p)) + t = x + y
  BY <1>1, <1>2, SMT
<1> QED
  BY <1>3, <1>4, Zenon DEF r, t

\* A whole lap further on is the same place.
LEMMA ModAddN ==
  ASSUME NEW n \in Nat \ {0}, NEW x \in Nat
  PROVE  (x + n) % n = x % n
<1> DEFINE q == x \div n
           r == x % n
<1>1. q \in Nat /\ r \in 0 .. n - 1 /\ x = (n * q) + r
  BY ModDef, Zenon
<1> HIDE DEF q, r
<1>2. ((n * (q + 1)) + r) % n = r
  BY <1>1, ModUnique
<1>3. (n * (q + 1)) + r = x + n
  BY <1>1, SMT
<1> QED
  BY <1>2, <1>3, Zenon DEF r

\* Two positions less than a lap apart are different places.
LEMMA ModDistinct ==
  ASSUME NEW n \in Nat \ {0}, NEW x \in Nat, NEW y \in Nat, x < y, y < x + n
  PROVE  x % n # y % n
<1>1. y - x \in 0 .. n - 1 /\ y = x + (y - x)
  OBVIOUS
<1>2. y % n = IF (x % n) + (y - x) < n THEN (x % n) + (y - x) ELSE (x % n) + (y - x) - n
  BY <1>1, ModShift, ZenonT(60)
<1>3. x % n \in 0 .. n - 1
  BY ModDef, Zenon
<1> QED
  BY <1>2, <1>3

\* One lap comes past every place.
LEMMA ModCover ==
  ASSUME NEW n \in Nat \ {0}, NEW x \in Nat, NEW i \in 0 .. n - 1
  PROVE  \E k \in 0 .. n - 1 : (x + k) % n = i
<1> DEFINE r == x % n
           k == IF i >= r THEN i - r ELSE i - r + n
<1>1. r \in 0 .. n - 1
  BY ModDef, Zenon
<1> HIDE DEF r
<1>2. k \in 0 .. n - 1 /\ i = IF r + k < n THEN r + k ELSE r + k - n
  BY <1>1
<1>3. (x + k) % n = IF r + k < n THEN r + k ELSE r + k - n
  <2> HIDE DEF k
  <2> QED
    BY <1>2, ModShift, Zenon DEF r
<1> QED
  BY <1>2, <1>3, Zenon

-----------------------------------------------------------------------------
(* Slots and counts. *)

\* The slot of a frame is in the index array, comes round every IndexCnt
\* frames, and is followed by the slot of the next frame.
LEMMA SlotFacts ==
  ASSUME NEW s \in Nat \ {0}
  PROVE  /\ Slot(s) \in 0 .. IndexCnt - 1
         /\ Slot(s + IndexCnt) = Slot(s)
         /\ (Slot(s) + 1) % IndexCnt = Slot(s + 1)
<1>1. s - 1 \in Nat /\ (s - 1) + 1 = (s + 1) - 1 /\ (s - 1) + IndexCnt = (s + IndexCnt) - 1
  BY IndexCntAssumption
<1>2. Slot(s) \in 0 .. IndexCnt - 1
  BY <1>1, IndexCntAssumption, ModDef, Zenon DEF Slot
<1>3. ((s - 1) + IndexCnt) % IndexCnt = (s - 1) % IndexCnt
  BY <1>1, IndexCntAssumption, ModAddN, Zenon
<1>4. (((s - 1) % IndexCnt) + 1) % IndexCnt = ((s - 1) + 1) % IndexCnt
  BY <1>1, IndexCntAssumption, ModAdd, Zenon
<1> QED
  BY <1>1, <1>2, <1>3, <1>4, Zenon DEF Slot

\* Frames less than IndexCnt apart have different slots.
LEMMA SlotDistinct ==
  ASSUME NEW s \in Nat \ {0}, NEW t \in Nat \ {0}, s < t, t < s + IndexCnt
  PROVE  Slot(s) # Slot(t)
<1>1. s - 1 \in Nat /\ t - 1 \in Nat /\ s - 1 < t - 1 /\ t - 1 < (s - 1) + IndexCnt
  BY IndexCntAssumption
<1> QED
  BY <1>1, IndexCntAssumption, ModDistinct, Zenon DEF Slot

\* What the header says in terms of frames: where the heads are, and which
\* entries are the oldest and the last.
LEMMA Counts ==
  ASSUME TypeOK, StartIncreasing, IndexConsistent
  PROVE  /\ published \in Nat
         /\ Len(start) = published + 1
         /\ used \in 0 .. IndexCnt
         /\ oldest \in 1 .. published + 1
         /\ published < oldest + IndexCnt
         /\ published + index_free = oldest + IndexCnt - 1
         /\ \A s \in 1 .. published + 1 : start[s] \in Nat
         /\ index_head = Slot(published + 1)
         /\ oldest_index_i = Slot(oldest)
         /\ published > 0 => last_index_i = Slot(published)
<1>1. /\ published \in Nat
      /\ Len(start) = published + 1
      /\ used \in 0 .. IndexCnt
      /\ oldest \in 1 .. published + 1
      /\ published < oldest + IndexCnt
      /\ published + index_free = oldest + IndexCnt - 1
  BY IndexCntAssumption DEF TypeOK, StartIncreasing, IndexConsistent, published, used, oldest
<1>2. \A s \in 1 .. published + 1 : start[s] \in Nat
  <2>1. start \in Seq(Nat)
    BY Zenon DEF TypeOK
  <2> QED
    BY <1>1, <2>1
<1>3. index_head = Slot(published + 1)
  BY <1>1 DEF IndexConsistent, Slot
<1>4. oldest_index_i = Slot(oldest)
  <2>1. index_free \in Nat /\ index_head = published % IndexCnt
    BY IndexCntAssumption DEF TypeOK, IndexConsistent
  <2>2. (index_head + index_free) % IndexCnt = (published + index_free) % IndexCnt
    BY <1>1, <2>1, IndexCntAssumption, ModAdd, Zenon
  <2>3. published + index_free = (oldest - 1) + IndexCnt /\ oldest - 1 \in Nat
    BY <1>1, IndexCntAssumption
  <2>4. ((oldest - 1) + IndexCnt) % IndexCnt = (oldest - 1) % IndexCnt
    BY <2>3, IndexCntAssumption, ModAddN, Zenon
  <2> QED
    BY <2>2, <2>3, <2>4, Zenon DEF oldest_index_i, Slot
<1>5. ASSUME published > 0 PROVE last_index_i = Slot(published)
  <2>1. index_head = published % IndexCnt /\ index_head \in Nat
    BY IndexCntAssumption DEF TypeOK, IndexConsistent
  <2>2. (index_head + (IndexCnt - 1)) % IndexCnt = (published + (IndexCnt - 1)) % IndexCnt
    <3>1. IndexCnt - 1 \in Nat
      BY IndexCntAssumption
    <3> QED
      BY <1>1, <2>1, <3>1, IndexCntAssumption, ModAdd, Zenon
  <2>3. /\ published + (IndexCnt - 1) = (published - 1) + IndexCnt
        /\ published - 1 \in Nat
        /\ index_head + (IndexCnt - 1) = index_head + IndexCnt - 1
    BY <1>1, <1>5, <2>1, IndexCntAssumption
  <2>4. ((published - 1) + IndexCnt) % IndexCnt = (published - 1) % IndexCnt
    BY <2>3, IndexCntAssumption, ModAddN, Zenon
  <2> QED
    BY <2>2, <2>3, <2>4, Zenon DEF last_index_i, Slot
<1> QED
  BY <1>1, <1>2, <1>3, <1>4, <1>5, Zenon

-----------------------------------------------------------------------------
(* The calls that run between two puts. *)

\* Between puts an index entry with a sequence number is the entry of that
\* retained frame, and lies in the slot of that frame.
LEMMA EntryAt ==
  ASSUME RingInv, put_pc = "idle", NEW i \in 0 .. IndexCnt - 1, index_ar[i].seq_num # 0
  PROVE  \E s \in oldest .. published : i = Slot(s) /\ index_ar[i] = Entry(s)
<1> USE IndexCntAssumption
<1>1. /\ published \in Nat
      /\ oldest \in 1 .. published + 1
      /\ published < oldest + IndexCnt
  BY Counts, Zenon DEF RingInv
<1>2. PICK k \in 0 .. IndexCnt - 1 : ((oldest - 1) + k) % IndexCnt = i
  <2>1. oldest - 1 \in Nat
    BY <1>1
  <2> QED
    BY <2>1, ModCover, Zenon
<1>3. oldest + k \in oldest .. oldest + IndexCnt - 1 /\ (oldest + k) - 1 = (oldest - 1) + k
  BY <1>1
<1>4. i = Slot(oldest + k)
  BY <1>2, <1>3, Zenon DEF Slot
<1>5. CASE oldest + k \in oldest .. published
  BY <1>4, <1>5, Zenon DEF RingInv, IndexConsistent
<1>6. CASE oldest + k \in published + 1 .. oldest + IndexCnt - 1
  <2>1. index_ar[i] = ZeroIndex
    BY <1>4, <1>6, Zenon DEF RingInv, IndexConsistent
  <2> QED
    BY <2>1 DEF ZeroIndex
<1> QED
  BY <1>1, <1>3, <1>5, <1>6

\* The frame a get of handle h finds: the newest one if it asks for that or
\* has seen everything, else the first one that it has not seen and that is
\* still retained.
Found(h, o_last) ==
  IF o_last \/ seq_num[h] = published THEN published
  ELSE IF seq_num[h] + 1 >= oldest THEN seq_num[h] + 1
  ELSE oldest

\* read_index names the slot of that frame unless it lies past the array,
\* which takes a channel with one entry.
LEMMA ReadIndexFinds ==
  ASSUME RingInv, put_pc = "idle", published > 0, NEW h \in Handles,
         NEW o_last \in BOOLEAN, NEW stray \in BOOLEAN,
         NEW i, i = read_index(seq_num[h], next_index[h], o_last, stray),
         i < IndexCnt \/ IndexCnt > 1
  PROVE  LET s == Found(h, o_last)
         IN  /\ s \in oldest .. published
             /\ i = Slot(s)
             /\ index_ar[i] = Entry(s)
<1> USE IndexCntAssumption
<1> DEFINE seq == seq_num[h]
           next == next_index[h]
           s == Found(h, o_last)
<1>1. /\ published \in Nat
      /\ oldest \in 1 .. published
      /\ published < oldest + IndexCnt
      /\ oldest_index_i = Slot(oldest)
      /\ last_index_i = Slot(published)
      /\ last_seq = published
  <2>1. used > 0
    BY Zenon DEF RingInv, PutLocals
  <2>2. oldest = published - used + 1
    BY Zenon DEF oldest
  <2>3. used \in 0 .. IndexCnt /\ published \in Nat /\ oldest \in 1 .. published + 1
    BY Counts, Zenon DEF RingInv
  <2>4. oldest \in 1 .. published
    BY <2>1, <2>2, <2>3
  <2> QED
    BY <2>4, Counts, Zenon DEF RingInv, IndexConsistent
<1>2. /\ seq \in 0 .. published
      /\ next \in 0 .. IndexCnt
      /\ next = seq % IndexCnt \/ (seq = 0 /\ next = 1)
  BY <1>1 DEF RingInv, TypeOK, HandlesInStep
<1>3. s \in oldest .. published
  BY <1>1, <1>2 DEF Found
<1>4. index_ar[Slot(s)] = Entry(s)
  BY <1>3, Zenon DEF RingInv, IndexConsistent
<1>5. ASSUME next < IndexCnt, index_ar[next].seq_num = seq + 1
      PROVE  seq + 1 \in oldest .. published /\ next = Slot(seq + 1)
  <2>1. next \in 0 .. IndexCnt - 1 /\ index_ar[next].seq_num # 0
    BY <1>2, <1>5
  <2>2. PICK t \in oldest .. published : next = Slot(t) /\ index_ar[next] = Entry(t)
    BY <2>1, EntryAt, Zenon
  <2>3. index_ar[next].seq_num = t
    BY <2>2 DEF Entry
  <2> QED
    BY <1>5, <2>2, <2>3, Zenon
<1>6. ASSUME seq + 1 \in oldest .. published, next = seq % IndexCnt
      PROVE  next < IndexCnt /\ index_ar[next].seq_num = seq + 1
  <2>1. next = Slot(seq + 1)
    <3>1. (seq + 1) - 1 = seq
      BY <1>2
    <3> QED
      BY <1>6, <3>1, Zenon DEF Slot
  <2>2. index_ar[next] = Entry(seq + 1)
    BY <1>6, <2>1, Zenon DEF RingInv, IndexConsistent
  <2>3. next < IndexCnt
    <3>1. seq + 1 \in Nat \ {0}
      BY <1>2
    <3>2. next \in 0 .. IndexCnt - 1
      BY <2>1, <3>1, SlotFacts, Zenon
    <3> QED
      BY <3>2
  <2> QED
    BY <2>2, <2>3 DEF Entry
<1>7. i = Slot(s)
  <2>1. CASE o_last
    BY <1>1, <2>1, Zenon DEF read_index, Found
  <2>2. CASE ~ o_last /\ NextMatches(seq, next, stray)
    <3>1. i = next
      BY <2>2, Zenon DEF read_index
    <3>2. next < IndexCnt
      <4>1. CASE i < IndexCnt
        BY <3>1, <4>1, Zenon
      <4>2. CASE IndexCnt > 1
        <5>1. CASE next = 1
          BY <4>2, <5>1, Zenon
        <5>2. CASE next = seq % IndexCnt
          <6>1. next \in 0 .. IndexCnt - 1
            BY <1>2, <5>2, ModDef
          <6> QED
            BY <6>1
        <5> QED
          BY <1>2, <5>1, <5>2, Zenon
      <4> QED
        BY <4>1, <4>2, Zenon
    <3>3. index_ar[next].seq_num = seq + 1
      BY <2>2, <3>2, Zenon DEF NextMatches
    <3>4. seq + 1 \in oldest .. published /\ next = Slot(seq + 1)
      BY <1>5, <3>2, <3>3, Zenon
    <3>5. s = seq + 1
      BY <1>1, <1>2, <2>2, <3>4 DEF Found
    <3> QED
      BY <3>1, <3>4, <3>5, Zenon
  <2>3. CASE ~ o_last /\ ~ NextMatches(seq, next, stray) /\ seq = published
    BY <1>1, <2>3, Zenon DEF read_index, Found
  <2>4. CASE ~ o_last /\ ~ NextMatches(seq, next, stray) /\ seq # published
    <3>1. i = oldest_index_i
      BY <1>1, <2>4, Zenon DEF read_index
    <3>2. ~ (seq + 1 \in oldest .. published /\ next = seq % IndexCnt)
      BY <1>6, <2>4, Zenon DEF NextMatches
    <3>3. s = oldest
      BY <1>1, <1>2, <2>4, <3>2 DEF Found
    <3> QED
      BY <1>1, <3>1, <3>3, Zenon
  <2> QED
    BY <2>1, <2>2, <2>3, <2>4, Zenon
<1> QED
  BY <1>3, <1>4, <1>7, Zenon

\* A get leaves the ring alone, and its handle in step with the ring.
LEMMA GetStep ==
  ASSUME RingInv, NEW h \in Handles, NEW size \in Sizes, NEW o \in Options,
         NEW stray \in BOOLEAN, ach_get(h, size, o, stray)
  PROVE  RingInv'
<1> USE IndexCntAssumption, DataSizeAssumption
<1> DEFINE seq == seq_num[h]
           next == next_index[h]
           i == read_index(seq, next, o.last, stray)
           r == GetLocked(seq, next, size, o.last, o.copy, stray)
<1>1. /\ put_pc = "idle"
      /\ seq_num' = [seq_num EXCEPT ![h] = r.seq_num]
      /\ next_index' = [next_index EXCEPT ![h] = r.next_index]
      /\ UNCHANGED <<shm, put, start>>
  BY Zenon DEF ach_get
<1>2. /\ UNCHANGED <<index_head, index_free, data_head, data_free, last_seq, index_ar, data_ar>>
      /\ UNCHANGED <<put_pc, put_len, put_idx, put_i, start>>
  BY <1>1, Zenon DEF shm, put
<1>3. /\ published \in Nat
      /\ last_seq = published
      /\ oldest \in 1 .. published + 1
  BY <1>1, Counts, Zenon DEF RingInv, IndexConsistent
<1>4. /\ seq \in Nat /\ seq <= published
      /\ next \in 0 .. IndexCnt
      /\ next = seq % IndexCnt \/ (seq = 0 /\ next = 1)
  BY Zenon DEF RingInv, TypeOK, HandlesInStep
<1>5. o.last \in BOOLEAN /\ o.copy \in BOOLEAN
  BY Zenon DEF Options
<1>6. \/ r.seq_num = seq /\ r.next_index = next
      \/ /\ published > 0
         /\ i < IndexCnt
         /\ r.seq_num = index_ar[i].seq_num
         /\ r.next_index = (i + 1) % IndexCnt
  <2> DEFINE g == ach_get_from_offset(seq, next, i, size)
             same(q) == q.seq_num = seq /\ q.next_index = next
             read(q) == q.seq_num = index_ar[i].seq_num /\ q.next_index = (i + 1) % IndexCnt
  <2>1. \A st, b : same(Result(st, seq, next, b))
    BY SMTT(30) DEF Result
  <2>2. same(g) \/ read(g)
    BY SMTT(30) DEF ach_get_from_offset, Result
  <2>3. g = Result(g.status, g.seq_num, g.next_index, g.buf)
    BY Zenon DEF ach_get_from_offset, Result
  <2>4. i < IndexCnt \/ i >= IndexCnt
    BY <1>4 DEF read_index, RingInv, TypeOK, last_index_i, oldest_index_i
  <2> HIDE DEF g, i
  <2>5. same([g EXCEPT !.status = "ACH_MISSED_FRAME"]) \/ read([g EXCEPT !.status = "ACH_MISSED_FRAME"])
    BY <2>2, <2>3, Zenon DEF Result
  <2>6. \/ r = Result("ACH_STALE_FRAMES", seq, next, <<>>)
        \/ r = Result("ACH_OVERFLOW", seq, next, <<>>)
        \/ ~ (last_seq = 0) /\ ~ (i >= IndexCnt) /\ r = [g EXCEPT !.status = "ACH_MISSED_FRAME"]
        \/ ~ (last_seq = 0) /\ ~ (i >= IndexCnt) /\ r = g
    BY Zenon DEF GetLocked, g, i
  <2>7. last_seq = 0 \/ published > 0
    BY <1>3
  <2> HIDE DEF r
  <2>8. same(r) \/ (published > 0 /\ i < IndexCnt /\ read(r))
    <3> HIDE DEF same, read
    <3> QED
      BY <2>1, <2>2, <2>4, <2>5, <2>6, <2>7, Zenon
  <2> QED
    BY <2>8, Zenon
<1>7. /\ r.seq_num \in Nat /\ r.seq_num <= published
      /\ r.next_index \in 0 .. IndexCnt
      /\ r.next_index = r.seq_num % IndexCnt \/ (r.seq_num = 0 /\ r.next_index = 1)
  <2>1. CASE r.seq_num = seq /\ r.next_index = next
    BY <1>4, <2>1, Zenon
  <2>2. CASE /\ published > 0
             /\ i < IndexCnt
             /\ r.seq_num = index_ar[i].seq_num
             /\ r.next_index = (i + 1) % IndexCnt
    <3>1. PICK s \in oldest .. published : i = Slot(s) /\ index_ar[i] = Entry(s)
      <4>1. i = read_index(seq_num[h], next_index[h], o.last, stray)
        BY Zenon
      <4> HIDE DEF i, r, seq, next
      <4> QED
        BY <1>1, <1>5, <2>2, <4>1, ReadIndexFinds, ZenonT(60)
    <3> HIDE DEF i, r
    <3>2. s \in Nat \ {0} /\ (s + 1) - 1 = s /\ s \in Nat
      BY <1>3
    <3>3. r.seq_num = s
      BY <2>2, <3>1 DEF Entry
    <3>4. r.next_index = s % IndexCnt
      <4>1. (Slot(s) + 1) % IndexCnt = Slot(s + 1)
        BY <3>2, SlotFacts, Zenon
      <4> QED
        BY <2>2, <3>1, <3>2, <4>1, Zenon DEF Slot
    <3>5. s % IndexCnt \in 0 .. IndexCnt - 1
      BY <3>2, ModDef, Zenon
    <3>6. s % IndexCnt \in 0 .. IndexCnt
      BY <3>5
    <3> QED
      BY <3>1, <3>2, <3>3, <3>4, <3>6
  <2> HIDE DEF r, i
  <2> QED
    BY <1>6, <2>1, <2>2, Zenon
<1> HIDE DEF r, i
<1>8. published' = published /\ used' = used /\ oldest' = oldest
  BY <1>2, Zenon DEF published, used, oldest
<1>9. TypeOK'
  BY <1>1, <1>2, <1>7, Zenon DEF RingInv, TypeOK
<1>10. HandlesInStep'
  BY <1>1, <1>7, <1>8, Zenon DEF RingInv, TypeOK, HandlesInStep
<1>11. StartIncreasing' /\ FramesIntact' /\ KeepsAllThatFits' /\ DroppedForRoom'
  BY <1>2, <1>8, SMTT(30) DEF RingInv, StartIncreasing, FramesIntact, KeepsAllThatFits, DroppedForRoom
<1>12. IndexConsistent' /\ PutLocals'
  BY <1>2, <1>8, Zenon DEF RingInv, IndexConsistent, PutLocals, Slot, Entry, oldest_index_i
<1> QED
  BY <1>9, <1>10, <1>11, <1>12, Zenon DEF RingInv

\* A flush and a reopening put the handle in step again, and do nothing else.
LEMMA HandleStep ==
  ASSUME RingInv, NEW h \in Handles, ach_flush(h) \/ ach_open(h)
  PROVE  RingInv'
<1> USE IndexCntAssumption, DataSizeAssumption
<1>1. /\ UNCHANGED <<index_head, index_free, data_head, data_free, last_seq, index_ar, data_ar>>
      /\ UNCHANGED <<put_pc, put_len, put_idx, put_i, start>>
  BY Zenon DEF ach_flush, ach_open, shm, put
<1>2. published' = published /\ used' = used /\ oldest' = oldest /\ published \in Nat
  BY <1>1, Counts, Zenon DEF RingInv, published, used, oldest
<1>3. PICK sq \in 0 .. published, nx \in 0 .. IndexCnt :
         /\ nx = sq % IndexCnt \/ (sq = 0 /\ nx = 1)
         /\ seq_num' = [seq_num EXCEPT ![h] = sq]
         /\ next_index' = [next_index EXCEPT ![h] = nx]
  <2>1. CASE ach_flush(h)
    <3>1. /\ seq_num' = [seq_num EXCEPT ![h] = last_seq]
          /\ next_index' = [next_index EXCEPT ![h] = index_head]
          /\ put_pc = "idle"
      BY <2>1, Zenon DEF ach_flush, FlushLocked, Result
    <3>2. last_seq = published /\ index_head = published % IndexCnt
      BY <3>1, Zenon DEF RingInv, IndexConsistent
    <3>3. index_head \in 0 .. IndexCnt
      BY DEF RingInv, TypeOK
    <3>4. published \in 0 .. published
      BY <1>2
    <3> QED
      BY <3>1, <3>2, <3>3, <3>4, Zenon
  <2>2. CASE ach_open(h)
    <3>1. /\ seq_num' = [seq_num EXCEPT ![h] = 0]
          /\ next_index' = [next_index EXCEPT ![h] = 1]
      BY <2>2, Zenon DEF ach_open
    <3>2. 0 \in 0 .. published /\ 1 \in 0 .. IndexCnt
      BY <1>2
    <3> QED
      BY <3>1, <3>2, Zenon
  <2> QED
    BY <2>1, <2>2, Zenon
<1>4. TypeOK'
  <2>1. sq \in Nat
    BY <1>2
  <2> QED
    BY <1>1, <1>3, <2>1, Zenon DEF RingInv, TypeOK
<1>5. HandlesInStep'
  BY <1>2, <1>3 DEF RingInv, TypeOK, HandlesInStep
<1>6. StartIncreasing' /\ FramesIntact' /\ KeepsAllThatFits' /\ DroppedForRoom'
  BY <1>1, <1>2, Zenon DEF RingInv, StartIncreasing, FramesIntact, KeepsAllThatFits, DroppedForRoom
<1>7. IndexConsistent' /\ PutLocals'
  BY <1>1, <1>2, Zenon DEF RingInv, IndexConsistent, PutLocals, Slot, Entry, oldest_index_i
<1> QED
  BY <1>4, <1>5, <1>6, <1>7, Zenon DEF RingInv

-----------------------------------------------------------------------------
(* What a get finds, and that it is what the publish/subscribe channel     *)
(* gives: for every number of index entries but one, since with a single   *)
(* entry a new handle reads past the index array.                          *)

\* The retained frames fit into the index and into the data array together.
LEMMA RetainedFit ==
  ASSUME RingInv, NEW s \in oldest .. published
  PROVE  /\ s \in 1 .. published
         /\ published + 1 - s <= IndexCnt
         /\ start[s] \in Nat /\ start[s + 1] \in Nat
         /\ start[s + 1] - start[s] \in 1 .. DataSize
         /\ start[published + 1] - start[s] <= DataSize
<1> USE IndexCntAssumption, DataSizeAssumption
<1>1. /\ published \in Nat /\ Len(start) = published + 1
      /\ used \in 0 .. IndexCnt
      /\ oldest \in 1 .. published + 1
      /\ oldest = published - used + 1
      /\ \A t \in 1 .. published + 1 : start[t] \in Nat
  BY Counts, Zenon DEF RingInv, oldest
<1>2. s \in 1 .. published /\ oldest <= s /\ published + 1 - s <= IndexCnt
  BY <1>1
<1>3. start[s] \in Nat /\ start[s + 1] \in Nat /\ start[oldest] \in Nat /\ start[published + 1] \in Nat
  BY <1>1, <1>2
<1>4. start[published + 1] - start[oldest] <= DataSize
  <2>1. data_free \in 0 .. DataSize /\ data_free = DataSize - (start[published + 1] - start[oldest])
    BY Zenon DEF RingInv, TypeOK, IndexConsistent
  <2> QED
    BY <1>3, <2>1, SMTT(30)
<1>5. start[oldest] <= start[s] /\ start[s] < start[s + 1] /\ start[s + 1] <= start[published + 1]
  BY <1>1, <1>2, <1>3 DEF RingInv, StartIncreasing
<1> QED
  BY <1>2, <1>3, <1>4, <1>5

\* ach_get_from_offset() copies out what was put, wherever the frame wraps.
LEMMA CopyOutFrame ==
  ASSUME RingInv, NEW s \in oldest .. published
  PROVE  CopyOut(Entry(s)) = PS!Content(s)
<1> USE IndexCntAssumption, DataSizeAssumption
<1> DEFINE n == start[s + 1] - start[s]
           f == start[s] % DataSize
           end == DataSize - f
           blank == [k \in 0 .. n - 1 |-> ZeroByte]
           bytes == [k \in 0 .. n - 1 |-> data_ar[(start[s] + k) % DataSize]]
<1>1. start[s] \in Nat /\ n \in 1 .. DataSize
  BY RetainedFit, Zenon
<1>2. f \in 0 .. DataSize - 1
  BY <1>1, ModDef, Zenon
<1>3. ASSUME NEW k \in 0 .. n - 1
      PROVE  (start[s] + k) % DataSize = IF f + k < DataSize THEN f + k ELSE f + k - DataSize
  <2>1. k \in 0 .. DataSize - 1
    BY <1>1
  <2> QED
    BY <1>1, <2>1, ModShift, Zenon
<1>4. Entry(s).size = n /\ Entry(s).offset = f
  BY Zenon DEF Entry
<1>5. CopyOut(Entry(s)) = IF f + n < DataSize THEN memcpy(blank, 0, data_ar, f, n)
                          ELSE memcpy(memcpy(blank, 0, data_ar, f, end), end, data_ar, 0, n - end)
  BY <1>4, Zenon DEF CopyOut
<1> HIDE DEF n, f
<1>6. ASSUME f + n < DataSize
      PROVE  CopyOut(Entry(s)) = bytes
  <2>1. CopyOut(Entry(s)) = [a \in 0 .. n - 1 |-> IF a \in 0 .. 0 + n - 1 THEN data_ar[f + (a - 0)] ELSE blank[a]]
    BY <1>5, <1>6, Zenon DEF memcpy
  <2>2. ASSUME NEW a \in 0 .. n - 1
        PROVE  (IF a \in 0 .. 0 + n - 1 THEN data_ar[f + (a - 0)] ELSE blank[a]) = data_ar[(start[s] + a) % DataSize]
    BY <1>1, <1>2, <1>3, <1>6
  <2> QED
    BY <2>1, <2>2, Zenon
<1>7. ASSUME ~ (f + n < DataSize)
      PROVE  CopyOut(Entry(s)) = bytes
  <2>1. CopyOut(Entry(s)) =
          [a \in 0 .. n - 1 |->
             IF a \in end .. end + (n - end) - 1 THEN data_ar[0 + (a - end)]
             ELSE IF a \in 0 .. 0 + end - 1 THEN data_ar[f + (a - 0)] ELSE blank[a]]
    BY <1>5, <1>7, Zenon DEF memcpy
  <2>2. ASSUME NEW a \in 0 .. n - 1
        PROVE  (IF a \in end .. end + (n - end) - 1 THEN data_ar[0 + (a - end)]
                ELSE IF a \in 0 .. 0 + end - 1 THEN data_ar[f + (a - 0)] ELSE blank[a])
               = data_ar[(start[s] + a) % DataSize]
    <3>1. a \in end .. end + (n - end) - 1 <=> ~ (f + a < DataSize)
      BY <1>1, <1>2
    <3>2. ~ (f + a < DataSize) => 0 + (a - end) = f + a - DataSize
      BY <1>1, <1>2
    <3>3. f + a < DataSize => a \in 0 .. 0 + end - 1 /\ f + (a - 0) = f + a
      BY <1>1, <1>2
    <3> QED
      BY <1>3, <3>1, <3>2, <3>3, Zenon
  <2> QED
    BY <2>1, <2>2, Zenon
<1>8. bytes = PS!Content(s)
  <2>1. \A k \in 0 .. n - 1 : data_ar[(start[s] + k) % DataSize] = <<s, k>>
    BY Zenon DEF RingInv, FramesIntact, Byte, n
  <2>2. PS!Content(s) = [k \in 0 .. n - 1 |-> <<s, k>>]
    BY Zenon DEF PS!Content, PS!Size, n
  <2> QED
    BY <2>1, <2>2, Zenon
<1> QED
  BY <1>6, <1>7, <1>8, Zenon

\* A get wants the frame that it finds.
LEMMA WantsFound ==
  ASSUME RingInv, put_pc = "idle", published > 0, NEW h \in Handles, NEW o \in Options,
         Found(h, o.last) \in oldest .. published
  PROVE  PS!Wanted(h, o, Found(h, o.last))
<1> USE IndexCntAssumption, DataSizeAssumption
<1> DEFINE s == Found(h, o.last)
<1>1. /\ published \in Nat
      /\ oldest \in 1 .. published + 1
      /\ \A t \in 1 .. published + 1 : start[t] \in Nat
      /\ seq_num[h] \in Nat
  BY Counts, Zenon DEF RingInv, TypeOK
<1>2. s \in 1 .. published /\ PS!Retained(s) /\ PS!newest = published
  BY RetainedFit, Zenon DEF PS!Retained, PS!newest, published
<1>3. CASE o.last \/ seq_num[h] = published
  BY <1>2, <1>3, Zenon DEF PS!Wanted, Found
<1>4. CASE ~ (o.last \/ seq_num[h] = published) /\ seq_num[h] + 1 >= oldest
  BY <1>1, <1>2, <1>4 DEF PS!Wanted, Found
<1>5. CASE ~ (o.last \/ seq_num[h] = published) /\ ~ (seq_num[h] + 1 >= oldest)
  <2>1. s = oldest /\ s > seq_num[h] + 1 /\ oldest > 1
    BY <1>1, <1>5 DEF Found
  <2>2. ~ PS!Retained(s - 1)
    BY <1>1, <1>2, <2>1, SMTT(30) DEF RingInv, KeepsAllThatFits, PS!Retained
  <2> QED
    BY <1>1, <1>2, <1>5, <2>1, <2>2 DEF PS!Wanted
<1> QED
  BY <1>3, <1>4, <1>5, Zenon

-----------------------------------------------------------------------------
\* What ach_get() does under the lock: nothing new, a buffer that is too small, or
\* the frame found, with a report of those that were passed over.
LEMMA GetLockedFinds ==
  ASSUME RingInv, put_pc = "idle", NEW h \in Handles, NEW size \in Nat,
         NEW o \in Options, NEW stray \in BOOLEAN, NEW r,
         \/ read_index(seq_num[h], next_index[h], o.last, stray) < IndexCnt
         \/ IndexCnt > 1,
         r = GetLocked(seq_num[h], next_index[h], size, o.last, o.copy, stray)
  PROVE  LET s == Found(h, o.last)
             seq == seq_num[h]
         IN  \/ /\ published = 0 \/ (seq = published /\ ~ o.copy)
                /\ r = Result("ACH_STALE_FRAMES", seq, next_index[h], <<>>)
             \/ /\ ~ (published = 0 \/ (seq = published /\ ~ o.copy))
                /\ s \in oldest .. published
                /\ \/ /\ size < start[s + 1] - start[s]
                      /\ r = Result("ACH_OVERFLOW", seq, next_index[h], <<>>)
                   \/ /\ size >= start[s + 1] - start[s]
                      /\ r = Result(IF s > seq + 1 THEN "ACH_MISSED_FRAME" ELSE "ACH_OK",
                                    s, (Slot(s) + 1) % IndexCnt, PS!Content(s))
<1> USE IndexCntAssumption, DataSizeAssumption
<1> DEFINE s == Found(h, o.last)
           seq == seq_num[h]
           next == next_index[h]
           i == read_index(seq, next, o.last, stray)
           g == ach_get_from_offset(seq, next, i, size)
           nothing == published = 0 \/ (seq = published /\ ~ o.copy)
<1>1. published \in Nat /\ last_seq = published /\ oldest \in 1 .. published + 1
  BY Counts, Zenon DEF RingInv, IndexConsistent
<1>2. seq \in Nat /\ seq <= published
  BY Zenon DEF RingInv, TypeOK, HandlesInStep
<1>3. o.last \in BOOLEAN /\ o.copy \in BOOLEAN
  BY Zenon DEF Options
<1>4. r = IF nothing THEN Result("ACH_STALE_FRAMES", seq, next, <<>>)
          ELSE IF i >= IndexCnt THEN Result("ACH_OVERFLOW", seq, next, <<>>)
          ELSE IF g.status = "ACH_OK" /\ index_ar[i].seq_num > seq + 1
          THEN [g EXCEPT !.status = "ACH_MISSED_FRAME"]
          ELSE g
  <2>1. ((seq = last_seq /\ ~ o.copy) \/ last_seq = 0) <=> nothing
    BY <1>1, Zenon
  <2> HIDE DEF nothing
  <2> QED
    BY <2>1, Zenon DEF GetLocked
<1>5. CASE nothing
  BY <1>4, <1>5, Zenon
<1>6. CASE ~ nothing
  <2>1. s \in oldest .. published /\ i = Slot(s) /\ index_ar[i] = Entry(s)
    <3>1. published > 0
      BY <1>1, <1>6, SMTT(30)
    <3>2. i = read_index(seq_num[h], next_index[h], o.last, stray)
      BY Zenon
    <3>3. i < IndexCnt \/ IndexCnt > 1
      BY Zenon
    <3> HIDE DEF i, seq, next, g, nothing
    <3> QED
      BY <1>3, <3>1, <3>2, <3>3, ReadIndexFinds, SMTT(30)
  <2> DEFINE z == start[s + 1] - start[s]
  <2>2. s \in 1 .. published /\ z \in 1 .. DataSize
    BY <2>1, RetainedFit, Zenon
  <2>3. i < IndexCnt /\ i \in Nat
    <3>1. Slot(s) \in 0 .. IndexCnt - 1
      BY <2>2, SlotFacts
    <3> QED
      BY <2>1, <3>1
  <2>4. seq <= s
    BY <1>1, <1>2, <2>2, SMTT(30) DEF Found
  <2>5. index_ar[i].seq_num = s /\ index_ar[i].size = z
    BY <2>1, SMTT(30) DEF Entry
  <2>6. CopyOut(index_ar[i]) = PS!Content(s)
    BY <2>1, CopyOutFrame, Zenon
  <2>7. g = IF z > size THEN Result("ACH_OVERFLOW", seq, next, <<>>)
            ELSE Result("ACH_OK", s, (i + 1) % IndexCnt, PS!Content(s))
    <3>1. ~ (seq > s)
      BY <1>2, <2>2, <2>4, SMTT(30)
    <3> HIDE DEF i, s, z
    <3> QED
      BY <2>5, <2>6, <3>1, Zenon DEF ach_get_from_offset
  <2> DEFINE c == PS!Content(s)
             ii == (Slot(s) + 1) % IndexCnt
  <2> HIDE DEF g, i, s, z, c, nothing
  <2>8. CASE z > size
    <3>1. g = Result("ACH_OVERFLOW", seq, next, <<>>)
      BY <2>7, <2>8, Zenon
    <3>2. g.status # "ACH_OK"
      BY <3>1, Zenon DEF Result
    <3>3. r = g
      BY <1>4, <1>6, <2>3, <3>2, SMTT(30)
    <3> QED
      BY <1>6, <2>1, <2>2, <2>8, <3>1, <3>3, Zenon DEF s, z, nothing
  <2>9. CASE ~ (z > size)
    <3>1. g = Result("ACH_OK", s, ii, c)
      BY <2>1, <2>7, <2>9, Zenon DEF c
    <3>2. g.status = "ACH_OK"
      BY <3>1, Zenon DEF Result
    <3>3. [g EXCEPT !.status = "ACH_MISSED_FRAME"] = Result("ACH_MISSED_FRAME", s, ii, c)
      BY <3>1 DEF Result
    <3>4. r = Result(IF s > seq + 1 THEN "ACH_MISSED_FRAME" ELSE "ACH_OK", s, ii, c)
      BY <1>4, <1>6, <2>3, <2>5, <3>1, <3>2, <3>3
    <3> QED
      BY <1>6, <2>1, <2>2, <2>9, <3>4 DEF s, z, c, nothing
  <2> QED
    BY <2>8, <2>9, ZenonT(60)
<1> QED
  BY <1>5, <1>6, SMTT(30)

\* The one case in which read_index lies past the array: a handle that has read
\* nothing, in a channel with one entry, is after the next frame.  It stays.
LEMMA GetPast ==
  ASSUME RingInv, NEW h \in Handles, NEW size, NEW o \in Options, NEW stray \in BOOLEAN,
         ~ (read_index(seq_num[h], next_index[h], o.last, stray) < IndexCnt)
  PROVE  LET r == GetLocked(seq_num[h], next_index[h], size, o.last, o.copy, stray)
         IN  /\ IndexCnt = 1 /\ seq_num[h] = 0 /\ ~ o.last
             /\ r.seq_num = seq_num[h]
             /\ r.status \in {"ACH_STALE_FRAMES", "ACH_OVERFLOW"}
<1> USE IndexCntAssumption
<1> DEFINE seq == seq_num[h]
           next == next_index[h]
           i == read_index(seq, next, o.last, stray)
           r == GetLocked(seq, next, size, o.last, o.copy, stray)
<1>1. seq \in Nat /\ ((seq = 0 /\ next = 1) \/ next = seq % IndexCnt)
  BY Zenon DEF RingInv, TypeOK, HandlesInStep
<1>2. last_index_i \in 0 .. IndexCnt - 1 /\ oldest_index_i \in 0 .. IndexCnt - 1
  <2>1. index_head \in Nat /\ index_free \in Nat
    BY DEF RingInv, TypeOK
  <2>2. index_head + IndexCnt - 1 \in Nat /\ index_head + index_free \in Nat
    BY <2>1
  <2> QED
    BY <2>2, ModDef DEF last_index_i, oldest_index_i
<1>3. last_index_i < IndexCnt /\ oldest_index_i < IndexCnt
  BY <1>2
<1>4. ~ o.last /\ i = next
  <2>1. i = last_index_i \/ i = oldest_index_i \/ (~ o.last /\ i = next)
    BY Zenon DEF read_index
  <2>2. ~ (i < IndexCnt)
    BY Zenon
  <2> HIDE DEF i
  <2> QED
    BY <1>3, <2>1, <2>2, Zenon
<1>5. ~ (next < IndexCnt)
  BY <1>4, Zenon
<1>6. seq = 0 /\ next = 1
  <2>1. seq % IndexCnt < IndexCnt
    <3>1. seq % IndexCnt \in 0 .. IndexCnt - 1
      BY <1>1, ModDef
    <3> QED
      BY <3>1
  <2> QED
    BY <1>1, <1>5, <2>1, Zenon
<1>7. IndexCnt = 1 /\ i >= IndexCnt
  BY <1>4, <1>5, <1>6
<1>8. \/ r = Result("ACH_STALE_FRAMES", seq, next, <<>>)
      \/ r = Result("ACH_OVERFLOW", seq, next, <<>>)
  <2> DEFINE g == ach_get_from_offset(seq, next, i, size)
  <2>1. r = IF (seq = last_seq /\ ~ o.copy) \/ last_seq = 0
            THEN Result("ACH_STALE_FRAMES", seq, next, <<>>)
            ELSE IF i >= IndexCnt THEN Result("ACH_OVERFLOW", seq, next, <<>>)
            ELSE IF g.status = "ACH_OK" /\ index_ar[i].seq_num > seq + 1
            THEN [g EXCEPT !.status = "ACH_MISSED_FRAME"]
            ELSE g
    BY Zenon DEF GetLocked
  <2> HIDE DEF seq, next, i, r, g
  <2> QED
    BY <1>7, <2>1, Zenon
<1>9. r.seq_num = seq /\ r.status \in {"ACH_STALE_FRAMES", "ACH_OVERFLOW"}
  <2> HIDE DEF r
  <2>1. CASE r = Result("ACH_STALE_FRAMES", seq, next, <<>>)
    BY <2>1, Zenon DEF Result
  <2>2. CASE r = Result("ACH_OVERFLOW", seq, next, <<>>)
    BY <2>2, Zenon DEF Result
  <2> QED
    BY <1>8, <2>1, <2>2, Zenon
<1> QED
  BY <1>4, <1>6, <1>7, <1>9, Zenon

\* The answer of the channel is what the caller of the ring sees of its reply.
LEMMA Answers ==
  /\ \A st : reply' = PutReply(st) => Answer' = PS!PutAnswer(st)
  /\ reply' = NoReply => Answer' = PS!NoAnswer
  /\ \A h, from, o, r, i : reply' = GetReply(h, from, o, r, i) =>
       Answer' = PS!GetAnswer(r.status, r.seq_num, r.buf)
  /\ UNCHANGED reply => UNCHANGED Answer
  /\ reply = NoReply => Answer = PS!NoAnswer
<1> QED
  BY SMTT(30) DEF Answer, PutReply, NoReply, GetReply, PS!PutAnswer, PS!NoAnswer, PS!GetAnswer

\* A get is a get.
LEMMA GetRefines ==
  ASSUME RingInv, IndexCnt > 1, NEW h \in Handles, NEW size \in Sizes, NEW o \in Options,
         NEW stray \in BOOLEAN, ach_get(h, size, o, stray)
  PROVE  PS!Next
<1> DEFINE s == Found(h, o.last)
           seq == seq_num[h]
           r == GetLocked(seq, next_index[h], size, o.last, o.copy, stray)
<1>1. /\ put_pc = "idle"
      /\ seq_num' = [seq_num EXCEPT ![h] = r.seq_num]
      /\ start' = start
      /\ \E i : reply' = GetReply(h, seq, o, r, i)
  BY Zenon DEF ach_get
<1>2. Answer' = PS!GetAnswer(r.status, r.seq_num, r.buf)
  <2> HIDE DEF r
  <2> QED
    BY <1>1, Answers, Zenon
<1>3. published \in Nat /\ PS!newest = published
  BY Counts, Zenon DEF RingInv, PS!newest, published
<1>4. seq_num \in [Handles -> Nat] /\ size \in Nat
  BY SizesAssumption, Zenon DEF RingInv, TypeOK
<1>5. PS!Nothing(h, o) <=> published = 0 \/ (seq = published /\ ~ o.copy)
  BY <1>3, ZenonT(60) DEF PS!Nothing
<1> DEFINE c == PS!Content(s)
<1>6. \/ /\ PS!Nothing(h, o)
         /\ r = Result("ACH_STALE_FRAMES", seq, next_index[h], <<>>)
      \/ /\ ~ PS!Nothing(h, o)
         /\ s \in oldest .. published
         /\ \/ /\ size < PS!Size(s)
               /\ r = Result("ACH_OVERFLOW", seq, next_index[h], <<>>)
            \/ /\ size >= PS!Size(s)
               /\ r = Result(IF s > seq + 1 THEN "ACH_MISSED_FRAME" ELSE "ACH_OK",
                             s, (Slot(s) + 1) % IndexCnt, c)
  <2> HIDE DEF r
  <2> QED
    BY <1>1, <1>4, <1>5, GetLockedFinds DEF PS!Size, r
<1> HIDE DEF r, c
<1>7. o \in PS!Options
  BY Zenon DEF Options, PS!Options
<1>8. CASE PS!Nothing(h, o) /\ r = Result("ACH_STALE_FRAMES", seq, next_index[h], <<>>)
  <2>1. r.status = "ACH_STALE_FRAMES" /\ r.seq_num = seq /\ r.buf = <<>>
    BY <1>8, Zenon DEF Result
  <2>2. seq_num' = seq_num
    BY <1>1, <1>4, <2>1, Zenon
  <2>3. PS!Stale(h, o)
    BY <1>1, <1>2, <1>8, <2>1, <2>2, Zenon DEF PS!Stale
  <2> QED
    BY <1>7, <2>3, Zenon DEF PS!Next
<1>9. CASE /\ ~ PS!Nothing(h, o) /\ s \in oldest .. published
           /\ size < PS!Size(s) /\ r = Result("ACH_OVERFLOW", seq, next_index[h], <<>>)
  <2>1. r.status = "ACH_OVERFLOW" /\ r.seq_num = seq /\ r.buf = <<>>
    BY <1>9, ZenonT(60) DEF Result
  <2>2. seq_num' = seq_num
    BY <1>1, <1>4, <2>1, SMTT(30)
  <2>3. s \in 1 .. PS!newest /\ published > 0
    BY <1>3, <1>9, RetainedFit
  <2>4. PS!Wanted(h, o, s)
    BY <1>1, <1>9, <2>3, WantsFound, Zenon
  <2>5. PS!TooSmall(h, size, o, s)
    BY <1>1, <1>2, <1>9, <2>1, <2>2, <2>4, Zenon DEF PS!TooSmall
  <2> QED
    BY <1>7, <2>3, <2>5, Zenon DEF PS!Next
<1>10. CASE /\ ~ PS!Nothing(h, o) /\ s \in oldest .. published
            /\ size >= PS!Size(s)
            /\ r = Result(IF s > seq + 1 THEN "ACH_MISSED_FRAME" ELSE "ACH_OK",
                          s, (Slot(s) + 1) % IndexCnt, c)
  <2>1. r.status = (IF s > seq + 1 THEN "ACH_MISSED_FRAME" ELSE "ACH_OK") /\ r.seq_num = s /\ r.buf = c
    BY <1>10, Zenon DEF Result
  <2>3. s \in 1 .. PS!newest /\ published > 0
    BY <1>3, <1>10, RetainedFit
  <2>4. PS!Wanted(h, o, s)
    BY <1>1, <1>10, <2>3, WantsFound, Zenon
  <2>5. PS!Deliver(h, size, o, s)
    <3>1. r.status \in PS!DeliverStatus(h, o, s)
      <4>1. (s <= seq + 1) <=> ~ (s > seq + 1)
        BY <1>3, <1>4, <2>3
      <4> QED
        BY <2>1, <4>1, Zenon DEF PS!DeliverStatus
    <3> QED
      BY <1>1, <1>2, <1>10, <2>1, <2>4, <3>1, Zenon DEF PS!Deliver, c
  <2> QED
    BY <1>7, <2>3, <2>5, Zenon DEF PS!Next
<1> QED
  BY <1>6, <1>8, <1>9, <1>10, SMTT(30)

-----------------------------------------------------------------------------
(* ach_put(). *)

\* Freeing the oldest entry leaves a consistent ring with one frame less.
LEMMA FreeOldest ==
  ASSUME TypeOK, StartIncreasing, IndexConsistent, FramesIntact,
         put_pc \in {"head", "free"}, put_pc' = "free", UNCHANGED start,
         used > 0, free_index(Slot(oldest))
  PROVE  /\ published' = published
         /\ oldest' = oldest + 1
         /\ index_free' \in 1 .. IndexCnt
         /\ data_free' \in 0 .. DataSize
         /\ index_ar' \in IndexArray
         /\ IndexConsistent'
         /\ FramesIntact'
<1> USE IndexCntAssumption, DataSizeAssumption
<1>1. /\ published \in Nat
      /\ Len(start) = published + 1
      /\ used \in 1 .. IndexCnt
      /\ oldest \in 1 .. published
      /\ published < oldest + IndexCnt
      /\ \A s \in 1 .. published + 1 : start[s] \in Nat
  <2>1. oldest = published - used + 1
    BY Zenon DEF oldest
  <2> QED
    BY <2>1, Counts, SMTT(30)
<1>2. /\ published' = published
      /\ used' = used - 1
      /\ oldest' = oldest + 1
      /\ index_free' = index_free + 1
      /\ index_free' \in 1 .. IndexCnt
  BY <1>1 DEF free_index, published, used, oldest, TypeOK
<1>3. index_ar[Slot(oldest)] = Entry(oldest)
  BY <1>1, SMTT(30) DEF IndexConsistent
<1>4. /\ start[oldest] < start[oldest + 1]
      /\ start[oldest + 1] <= start[published + 1]
  BY <1>1 DEF StartIncreasing
<1>5. /\ data_free' = DataSize - (start[published + 1] - start[oldest + 1])
      /\ data_free' \in 0 .. DataSize
  <2>1. data_free' = data_free + (start[oldest + 1] - start[oldest])
    BY <1>3 DEF free_index, Entry
  <2>2. data_free = DataSize - (start[published + 1] - start[oldest]) /\ data_free \in 0 .. DataSize
    BY Zenon DEF IndexConsistent, TypeOK
  <2> QED
    BY <1>1, <1>4, <2>1, <2>2, SMTT(30)
<1>6. Slot(oldest) \in 0 .. IndexCnt - 1
  BY <1>1, SlotFacts
<1>7. index_ar' = [index_ar EXCEPT ![Slot(oldest)] = ZeroIndex]
  BY Zenon DEF free_index
<1>8. index_ar' \in IndexArray
  BY <1>6, <1>7 DEF TypeOK, ZeroIndex, IndexArray
<1>9. \A s \in oldest + 1 .. oldest + IndexCnt - 1 : index_ar'[Slot(s)] = index_ar[Slot(s)]
  <2> SUFFICES ASSUME NEW s \in oldest + 1 .. oldest + IndexCnt - 1
               PROVE  index_ar'[Slot(s)] = index_ar[Slot(s)]
    BY Zenon
  <2>1. s \in Nat \ {0} /\ oldest \in Nat \ {0} /\ oldest < s /\ s < oldest + IndexCnt
    BY <1>1
  <2>2. Slot(s) # Slot(oldest) /\ Slot(s) \in 0 .. IndexCnt - 1
    BY <2>1, SlotDistinct, SlotFacts, SMTT(30)
  <2> QED
    BY <2>2, <1>7, Zenon DEF TypeOK, IndexArray
<1>10. index_ar'[Slot(oldest + IndexCnt)] = ZeroIndex
  <2>1. Slot(oldest + IndexCnt) = Slot(oldest)
    BY <1>1, SlotFacts
  <2> QED
    BY <2>1, <1>6, <1>7, Zenon DEF TypeOK, IndexArray
<1>11. IndexConsistent'
  <2>1. /\ last_seq' = IF put_pc' = "advance" THEN published' + 1 ELSE published'
        /\ index_head' = published' % IndexCnt
        /\ data_head' = start'[published' + 1] % DataSize
    BY <1>2, Zenon DEF free_index, IndexConsistent
  <2>2. used' <= published'
    BY <1>1, <1>2 DEF IndexConsistent
  <2>3. data_free' = DataSize - (start'[published' + 1] - start'[oldest'])
    BY <1>2, <1>5, Zenon
  <2>4. ASSUME NEW s \in oldest' .. published' PROVE index_ar'[Slot(s)] = Entry(s)'
    <3>1. s \in oldest + 1 .. oldest + IndexCnt - 1 /\ s \in oldest .. published
      BY <1>1, <1>2
    <3>2. index_ar[Slot(s)] = Entry(s)
      BY <3>1, Zenon DEF IndexConsistent
    <3> QED
      BY <3>1, <3>2, <1>9, Zenon DEF Entry
  <2>5. ASSUME NEW s \in published' + 1 .. oldest' + IndexCnt - 1
        PROVE  index_ar'[Slot(s)] = ZeroIndex
    <3>1. CASE s = oldest + IndexCnt
      BY <3>1, <1>10, Zenon
    <3>2. CASE s # oldest + IndexCnt
      <4>1. s \in oldest + 1 .. oldest + IndexCnt - 1 /\ s \in published + 1 .. oldest + IndexCnt - 1
        BY <1>1, <1>2, <3>2
      <4>2. index_ar[Slot(s)] = ZeroIndex
        BY <4>1, Zenon DEF IndexConsistent
      <4> QED
        BY <4>1, <4>2, <1>9, Zenon
    <3> QED
      BY <3>1, <3>2, Zenon
  <2> QED
    BY <2>1, <2>2, <2>3, <2>4, <2>5, Zenon DEF IndexConsistent, Slot
<1>12. FramesIntact'
  <2>1. data_ar' = data_ar
    BY Zenon DEF free_index
  <2>2. \A s \in oldest' .. published' : s \in oldest .. published
    BY <1>1, <1>2
  <2> QED
    BY <2>1, <2>2, Zenon DEF FramesIntact
<1> QED
  BY <1>2, <1>5, <1>8, <1>11, <1>12, Zenon

\* A new call of ach_put() finds a ring in which nothing can be kept longer,
\* and one more frame only makes that tighter.
LEMMA PutCallStep ==
  ASSUME RingInv, NEW len \in Lengths, PutCall(len)
  PROVE  RingInv'
<1> USE IndexCntAssumption, DataSizeAssumption
<1>1. /\ put_pc = "idle" /\ put_pc' = "head"
      /\ put_len' = len /\ len \in 1 .. DataSize
      /\ UNCHANGED <<shm, handles, put_idx, put_i, start>>
  BY LengthsAssumption DEF PutCall
<1>2. TypeOK'
  <2>1. /\ UNCHANGED <<index_head, index_free, data_head, data_free, last_seq, index_ar, data_ar>>
        /\ UNCHANGED <<seq_num, next_index>>
    BY <1>1, Zenon DEF shm, handles
  <2>2. put_pc' \in {"idle", "head", "free", "index", "advance"}
    BY <1>1, Zenon
  <2> QED
    BY <1>1, <2>1, <2>2 DEF RingInv, TypeOK
<1>3. StartIncreasing' /\ FramesIntact' /\ HandlesInStep' /\ KeepsAllThatFits'
  BY <1>1, ZenonT(60) DEF RingInv, shm, handles, StartIncreasing, FramesIntact, HandlesInStep,
     KeepsAllThatFits, published, used, oldest
<1>4. IndexConsistent'
  BY <1>1, Zenon DEF RingInv, shm, IndexConsistent, published, used, oldest, Slot, Entry
<1>5. PutLocals'
  BY <1>1 DEF PutLocals
<1>6. DroppedForRoom'
  <2> SUFFICES ASSUME oldest > 1
               PROVE  \/ published + 2 - (oldest - 1) > IndexCnt
                      \/ start[published + 1] + len - start[oldest - 1] > DataSize
    BY <1>1, Zenon DEF DroppedForRoom, shm, published, used, oldest
  <2>1. \/ published + 1 - (oldest - 1) > IndexCnt
        \/ start[published + 1] - start[oldest - 1] > DataSize
    BY <1>1, Zenon DEF RingInv, KeepsAllThatFits
  <2>2. /\ published \in Nat
        /\ oldest \in 1 .. published + 1
        /\ \A s \in 1 .. published + 1 : start[s] \in Nat
    BY Counts, Zenon DEF RingInv
  <2> QED
    BY <1>1, <2>1, <2>2
<1> QED
  BY <1>2, <1>3, <1>4, <1>5, <1>6, Zenon DEF RingInv

\* When the index is full its head is the oldest frame's slot, which is freed.
LEMMA PutHeadStep ==
  ASSUME RingInv, PutHead
  PROVE  RingInv'
<1> USE IndexCntAssumption, DataSizeAssumption
<1>1. /\ put_pc = "head" /\ put_pc' = "free"
      /\ put_idx' = index_head
      /\ put_i' = (index_head + index_free') % IndexCnt
      /\ UNCHANGED <<handles, put_len, reply, start, index_head>>
  BY Zenon DEF PutHead, ClearHead, free_index, shm
<1>2. /\ published \in Nat
      /\ used \in 0 .. IndexCnt
      /\ oldest \in 1 .. published + 1
      /\ oldest = published - used + 1
      /\ \A s \in 1 .. published + 1 : start[s] \in Nat
      /\ index_head = Slot(published + 1)
  BY Counts, Zenon DEF RingInv, oldest
<1>3. put_len \in 1 .. DataSize /\ put_len \in Lengths
  BY <1>1 DEF RingInv, TypeOK, PutLocals
<1>4. CASE index_free = 0
  <2>1. used = IndexCnt /\ used > 0 /\ published + 1 = oldest + IndexCnt
    BY <1>2, <1>4 DEF used
  <2>2. index_head = Slot(oldest)
    BY <1>2, <2>1, SlotFacts
  <2>3. free_index(Slot(oldest)) /\ UNCHANGED <<index_head, data_head, last_seq, data_ar>>
    BY <1>4, <2>2, Zenon DEF PutHead, ClearHead, free_index
  <2>4. /\ published' = published
        /\ oldest' = oldest + 1
        /\ index_free' \in 1 .. IndexCnt
        /\ data_free' \in 0 .. DataSize
        /\ index_ar' \in IndexArray
        /\ IndexConsistent'
        /\ FramesIntact'
    BY <1>1, <2>1, <2>3, FreeOldest, Zenon DEF RingInv
  <2>5. put_i' \in 0 .. IndexCnt - 1
    <3>1. put_i' = (index_head + 1) % IndexCnt
      BY <1>1, <1>4, <2>3 DEF free_index
    <3>2. index_head + 1 \in Nat
      BY DEF RingInv, TypeOK
    <3> QED
      BY <3>1, <3>2, ModDef, Zenon
  <2>6. TypeOK'
    <3>1. UNCHANGED <<seq_num, next_index, put_len, start>>
      BY <1>1, Zenon DEF handles
    <3>2. put_pc' = "free" /\ put_idx' = index_head
      BY <1>1, Zenon
    <3> QED
      BY <2>3, <2>4, <2>5, <3>1, <3>2 DEF RingInv, TypeOK
  <2>7. StartIncreasing' /\ HandlesInStep' /\ KeepsAllThatFits'
    BY <1>1, <2>4, Zenon DEF RingInv, handles, StartIncreasing, HandlesInStep, KeepsAllThatFits
  <2>8. PutLocals'
    BY <1>1, <1>3, <2>4 DEF PutLocals, oldest_index_i
  <2>9. DroppedForRoom'
    <3>1. published' + 2 - (oldest' - 1) > IndexCnt
      BY <1>2, <2>1, <2>4
    <3> QED
      BY <3>1, Zenon DEF DroppedForRoom
  <2> QED
    BY <2>4, <2>6, <2>7, <2>8, <2>9, Zenon DEF RingInv
<1>5. CASE index_free # 0
  <2>1. UNCHANGED shm
    BY <1>5, Zenon DEF PutHead, ClearHead
  <2>2. published' = published /\ used' = used /\ oldest' = oldest
    BY <1>1, <2>1, Zenon DEF shm, published, used, oldest
  <2>3. put_i' \in 0 .. IndexCnt - 1
    <3>1. index_head + index_free' \in Nat
      <4>1. index_free' = index_free
        BY <2>1, Zenon DEF shm
      <4> QED
        BY <4>1 DEF RingInv, TypeOK
    <3> QED
      BY <1>1, <3>1, ModDef, Zenon
  <2>4. TypeOK'
    BY <1>1, <2>1, <2>3, Zenon DEF RingInv, TypeOK, handles, shm
  <2>5. StartIncreasing' /\ FramesIntact' /\ HandlesInStep' /\ KeepsAllThatFits' /\ DroppedForRoom'
    BY <1>1, <2>1, <2>2, ZenonT(60) DEF RingInv, shm, handles, StartIncreasing, FramesIntact,
       HandlesInStep, KeepsAllThatFits, DroppedForRoom
  <2>6. IndexConsistent'
    BY <1>1, <2>1, <2>2, Zenon DEF RingInv, shm, IndexConsistent, Slot, Entry
  <2>7. PutLocals'
    BY <1>1, <1>3, <1>5, <2>1 DEF RingInv, TypeOK, PutLocals, oldest_index_i, shm
  <2> QED
    BY <2>4, <2>5, <2>6, <2>7, Zenon DEF RingInv
<1> QED
  BY <1>4, <1>5, Zenon

\* One turn of the loop frees the oldest frame, because there is not yet room.
LEMMA PutFreeStep ==
  ASSUME RingInv, PutFree
  PROVE  RingInv'
<1> USE IndexCntAssumption, DataSizeAssumption
<1>1. /\ put_pc = "free" /\ put_pc' = "free"
      /\ data_free < put_len
      /\ put_i' = (put_i + 1) % IndexCnt
      /\ UNCHANGED <<handles, put_len, put_idx, start>>
      /\ free_index(put_i)
      /\ UNCHANGED <<index_head, data_head, last_seq, data_ar>>
  BY Zenon DEF PutFree, free_index
<1>2. /\ published \in Nat
      /\ used \in 0 .. IndexCnt
      /\ oldest \in 1 .. published + 1
      /\ oldest = published - used + 1
      /\ \A s \in 1 .. published + 1 : start[s] \in Nat
      /\ oldest_index_i = Slot(oldest)
  BY Counts, Zenon DEF RingInv, oldest
<1>3. put_len \in 1 .. DataSize /\ put_len \in Lengths /\ put_i = Slot(oldest) /\ put_idx = index_head
  BY <1>1, <1>2 DEF RingInv, TypeOK, PutLocals
<1>4. data_free = DataSize - (start[published + 1] - start[oldest])
  BY Zenon DEF RingInv, IndexConsistent
<1>5. used > 0
  <2>1. ASSUME used = 0 PROVE FALSE
    <3>1. oldest = published + 1
      BY <1>2, <2>1
    <3>2. data_free = DataSize
      BY <1>2, <1>4, <3>1
    <3> QED
      BY <1>1, <1>3, <3>2
  <2> QED
    BY <1>2, <2>1
<1>6. /\ published' = published
      /\ oldest' = oldest + 1
      /\ index_free' \in 1 .. IndexCnt
      /\ data_free' \in 0 .. DataSize
      /\ index_ar' \in IndexArray
      /\ IndexConsistent'
      /\ FramesIntact'
  BY <1>1, <1>3, <1>5, FreeOldest, Zenon DEF RingInv
<1>7. put_i' = Slot(oldest + 1) /\ put_i' \in 0 .. IndexCnt - 1
  <2>1. oldest \in Nat \ {0} /\ oldest + 1 \in Nat \ {0}
    BY <1>2
  <2> QED
    BY <1>1, <1>3, <2>1, SlotFacts, Zenon
<1>8. TypeOK'
  BY <1>1, <1>6, <1>7 DEF RingInv, TypeOK, handles
<1>9. StartIncreasing' /\ HandlesInStep' /\ KeepsAllThatFits'
  BY <1>1, <1>6, Zenon DEF RingInv, handles, StartIncreasing, HandlesInStep, KeepsAllThatFits
<1>10. PutLocals'
  <2>1. (TypeOK /\ StartIncreasing /\ IndexConsistent => oldest_index_i = Slot(oldest))'
    BY Counts, PTL
  <2>2. oldest_index_i' = Slot(oldest + 1)
    BY <1>6, <1>8, <1>9, <2>1, Zenon DEF Slot
  <2> QED
    BY <1>1, <1>3, <1>6, <1>7, <2>2 DEF PutLocals
<1>11. DroppedForRoom'
  <2>1. start[published + 1] + put_len - start[oldest] > DataSize
    BY <1>1, <1>2, <1>3, <1>4
  <2> QED
    BY <1>1, <1>2, <1>6, <2>1 DEF DroppedForRoom
<1> QED
  BY <1>6, <1>8, <1>9, <1>10, <1>11, Zenon DEF RingInv

\* What each byte of the data array holds after the copy, whichever of the two
\* branches of ach_put() made it.
LEMMA CopyInAt ==
  ASSUME TypeOK, NEW len \in 1 .. DataSize, NEW buf \in [0 .. len - 1 -> Nat \X Nat],
         CopyIn(buf, len)
  PROVE  /\ data_ar' \in DataArray
         /\ \A a \in 0 .. DataSize - 1 :
              data_ar'[a] = IF a >= data_head /\ a < data_head + len THEN buf[a - data_head]
                            ELSE IF a + DataSize < data_head + len
                            THEN buf[a + DataSize - data_head]
                            ELSE data_ar[a]
<1> USE DataSizeAssumption
<1>1. data_head \in 0 .. DataSize - 1 /\ data_ar \in [0 .. DataSize - 1 -> Nat \X Nat]
  BY Zenon DEF TypeOK, DataArray
<1>2. CASE DataSize - data_head >= len
  <2>1. data_ar' = [a \in 0 .. DataSize - 1 |->
                     IF a \in data_head .. data_head + len - 1
                     THEN buf[0 + (a - data_head)] ELSE data_ar[a]]
    BY <1>1, <1>2, Zenon DEF CopyIn, memcpy
  <2>2. data_ar' \in [0 .. DataSize - 1 -> Nat \X Nat]
    <3>1. ASSUME NEW a \in data_head .. data_head + len - 1
          PROVE  buf[0 + (a - data_head)] \in Nat \X Nat
      <4>1. 0 + (a - data_head) \in 0 .. len - 1
        BY <1>1
      <4> QED
        BY <4>1, Zenon
    <3> QED
      BY <1>1, <2>1, <3>1, SMTT(30)
  <2>3. ASSUME NEW a \in 0 .. DataSize - 1
        PROVE  data_ar'[a] = IF a >= data_head /\ a < data_head + len THEN buf[a - data_head]
                             ELSE data_ar[a]
    BY <1>1, <2>1, SMTT(30)
  <2>4. ASSUME NEW a \in 0 .. DataSize - 1 PROVE ~ (a + DataSize < data_head + len)
    BY <1>1, <1>2
  <2> QED
    BY <2>2, <2>3, <2>4, Zenon DEF DataArray
<1>3. CASE ~ (DataSize - data_head >= len)
  <2> DEFINE end_cnt == DataSize - data_head
             mid == [a \in 0 .. DataSize - 1 |->
                      IF a \in data_head .. data_head + end_cnt - 1
                      THEN buf[0 + (a - data_head)] ELSE data_ar[a]]
  <2>1. mid = memcpy(data_ar, data_head, buf, 0, end_cnt) /\ DOMAIN mid = 0 .. DataSize - 1
    BY <1>1, Zenon DEF memcpy
  <2>2. data_ar' = memcpy(mid, 0, buf, end_cnt, len - end_cnt)
    BY <1>3, <2>1, Zenon DEF CopyIn
  <2>3. data_ar' = [a \in 0 .. DataSize - 1 |->
                     IF a \in 0 .. 0 + (len - end_cnt) - 1
                     THEN buf[end_cnt + (a - 0)] ELSE mid[a]]
    BY <2>1, <2>2, Zenon DEF memcpy
  <2>4. end_cnt \in 1 .. len - 1
    BY <1>1, <1>3
  <2>5. ASSUME NEW a \in 0 .. DataSize - 1
        PROVE  /\ data_ar'[a] = IF a >= data_head THEN buf[a - data_head]
                                ELSE IF a + DataSize < data_head + len
                                THEN buf[a + DataSize - data_head]
                                ELSE data_ar[a]
               /\ data_ar'[a] \in Nat \X Nat
    <3>1. CASE a >= data_head
      <4>1. a \notin 0 .. 0 + (len - end_cnt) - 1 /\ a \in data_head .. data_head + end_cnt - 1
        BY <1>1, <2>4, <3>1
      <4>2. a - data_head \in 0 .. len - 1 /\ 0 + (a - data_head) = a - data_head
        BY <1>1, <1>3, <3>1
      <4> QED
        BY <2>3, <3>1, <4>1, <4>2, Zenon
    <3>2. CASE a + DataSize < data_head + len
      <4>1. a \in 0 .. 0 + (len - end_cnt) - 1 /\ ~ (a >= data_head)
        BY <1>1, <2>4, <3>2
      <4>2. a + DataSize - data_head \in 0 .. len - 1 /\ end_cnt + (a - 0) = a + DataSize - data_head
        BY <1>1, <1>3, <3>2
      <4>3. data_ar'[a] = buf[end_cnt + (a - 0)]
        BY <2>3, <4>1, Zenon
      <4> HIDE DEF end_cnt
      <4> QED
        BY <3>2, <4>1, <4>2, <4>3, Zenon
    <3>3. CASE ~ (a >= data_head) /\ ~ (a + DataSize < data_head + len)
      <4>1. a \notin 0 .. 0 + (len - end_cnt) - 1 /\ a \notin data_head .. data_head + end_cnt - 1
        BY <1>1, <2>4, <3>3
      <4> QED
        BY <1>1, <2>3, <3>3, <4>1, SMTT(30)
    <3> QED
      BY <3>1, <3>2, <3>3, Zenon
  <2>6. \A a \in 0 .. DataSize - 1 : a < data_head + len
    BY <1>1, <1>3
  <2>7. data_ar' \in [0 .. DataSize - 1 -> Nat \X Nat]
    BY <2>3, <2>5, Zenon
  <2> QED
    BY <2>5, <2>6, <2>7, Zenon DEF DataArray
<1> QED
  BY <1>2, <1>3, Zenon

\* The place k bytes on from data_head.
Ahead(k) == IF data_head + k < DataSize THEN data_head + k ELSE data_head + k - DataSize

\* After the copy the place k bytes on from the old data_head holds byte k.
LEMMA CopyInNew ==
  ASSUME TypeOK, NEW len \in 1 .. DataSize, NEW buf \in [0 .. len - 1 -> Nat \X Nat],
         CopyIn(buf, len), NEW k \in 0 .. len - 1
  PROVE  data_ar'[Ahead(k)] = buf[k]
<1> USE DataSizeAssumption
<1>1. data_head \in 0 .. DataSize - 1 /\ k < DataSize
  BY DEF TypeOK
<1> DEFINE a == Ahead(k)
<1>2. CASE data_head + k < DataSize
  <2>1. a \in 0 .. DataSize - 1 /\ a >= data_head /\ a < data_head + len /\ a - data_head = k
    BY <1>1, <1>2 DEF Ahead
  <2> HIDE DEF a
  <2>2. data_ar'[a] = buf[k]
    BY <2>1, CopyInAt, Zenon
  <2> QED
    BY <2>2, Zenon DEF a
<1>3. CASE ~ (data_head + k < DataSize)
  <2>1. /\ a \in 0 .. DataSize - 1 /\ ~ (a >= data_head)
        /\ a + DataSize < data_head + len /\ a + DataSize - data_head = k
    BY <1>1, <1>3 DEF Ahead
  <2> HIDE DEF a
  <2>2. data_ar'[a] = buf[k]
    BY <2>1, CopyInAt, Zenon
  <2> QED
    BY <2>2, Zenon DEF a
<1> QED
  BY <1>2, <1>3, Zenon

\* A place that is not less than len bytes on from data_head is left alone.
LEMMA CopyInOld ==
  ASSUME TypeOK, NEW len \in 1 .. DataSize, NEW buf \in [0 .. len - 1 -> Nat \X Nat],
         CopyIn(buf, len), NEW a \in 0 .. DataSize - 1,
         \A k \in 0 .. len - 1 : a # Ahead(k)
  PROVE  data_ar'[a] = data_ar[a]
<1> USE DataSizeAssumption
<1>1. data_head \in 0 .. DataSize - 1
  BY Zenon DEF TypeOK
<1>2. ~ (a >= data_head /\ a < data_head + len)
  <2> SUFFICES ASSUME a >= data_head, a < data_head + len PROVE FALSE
    BY Zenon
  <2>1. a - data_head \in 0 .. len - 1 /\ Ahead(a - data_head) = a
    BY <1>1 DEF Ahead
  <2> QED
    BY <2>1, Zenon
<1>3. ~ (a + DataSize < data_head + len)
  <2> SUFFICES ASSUME a + DataSize < data_head + len PROVE FALSE
    BY Zenon
  <2>1. a + DataSize - data_head \in 0 .. len - 1 /\ Ahead(a + DataSize - data_head) = a
    BY <1>1 DEF Ahead
  <2> QED
    BY <2>1, Zenon
<1> QED
  BY <1>2, <1>3, CopyInAt, Zenon

\* The copy puts the new frame at stream position x and leaves alone every
\* position of the last DataSize - len bytes before it.
LEMMA CopyInStream ==
  ASSUME TypeOK, NEW len \in 1 .. DataSize, NEW buf \in [0 .. len - 1 -> Nat \X Nat],
         CopyIn(buf, len), NEW x \in Nat, data_head = x % DataSize
  PROVE  /\ \A k \in 0 .. len - 1 : data_ar'[(x + k) % DataSize] = buf[k]
         /\ \A y \in Nat : y < x /\ x + len <= y + DataSize =>
              data_ar'[y % DataSize] = data_ar[y % DataSize]
<1> USE DataSizeAssumption
<1>1. ASSUME NEW k \in 0 .. len - 1
      PROVE  (x + k) % DataSize = Ahead(k)
  <2>1. k \in 0 .. DataSize - 1
    OBVIOUS
  <2>2. (x + k) % DataSize = IF (x % DataSize) + k < DataSize THEN (x % DataSize) + k
                             ELSE (x % DataSize) + k - DataSize
    BY <2>1, ModShift, Zenon
  <2> QED
    BY <2>2, Zenon DEF Ahead
<1>2. ASSUME NEW k \in 0 .. len - 1
      PROVE  data_ar'[(x + k) % DataSize] = buf[k]
  BY <1>1, CopyInNew, ZenonT(60)
<1>3. ASSUME NEW y \in Nat, y < x, x + len <= y + DataSize
      PROVE  data_ar'[y % DataSize] = data_ar[y % DataSize]
  <2>1. y % DataSize \in 0 .. DataSize - 1
    BY ModDef, Zenon
  <2>2. ASSUME NEW k \in 0 .. len - 1 PROVE y % DataSize # Ahead(k)
    <3>1. x + k \in Nat /\ y < x + k /\ x + k < y + DataSize
      BY <1>3
    <3>2. y % DataSize # (x + k) % DataSize
      BY <3>1, ModDistinct, Zenon
    <3> QED
      BY <1>1, <3>2, Zenon
  <2> QED
    BY <2>1, <2>2, CopyInOld, Zenon
<1> QED
  BY <1>2, <1>3, Zenon

\* A byte a + k of the retained stream, between o and x, is less than a lap
\* behind the end of the l bytes that are copied to x.
LEMMA RoomArith ==
  ASSUME NEW n \in Nat \ {0}, NEW x \in Nat, NEW l \in 1 .. n, NEW o \in Nat, NEW a \in Nat,
         NEW b \in Nat, NEW k \in Nat,
         n - (x - o) >= l, o <= a, a + k < b, b <= x
  PROVE  a + k \in Nat /\ a + k < x /\ x + l <= (a + k) + n
OBVIOUS

\* The copy goes into bytes that no retained frame owns.
LEMMA PutCopyStep ==
  ASSUME RingInv, PutCopy
  PROVE  RingInv'
<1> USE IndexCntAssumption, DataSizeAssumption
<1> DEFINE x == start[published + 1]
           buf == Buffer(last_seq + 1, put_len)
<1>1. /\ put_pc = "free" /\ put_pc' = "index"
      /\ data_free >= put_len
      /\ UNCHANGED <<put_len, put_idx, put_i, start>>
      /\ UNCHANGED <<seq_num, next_index>>
      /\ UNCHANGED <<index_head, index_free, data_head, data_free, last_seq, index_ar>>
      /\ CopyIn(buf, put_len)
  BY Zenon DEF PutCopy, CopyIn, handles
<1>2. /\ published \in Nat
      /\ Len(start) = published + 1
      /\ oldest \in 1 .. published + 1
      /\ \A s \in 1 .. published + 1 : start[s] \in Nat
  BY Counts, Zenon DEF RingInv
<1>3. /\ TypeOK
      /\ put_len \in 1 .. DataSize /\ put_len \in Lengths
      /\ index_free > 0 /\ put_idx = index_head
  BY <1>1, SMTT(30) DEF RingInv, TypeOK, PutLocals
<1>4. /\ last_seq = published
      /\ data_head = x % DataSize
      /\ data_free = DataSize - (x - start[oldest])
  BY <1>1, Zenon DEF RingInv, IndexConsistent
<1>5. x \in Nat /\ buf \in [0 .. put_len - 1 -> Nat \X Nat]
  BY <1>2, <1>4, SMTT(30) DEF Buffer, Byte
<1>6. published' = published /\ used' = used /\ oldest' = oldest
  BY <1>1, Zenon DEF published, used, oldest
<1> HIDE DEF x, buf
<1>7. /\ data_ar' \in DataArray
      /\ \A k \in 0 .. put_len - 1 : data_ar'[(x + k) % DataSize] = buf[k]
      /\ \A y \in Nat : y < x /\ x + put_len <= y + DataSize =>
           data_ar'[y % DataSize] = data_ar[y % DataSize]
  BY <1>1, <1>3, <1>4, <1>5, CopyInAt, CopyInStream, ZenonT(60)
<1>8. TypeOK'
  BY <1>1, <1>3, <1>7, Zenon DEF TypeOK
<1>9. StartIncreasing' /\ HandlesInStep' /\ KeepsAllThatFits' /\ DroppedForRoom'
  BY <1>1, <1>6, Zenon DEF RingInv, StartIncreasing, HandlesInStep, KeepsAllThatFits, DroppedForRoom
<1>10. IndexConsistent'
  BY <1>1, <1>6, Zenon DEF RingInv, IndexConsistent, Slot, Entry
<1>11. PutLocals'
  <2>1. ASSUME NEW k \in 0 .. put_len - 1 PROVE buf[k] = Byte(published + 1, k)
    BY <1>4, Zenon DEF buf, Buffer
  <2>2. \A k \in 0 .. put_len - 1 : data_ar'[(start[published + 1] + k) % DataSize] = Byte(published + 1, k)
    BY <1>7, <2>1, Zenon DEF x
  <2>3. /\ put_len' > 0 /\ put_len' \in Lengths
        /\ index_free' > 0 /\ put_idx' = index_head'
        /\ data_free' >= put_len'
    BY <1>1, <1>3
  <2>4. \A k \in 0 .. put_len' - 1 :
          data_ar'[(start'[published' + 1] + k) % DataSize] = Byte(published' + 1, k)
    BY <1>1, <1>6, <2>2, Zenon
  <2> QED
    BY <1>1, <2>3, <2>4, Zenon DEF PutLocals, Byte
<1>12. FramesIntact'
  <2> SUFFICES ASSUME NEW s \in oldest .. published, NEW k \in 0 .. start[s + 1] - start[s] - 1
               PROVE  data_ar'[(start[s] + k) % DataSize] = Byte(s, k)
    BY <1>1, <1>6, Zenon DEF FramesIntact, Byte
  <2>1. /\ s \in 1 .. Len(start) /\ s + 1 \in 1 .. Len(start) /\ oldest \in 1 .. Len(start)
        /\ published + 1 \in 1 .. Len(start)
    BY <1>2
  <2>2. start[oldest] <= start[s] /\ start[s + 1] <= x
    BY <1>2, <2>1, SMTT(30) DEF RingInv, StartIncreasing, x
  <2>3. /\ start[s] \in Nat /\ start[s + 1] \in Nat /\ start[oldest] \in Nat
    BY <1>2, <2>1, Zenon
  <2>4. start[s] + k \in Nat /\ start[s] + k < x /\ x + put_len <= (start[s] + k) + DataSize
    <3>1. DataSize - (x - start[oldest]) >= put_len
      BY <1>1, <1>4, Zenon
    <3>2. k \in Nat /\ start[s] + k < start[s + 1]
      BY <2>3
    <3> QED
      BY <1>3, <1>5, <2>2, <2>3, <3>1, <3>2, RoomArith, Zenon
  <2>5. data_ar'[(start[s] + k) % DataSize] = data_ar[(start[s] + k) % DataSize]
    BY <1>7, <2>4, Zenon
  <2>6. data_ar[(start[s] + k) % DataSize] = Byte(s, k)
    BY Zenon DEF RingInv, FramesIntact
  <2> QED
    BY <2>5, <2>6, SMTT(30)
<1> QED
  BY <1>8, <1>9, <1>10, <1>11, <1>12, Zenon DEF RingInv

\* The new entry goes into a cleared slot, the one after the newest frame's.
LEMMA PutIndexStep ==
  ASSUME RingInv, PutIndex
  PROVE  RingInv'
<1> USE IndexCntAssumption, DataSizeAssumption
<1> DEFINE entry == [size |-> put_len, offset |-> data_head, seq_num |-> last_seq + 1]
<1>1. /\ put_pc = "index" /\ put_pc' = "advance"
      /\ UNCHANGED <<put_len, put_idx, put_i, start>>
      /\ UNCHANGED <<seq_num, next_index>>
      /\ UNCHANGED <<index_head, index_free, data_head, data_free, data_ar>>
      /\ last_seq' = last_seq + 1
      /\ index_ar' = [index_ar EXCEPT ![put_idx] = entry]
  BY Zenon DEF PutIndex, WriteIndex, handles
<1>2. /\ published \in Nat
      /\ oldest \in 1 .. published + 1
      /\ published + index_free = oldest + IndexCnt - 1
      /\ index_head = Slot(published + 1)
  BY Counts, ZenonT(60) DEF RingInv
<1>3. /\ put_len \in 1 .. DataSize /\ put_len \in Lengths
      /\ index_free \in Nat
      /\ index_free > 0 /\ put_idx = Slot(published + 1)
      /\ data_head \in 0 .. DataSize - 1
      /\ last_seq = published
  BY <1>1, <1>2, SMTT(30) DEF RingInv, TypeOK, PutLocals, IndexConsistent
<1>4. published' = published /\ used' = used /\ oldest' = oldest
  BY <1>1, Zenon DEF published, used, oldest
<1>5. index_ar \in IndexArray /\ Slot(published + 1) \in 0 .. IndexCnt - 1
  BY <1>2, SlotFacts, Zenon DEF RingInv, TypeOK
<1>6. entry \in [size : 0 .. DataSize, offset : 0 .. DataSize - 1, seq_num : Nat]
  BY <1>2, <1>3
<1> HIDE DEF entry
<1>7. index_ar' \in IndexArray
  BY <1>1, <1>3, <1>5, <1>6, Zenon DEF IndexArray
<1>8. index_ar'[Slot(published + 1)] = entry
  BY <1>1, <1>3, <1>5, Zenon DEF IndexArray
<1>9. ASSUME NEW s \in oldest .. oldest + IndexCnt - 1, s # published + 1
      PROVE  index_ar'[Slot(s)] = index_ar[Slot(s)]
  <2>1. s \in Nat \ {0} /\ published + 1 \in Nat \ {0}
    BY <1>2
  <2>2. Slot(s) # Slot(published + 1)
    <3>1. CASE s < published + 1
      <4>1. published + 1 < s + IndexCnt
        BY <1>2, <1>3
      <4> QED
        BY <2>1, <3>1, <4>1, SlotDistinct, Zenon
    <3>2. CASE s > published + 1
      <4>1. s < (published + 1) + IndexCnt
        BY <1>2, <1>3
      <4> QED
        BY <2>1, <3>2, <4>1, SlotDistinct, Zenon
    <3> QED
      BY <1>9, <2>1, <3>1, <3>2
  <2>3. Slot(s) \in 0 .. IndexCnt - 1
    BY <2>1, SlotFacts, Zenon
  <2> QED
    BY <1>1, <1>3, <1>5, <2>2, <2>3, Zenon DEF IndexArray
<1>10. TypeOK'
  <2>1. last_seq' \in Nat /\ put_pc' \in {"idle", "head", "free", "index", "advance"}
    BY <1>1, <1>2, <1>3, SMTT(30)
  <2> QED
    BY <1>1, <1>7, <2>1, Zenon DEF RingInv, TypeOK
<1>11. StartIncreasing' /\ HandlesInStep' /\ KeepsAllThatFits' /\ DroppedForRoom' /\ FramesIntact'
  BY <1>1, <1>4, Zenon DEF RingInv, StartIncreasing, HandlesInStep, KeepsAllThatFits, DroppedForRoom,
     FramesIntact
<1>12. PutLocals'
  BY <1>1, <1>4, SMTT(30) DEF RingInv, PutLocals
<1>13. IndexConsistent'
  <2>1. /\ last_seq' = published' + 1
        /\ index_head' = published' % IndexCnt
        /\ data_head' = start'[published' + 1] % DataSize
        /\ used' <= published'
        /\ data_free' = DataSize - (start'[published' + 1] - start'[oldest'])
    BY <1>1, <1>3, <1>4, Zenon DEF RingInv, IndexConsistent
  <2>2. ASSUME NEW s \in oldest .. published PROVE index_ar'[Slot(s)] = Entry(s)
    <3>1. s \in oldest .. oldest + IndexCnt - 1 /\ s # published + 1
      BY <1>2, <1>3
    <3>2. index_ar[Slot(s)] = Entry(s)
      BY Zenon DEF RingInv, IndexConsistent
    <3> QED
      BY <1>9, <3>1, <3>2, Zenon
  <2>3. ASSUME NEW s \in published + 1 .. oldest + IndexCnt - 1
        PROVE  index_ar'[Slot(s)] =
                 IF s = last_seq' THEN [size |-> put_len', offset |-> data_head', seq_num |-> last_seq']
                 ELSE ZeroIndex
    <3>1. CASE s = published + 1
      BY <1>1, <1>3, <1>8, <3>1, Zenon DEF entry
    <3>2. CASE s # published + 1
      <4>1. s \in oldest .. oldest + IndexCnt - 1
        BY <1>2
      <4>2. index_ar[Slot(s)] = ZeroIndex
        BY <1>1, Zenon DEF RingInv, IndexConsistent
      <4> QED
        BY <1>1, <1>3, <1>9, <3>2, <4>1, <4>2, Zenon
    <3> QED
      BY <3>1, <3>2, Zenon
  <2> QED
    BY <1>1, <1>4, <2>1, <2>2, <2>3, SMTT(30) DEF IndexConsistent, Slot, Entry
<1> QED
  BY <1>10, <1>11, <1>12, <1>13, Zenon DEF RingInv

\* Moving the heads past the new frame makes it one of the retained frames.
LEMMA PutAdvanceStep ==
  ASSUME RingInv, PutAdvance
  PROVE  RingInv'
<1> USE IndexCntAssumption, DataSizeAssumption
<1> DEFINE x == start[published + 1]
<1>1. /\ put_pc = "advance" /\ put_pc' = "idle"
      /\ put_len' = 0 /\ put_idx' = 0 /\ put_i' = 0
      /\ UNCHANGED <<seq_num, next_index>>
      /\ UNCHANGED <<last_seq, index_ar, data_ar>>
      /\ start' = Append(start, start[Len(start)] + put_len)
      /\ data_free' = data_free - put_len
      /\ index_free' = index_free - 1
  BY Zenon DEF PutAdvance, AdvanceHeads, handles
<1>0. /\ data_head' = (data_head + put_len) % DataSize
      /\ index_head' = (index_head + 1) % IndexCnt
  BY Zenon DEF PutAdvance, AdvanceHeads
<1>2. /\ published \in Nat
      /\ Len(start) = published + 1
      /\ used \in 0 .. IndexCnt
      /\ oldest \in 1 .. published + 1
      /\ published + index_free = oldest + IndexCnt - 1
      /\ \A s \in 1 .. published + 1 : start[s] \in Nat
  BY Counts, Zenon DEF RingInv
<1>3. /\ put_len \in 1 .. DataSize
      /\ index_free \in 1 .. IndexCnt
      /\ data_free \in 0 .. DataSize
      /\ data_free >= put_len
      /\ start \in Seq(Nat)
      /\ \A k \in 0 .. put_len - 1 :
           data_ar[(start[published + 1] + k) % DataSize] = Byte(published + 1, k)
  BY <1>1 DEF RingInv, TypeOK, PutLocals
<1>4. last_seq = published + 1 /\ data_free = DataSize - (x - start[oldest]) /\ used <= published
  BY <1>1, Zenon DEF RingInv, IndexConsistent
<1>5. x \in Nat
  BY <1>2
<1>6. /\ start' \in Seq(Nat)
      /\ Len(start') = published + 2
      /\ \A s \in 1 .. published + 1 : start'[s] = start[s]
      /\ start'[published + 2] = x + put_len
  BY <1>1, <1>2, <1>3, <1>5
<1>7. published' = published + 1 /\ used' = used + 1 /\ oldest' = oldest
  <2>1. published' = published + 1
    BY <1>2, <1>6 DEF published
  <2>2. used' = used + 1
    BY <1>1, <1>3 DEF used
  <2> QED
    BY <1>2, <2>1, <2>2 DEF oldest
<1> HIDE DEF x
<1>8. data_head' = (x + put_len) % DataSize /\ data_head' \in 0 .. DataSize - 1
  <2>1. data_head = x % DataSize
    BY Zenon DEF RingInv, IndexConsistent, x
  <2>2. ((x % DataSize) + put_len) % DataSize = (x + put_len) % DataSize
    <3>1. put_len \in Nat
      BY <1>3
    <3> QED
      BY <1>5, <3>1, ModAdd, Zenon
  <2>3. x + put_len \in Nat
    BY <1>3, <1>5
  <2> QED
    BY <1>0, <2>1, <2>2, <2>3, ModDef, SMTT(30)
<1>9. index_head' = (published + 1) % IndexCnt /\ index_head' \in 0 .. IndexCnt - 1
  <2>1. index_head = published % IndexCnt
    BY Zenon DEF RingInv, IndexConsistent
  <2>2. ((published % IndexCnt) + 1) % IndexCnt = (published + 1) % IndexCnt
    BY <1>2, ModAdd, Zenon
  <2>3. published + 1 \in Nat
    BY <1>2
  <2> QED
    BY <1>0, <2>1, <2>2, <2>3, ModDef, SMTT(30)
<1>10. TypeOK'
  <2>1. data_free' \in 0 .. DataSize /\ index_free' \in 0 .. IndexCnt
    BY <1>1, <1>3
  <2>2. /\ put_len' \in 0 .. DataSize /\ put_idx' \in 0 .. IndexCnt - 1
        /\ put_i' \in 0 .. IndexCnt - 1
        /\ put_pc' \in {"idle", "head", "free", "index", "advance"}
    BY <1>1
  <2> QED
    BY <1>1, <1>6, <1>8, <1>9, <2>1, <2>2, SMTT(30) DEF RingInv, TypeOK
<1>11. StartIncreasing'
  <2> SUFFICES ASSUME NEW s \in 1 .. published + 2, NEW t \in 1 .. published + 2, s < t
               PROVE  start'[s] < start'[t]
    BY <1>2, <1>6 DEF StartIncreasing
  <2>1. CASE t \in 1 .. published + 1
    <3>1. s \in 1 .. published + 1
      BY <1>2, <2>1
    <3>2. start[s] < start[t]
      BY <1>2, <2>1, <3>1, Zenon DEF RingInv, StartIncreasing
    <3> QED
      BY <1>6, <2>1, <3>1, <3>2, Zenon
  <2>2. CASE t = published + 2
    <3>1. s \in 1 .. published + 1 /\ published + 1 \in 1 .. Len(start) /\ s \in 1 .. Len(start)
      BY <1>2, <2>2
    <3>2. start[s] <= x
      BY <1>2, <3>1 DEF RingInv, StartIncreasing, x
    <3>3. start'[s] = start[s] /\ start[s] \in Nat
      BY <1>2, <1>6, <3>1, SMTT(30)
    <3> QED
      BY <1>3, <1>5, <1>6, <2>2, <3>2, <3>3
  <2> QED
    BY <1>2, <2>1, <2>2
<1>12. IndexConsistent'
  <2>1. /\ last_seq' = published'
        /\ index_head' = published' % IndexCnt
        /\ data_head' = start'[published' + 1] % DataSize
        /\ used' <= published'
    <3>1. published' + 1 = published + 2
      BY <1>2, <1>7
    <3>2. last_seq' = published' /\ used' <= published'
      BY <1>1, <1>2, <1>4, <1>7
    <3> QED
      BY <1>6, <1>7, <1>8, <1>9, <3>1, <3>2, SMTT(30)
  <2>2. data_free' = DataSize - (start'[published' + 1] - start'[oldest'])
    <3>1. start'[oldest'] = start[oldest] /\ start[oldest] \in Nat /\ start'[published' + 1] = x + put_len
      <4>1. published' + 1 = published + 2
        BY <1>2, <1>7
      <4> QED
        BY <1>2, <1>6, <1>7, <4>1, Zenon
    <3>2. data_free' = (DataSize - (x - start[oldest])) - put_len
      BY <1>1, <1>4, Zenon
    <3>3. put_len \in Nat
      BY <1>3
    <3>4. (DataSize - (x - start[oldest])) - put_len = DataSize - ((x + put_len) - start[oldest])
      BY <1>5, <3>1, <3>3
    <3> QED
      BY <3>1, <3>2, <3>4, Zenon
  <2>3. ASSUME NEW s \in oldest .. published + 1 PROVE index_ar'[Slot(s)] = Entry(s)'
    <3>1. CASE s \in oldest .. published
      <4>1. index_ar[Slot(s)] = Entry(s)
        BY <3>1, Zenon DEF RingInv, IndexConsistent
      <4>2. s \in 1 .. published + 1 /\ s + 1 \in 1 .. published + 1
        BY <1>2, <3>1
      <4> QED
        BY <1>1, <1>6, <4>1, <4>2, Zenon DEF Entry
    <3>2. CASE s = published + 1
      <4>1. s \in published + 1 .. oldest + IndexCnt - 1
        BY <1>2, <1>3, <3>2
      <4>2. index_ar[Slot(s)] = [size |-> put_len, offset |-> data_head, seq_num |-> last_seq]
        BY <1>1, <1>4, <3>2, <4>1, SMTT(30) DEF RingInv, IndexConsistent
      <4>3. data_head = x % DataSize
        BY Zenon DEF RingInv, IndexConsistent, x
      <4>4. start'[s + 1] = x + put_len /\ start'[s] = x /\ start'[s + 1] - start'[s] = put_len
        <5>1. s + 1 = published + 2 /\ s \in 1 .. published + 1
          BY <1>2, <3>2
        <5>2. start'[s + 1] = x + put_len /\ start'[s] = x
          BY <1>6, <3>2, <5>1, SMTT(30) DEF x
        <5> QED
          BY <1>3, <1>5, <5>2
      <4> QED
        BY <1>1, <1>4, <3>2, <4>2, <4>3, <4>4, Zenon DEF Entry
    <3> QED
      BY <1>2, <3>1, <3>2, SMTT(30)
  <2>4. ASSUME NEW s \in published + 2 .. oldest + IndexCnt - 1 PROVE index_ar'[Slot(s)] = ZeroIndex
    <3>1. s \in published + 1 .. oldest + IndexCnt - 1 /\ s # last_seq
      BY <1>2, <1>4
    <3> QED
      BY <1>1, <3>1, SMTT(30) DEF RingInv, IndexConsistent
  <2> QED
    <3>1. published' + 1 = published + 2 /\ published' = published + 1
      BY <1>2, <1>7
    <3> QED
      BY <1>1, <1>7, <2>1, <2>2, <2>3, <2>4, <3>1, Zenon DEF IndexConsistent, Slot
<1>13. FramesIntact'
  <2> SUFFICES ASSUME NEW s \in oldest .. published + 1,
                      NEW k \in 0 .. start'[s + 1] - start'[s] - 1
               PROVE  data_ar[(start'[s] + k) % DataSize] = Byte(s, k)
    BY <1>1, <1>7, Zenon DEF FramesIntact, Byte
  <2>1. CASE s \in oldest .. published
    <3>1. s \in 1 .. published + 1 /\ s + 1 \in 1 .. published + 1
      BY <1>2, <2>1
    <3>2. start'[s] = start[s] /\ start'[s + 1] = start[s + 1]
      BY <1>6, <3>1, Zenon
    <3> QED
      BY <2>1, <3>2, Zenon DEF RingInv, FramesIntact
  <2>2. CASE s = published + 1
    <3>1. s + 1 = published + 2 /\ s \in 1 .. published + 1
      BY <1>2, <2>2
    <3>2. start'[s + 1] = x + put_len /\ start'[s] = x
      BY <1>6, <2>2, <3>1, Zenon DEF x
    <3>3. start'[s + 1] - start'[s] - 1 = put_len - 1
      BY <1>3, <1>5, <3>2
    <3>4. k \in 0 .. put_len - 1
      BY <3>3, Zenon
    <3> QED
      BY <1>3, <2>2, <3>2, <3>4, SMTT(30) DEF x
  <2> QED
    BY <1>2, <2>1, <2>2
<1>14. PutLocals' /\ DroppedForRoom'
  BY <1>1, <1>2, <1>7 DEF PutLocals, DroppedForRoom
<1>15. KeepsAllThatFits'
  <2>1. put_pc # "idle" /\ DroppedForRoom
    BY <1>1, Zenon DEF RingInv
  <2>2. oldest > 1 => \/ published + 2 - (oldest - 1) > IndexCnt
                      \/ (x + put_len) - start[oldest - 1] > DataSize
    <3>1. oldest > 1 => start[oldest - 1] \in Nat
      BY <1>2
    <3>2. put_len \in Nat
      BY <1>3
    <3> QED
      BY <1>5, <2>1, <3>1, <3>2 DEF DroppedForRoom, x
  <2>3. published' + 1 = published + 2
    BY <1>2, <1>7
  <2>4. oldest > 1 => start'[oldest - 1] = start[oldest - 1]
    BY <1>2, <1>6
  <2>5. oldest' > 1 =>
          \/ published' + 1 - (oldest' - 1) > IndexCnt
          \/ start'[published' + 1] - start'[oldest' - 1] > DataSize
    <3>1. start'[published' + 1] = x + put_len /\ oldest' = oldest
      BY <1>6, <1>7, <2>3, Zenon
    <3>2. published' + 1 - (oldest - 1) = published + 2 - (oldest - 1)
      BY <1>2, <1>7
    <3>3. ASSUME oldest > 1
          PROVE  start'[published' + 1] - start'[oldest - 1] = (x + put_len) - start[oldest - 1]
      <4>1. start'[oldest - 1] = start[oldest - 1]
        BY <2>4, <3>3, SMTT(30)
      <4> QED
        BY <3>1, <4>1, Zenon
    <3> QED
      BY <2>2, <3>1, <3>2, <3>3, Zenon
  <2> QED
    BY <2>5, Zenon DEF KeepsAllThatFits
<1>16. HandlesInStep'
  <2>1. ASSUME NEW h \in Handles PROVE seq_num[h] <= published + 1
    <3>1. seq_num[h] <= published /\ seq_num[h] \in Nat
      BY Zenon DEF RingInv, HandlesInStep, TypeOK
    <3> QED
      BY <1>2, <3>1
  <2> QED
    BY <1>1, <1>7, <2>1, Zenon DEF RingInv, HandlesInStep
<1> QED
  BY <1>10, <1>11, <1>12, <1>13, <1>14, <1>15, <1>16, Zenon DEF RingInv


-----------------------------------------------------------------------------
(* The theorems. *)

\* A new channel with new handles satisfies the invariant.
LEMMA InitInv == Init => RingInv
<1> USE IndexCntAssumption, DataSizeAssumption
<1> SUFFICES ASSUME Init PROVE RingInv
  BY Zenon
<1>1. /\ index_head = 0 /\ index_free = IndexCnt /\ data_head = 0 /\ data_free = DataSize
      /\ last_seq = 0 /\ put_pc = "idle" /\ put_len = 0 /\ put_idx = 0 /\ put_i = 0
      /\ start = <<0>>
      /\ index_ar = [i \in 0 .. IndexCnt - 1 |-> ZeroIndex]
      /\ data_ar = [a \in 0 .. DataSize - 1 |-> ZeroByte]
      /\ seq_num = [h \in Handles |-> 0] /\ next_index = [h \in Handles |-> 1]
  BY Zenon DEF Init, ShmInit
<1>2. published = 0 /\ used = 0 /\ oldest = 1 /\ Len(start) = 1 /\ start[1] = 0
  BY <1>1 DEF published, used, oldest
<1>3. TypeOK
  <2>1. index_ar \in IndexArray
    BY <1>1 DEF IndexArray, ZeroIndex
  <2>2. data_ar \in DataArray
    BY <1>1, Zenon DEF DataArray, ZeroByte, Byte
  <2>3. start \in Seq(Nat)
    BY <1>1
  <2> QED
    BY <1>1, <2>1, <2>2, <2>3 DEF TypeOK
<1>4. StartIncreasing
  BY <1>2 DEF StartIncreasing
<1>5. IndexConsistent
  <2>1. 0 % IndexCnt = 0 /\ 0 % DataSize = 0
    BY ModDef, ModUnique
  <2>2. ASSUME NEW s \in 1 .. IndexCnt PROVE index_ar[Slot(s)] = ZeroIndex
    <3>1. Slot(s) \in 0 .. IndexCnt - 1
      BY SlotFacts
    <3> QED
      BY <1>1, <3>1, Zenon
  <2>3. oldest + IndexCnt - 1 = IndexCnt /\ published + 1 = 1
    BY <1>2
  <2>4. data_free = DataSize - (start[published + 1] - start[oldest]) /\ used <= published
    BY <1>1, <1>2
  <2>5. /\ last_seq = published
        /\ index_head = published % IndexCnt
        /\ data_head = start[published + 1] % DataSize
    BY <1>1, <1>2, <2>1, <2>3, Zenon
  <2>6. \A s \in oldest .. published : index_ar[Slot(s)] = Entry(s)
    BY <1>2
  <2> QED
    BY <1>1, <2>2, <2>3, <2>4, <2>5, <2>6, Zenon DEF IndexConsistent
<1>6. FramesIntact /\ PutLocals /\ KeepsAllThatFits /\ DroppedForRoom
  BY <1>1, <1>2 DEF FramesIntact, PutLocals, KeepsAllThatFits, DroppedForRoom
<1>7. HandlesInStep
  BY <1>1, <1>2 DEF HandlesInStep
<1> QED
  BY <1>3, <1>4, <1>5, <1>6, <1>7, Zenon DEF RingInv

\* A step that leaves the ring, the handles and the locals of ach_put() alone
\* keeps the invariant.
LEMMA IdleStep ==
  ASSUME RingInv, UNCHANGED <<shm, handles, put, start>>
  PROVE  RingInv'
<1>1. /\ UNCHANGED <<index_head, index_free, data_head, data_free, last_seq, index_ar, data_ar>>
      /\ UNCHANGED <<put_pc, put_len, put_idx, put_i, start, seq_num, next_index>>
  BY Zenon DEF shm, put, handles
<1>2. published' = published /\ used' = used /\ oldest' = oldest
  BY <1>1, ZenonT(60) DEF published, used, oldest
<1>3. TypeOK' /\ StartIncreasing' /\ FramesIntact' /\ KeepsAllThatFits' /\ DroppedForRoom' /\ HandlesInStep'
  BY <1>1, <1>2, SMTT(30) DEF RingInv, TypeOK, StartIncreasing, FramesIntact, KeepsAllThatFits,
     DroppedForRoom, HandlesInStep
<1>4. IndexConsistent' /\ PutLocals'
  BY <1>1, <1>2, Zenon DEF RingInv, IndexConsistent, PutLocals, Slot, Entry, oldest_index_i
<1> QED
  BY <1>3, <1>4, Zenon DEF RingInv

\* Every step of every call keeps the invariant.
LEMMA NextInv == RingInv /\ [Next]_vars => RingInv'
<1> SUFFICES ASSUME RingInv, [Next]_vars PROVE RingInv'
  BY Zenon
<1>1. ASSUME NEW len \in Lengths, PutReject(len) PROVE RingInv'
  BY <1>1, IdleStep, Zenon DEF PutReject
<1>2. ASSUME NEW len \in Lengths, PutCall(len) PROVE RingInv'
  BY <1>2, PutCallStep, Zenon
<1>3. CASE PutHead
  BY <1>3, PutHeadStep, Zenon
<1>4. CASE PutFree
  BY <1>4, PutFreeStep, Zenon
<1>5. CASE PutCopy
  BY <1>5, PutCopyStep, Zenon
<1>6. CASE PutIndex
  BY <1>6, PutIndexStep, Zenon
<1>7. CASE PutAdvance
  BY <1>7, PutAdvanceStep, Zenon
<1>8. ASSUME NEW h \in Handles, NEW size \in Sizes, NEW o \in Options,
             NEW stray \in BOOLEAN, ach_get(h, size, o, stray)
      PROVE  RingInv'
  BY <1>8, GetStep, Zenon
<1>9. ASSUME NEW h \in Handles, ach_flush(h) \/ ach_open(h) PROVE RingInv'
  BY <1>9, HandleStep, Zenon
<1>10. CASE Forget
  BY <1>10, IdleStep, Zenon DEF Forget
<1>11. CASE UNCHANGED vars
  BY <1>11, IdleStep, Zenon DEF vars
<1> QED
  BY <1>1, <1>2, <1>3, <1>4, <1>5, <1>6, <1>7, <1>8, <1>9, <1>10, <1>11, Zenon DEF Next

\* The ring keeps its inductive invariant.
THEOREM RingCorrect == Spec => []RingInv
BY InitInv, NextInv, PTL DEF Spec

\* The counts and locals of the ring code stay in the range of their types:
\* no count goes below zero or past its array, whatever the sizes.
THEOREM TypeCorrect == Spec => []TypeOK
<1>1. RingInv => TypeOK
  BY Zenon DEF RingInv
<1> QED
  BY <1>1, RingCorrect, PTL

\* At every step of every put the header and the index array describe the
\* retained frames.
THEOREM IndexAlwaysConsistent == Spec => []IndexConsistent
<1>1. RingInv => IndexConsistent
  BY Zenon DEF RingInv
<1> QED
  BY <1>1, RingCorrect, PTL

\* No put damages a frame that is still in the index.
THEOREM FramesStayIntact == Spec => []FramesIntact
<1>1. RingInv => FramesIntact
  BY Zenon DEF RingInv
<1> QED
  BY <1>1, RingCorrect, PTL

\* ach_put() drops no frame that it could have kept.
THEOREM DropsOnlyForRoom == Spec => []KeepsAllThatFits
<1>1. RingInv => KeepsAllThatFits
  BY Zenon DEF RingInv
<1> QED
  BY <1>1, RingCorrect, PTL

-----------------------------------------------------------------------------
(* The ring implements the publish/subscribe channel. *)

\* The end of a put publishes its frame; the steps before change nothing that a
\* user of the channel sees.
LEMMA PutRefines ==
  ASSUME RingInv,
         \/ \E len \in Lengths : PutReject(len) \/ PutCall(len)
         \/ PutHead \/ PutFree \/ PutCopy \/ PutIndex \/ PutAdvance
  PROVE  [PS!Next]_(PS!vars)
<1>1. ASSUME NEW len \in Lengths, PutReject(len)
      PROVE  PS!Next
  <2>1. \/ len = 0 /\ reply' = PutReply("ACH_EINVAL")
        \/ DataSize < len /\ reply' = PutReply("ACH_OVERFLOW")
    BY <1>1, Zenon DEF PutReject
  <2>2. seq_num' = seq_num /\ start' = start
    BY <1>1, Zenon DEF PutReject, handles
  <2>3. DataSize < len => len > DataSize
    BY LengthsAssumption, DataSizeAssumption, Zenon
  <2>4. PS!Refuse(len)
    BY <2>1, <2>2, <2>3, Answers, Zenon DEF PS!Refuse
  <2> QED
    BY <2>4, Zenon DEF PS!Next
<1>2. ASSUME NEW len \in Lengths, PutCall(len)
      PROVE  PS!Next
  <2>1. seq_num' = seq_num /\ start' = start /\ reply' = NoReply
    BY <1>2, Zenon DEF PutCall, handles
  <2>2. PS!Forget
    BY <2>1, Answers, Zenon DEF PS!Forget
  <2> QED
    BY <2>2, Zenon DEF PS!Next
<1>3. ASSUME PutHead \/ PutFree \/ PutCopy \/ PutIndex
      PROVE  UNCHANGED PS!vars
  <2>1. seq_num' = seq_num /\ start' = start /\ UNCHANGED reply
    BY <1>3, Zenon DEF PutHead, PutFree, PutCopy, PutIndex, handles
  <2> QED
    BY <2>1, Answers, Zenon DEF PS!vars
<1>4. ASSUME PutAdvance
      PROVE  PS!Next
  <2>1. seq_num' = seq_num /\ reply' = PutReply("ACH_OK")
        /\ start' = Append(start, start[Len(start)] + put_len) /\ put_pc = "advance"
    BY <1>4, ZenonT(60) DEF PutAdvance, handles
  <2>2. put_len \in Lengths /\ put_len \in 1 .. DataSize
    BY <2>1, DataSizeAssumption, SMTT(30) DEF RingInv, TypeOK, PutLocals
  <2>3. Len(start) = PS!newest + 1
    BY DEF RingInv, TypeOK, PS!newest
  <2>4. PS!Publish(put_len)
    BY <2>1, <2>2, <2>3, Answers, Zenon DEF PS!Publish
  <2> QED
    BY <2>2, <2>4, Zenon DEF PS!Next
<1> QED
  BY <1>1, <1>2, <1>3, <1>4, Zenon

\* Every step of the ring is a step of the channel, or none.
LEMMA StepRefines == IndexCnt > 1 /\ RingInv /\ [Next]_vars => [PS!Next]_(PS!vars)
<1> SUFFICES ASSUME IndexCnt > 1, RingInv, [Next]_vars
             PROVE  [PS!Next]_(PS!vars)
  BY Zenon
<1>1. ASSUME NEW h \in Handles, ach_flush(h)
      PROVE  PS!Next
  <2>1. /\ seq_num' = [seq_num EXCEPT ![h] = last_seq] /\ start' = start /\ reply' = NoReply
        /\ put_pc = "idle"
    BY <1>1, Zenon DEF ach_flush, FlushLocked, Result
  <2>2. last_seq = PS!newest
    BY <2>1, Zenon DEF RingInv, IndexConsistent, PS!newest, published
  <2>3. PS!Flush(h)
    BY <2>1, <2>2, Answers, Zenon DEF PS!Flush
  <2> QED
    BY <2>3, Zenon DEF PS!Next
<1>2. ASSUME NEW h \in Handles, ach_open(h)
      PROVE  PS!Next
  <2>1. seq_num' = [seq_num EXCEPT ![h] = 0] /\ start' = start /\ reply' = NoReply
    BY <1>2, Zenon DEF ach_open
  <2>2. PS!Reopen(h)
    BY <2>1, Answers, Zenon DEF PS!Reopen
  <2> QED
    BY <2>2, Zenon DEF PS!Next
<1>3. ASSUME Forget
      PROVE  PS!Next
  <2>1. seq_num' = seq_num /\ start' = start /\ reply' = NoReply
    BY <1>3, Zenon DEF Forget, handles
  <2>2. PS!Forget
    BY <2>1, Answers, Zenon DEF PS!Forget
  <2> QED
    BY <2>2, Zenon DEF PS!Next
<1>4. ASSUME UNCHANGED vars
      PROVE  UNCHANGED PS!vars
  <2>1. seq_num' = seq_num /\ start' = start /\ UNCHANGED reply
    BY <1>4, Zenon DEF vars, handles
  <2> QED
    BY <2>1, Answers, Zenon DEF PS!vars
<1> QED
  BY <1>1, <1>2, <1>3, <1>4, GetRefines, PutRefines, Zenon DEF Next

\* The ring is the channel it promises to be, for every number of index entries
\* above one, every data size and any number of frames: ach_get() delivers, byte
\* for byte, the newest frame or the first one that the handle has not seen and
\* that still fits, reports the frames it passed over, and never ends in ACH_BUG.
THEOREM RefinesPubSub ==
  ASSUME IndexCnt > 1
  PROVE  Spec => ImplementsPubSub
<1>1. Init => PS!Init
  <2>1. Init => start = <<0>> /\ seq_num = [h \in Handles |-> 0] /\ reply = NoReply
    BY Zenon DEF Init
  <2> QED
    BY <2>1, Answers, Zenon DEF PS!Init
<1>2. RingInv /\ [Next]_vars => [PS!Next]_(PS!vars)
  BY StepRefines, Zenon
<1> QED
  BY <1>1, <1>2, RingCorrect, PTL DEF Spec, ImplementsPubSub, PS!Spec

-----------------------------------------------------------------------------
\* What a get may do to handles: none goes back, and the caller is told of frames
\* that were passed over.
GetAdvances ==
  reply'.call = "get" =>
    \A h \in Handles :
      /\ seq_num'[h] >= seq_num[h]
      /\ seq_num'[h] > seq_num[h] + 1 => reply'.status = "ACH_MISSED_FRAME"

\* So does every step of ach_get().
LEMMA GetStepAdvances ==
  ASSUME RingInv, NEW g \in Handles, NEW size \in Sizes, NEW o \in Options,
         NEW stray \in BOOLEAN, ach_get(g, size, o, stray)
  PROVE  GetAdvances
<1> DEFINE s == Found(g, o.last)
           seq == seq_num[g]
           i == read_index(seq, next_index[g], o.last, stray)
           r == GetLocked(seq, next_index[g], size, o.last, o.copy, stray)
<1>1. /\ put_pc = "idle"
      /\ seq_num' = [seq_num EXCEPT ![g] = r.seq_num]
      /\ reply' = GetReply(g, seq, o, r, i)
  BY Zenon DEF ach_get
<1>2. reply'.status = r.status
  BY <1>1, Zenon DEF GetReply
<1>3. seq_num \in [Handles -> Nat] /\ size \in Nat
  BY SizesAssumption, Zenon DEF RingInv, TypeOK
<1>4. \A h \in Handles : seq_num'[h] = IF h = g THEN r.seq_num ELSE seq_num[h]
  BY <1>1, <1>3, Zenon
<1> HIDE DEF i, r, s
<1>5. \/ r.seq_num = seq
      \/ /\ r.seq_num = s /\ s \in Nat /\ s >= seq
         /\ s > seq + 1 => r.status = "ACH_MISSED_FRAME"
  <2>1. CASE i < IndexCnt
    <3> DEFINE miss == IF s > seq + 1 THEN "ACH_MISSED_FRAME" ELSE "ACH_OK"
               c == PS!Content(s)
               ii == (Slot(s) + 1) % IndexCnt
    <3>1. \/ r = Result("ACH_STALE_FRAMES", seq, next_index[g], <<>>)
          \/ r = Result("ACH_OVERFLOW", seq, next_index[g], <<>>)
          \/ s \in oldest .. published /\ r = Result(miss, s, ii, c)
      BY <1>1, <1>3, <2>1, GetLockedFinds, SMTT(30) DEF i, r, s
    <3>2. ASSUME s \in oldest .. published
          PROVE  s \in Nat /\ s >= seq
      <4>1. published \in Nat /\ oldest \in 1 .. published + 1 /\ seq \in Nat /\ seq <= published
        BY <1>3, Counts, Zenon DEF RingInv, HandlesInStep
      <4> QED
        BY <3>2, <4>1 DEF s, Found
    <3> HIDE DEF miss, c, ii
    <3>3. ASSUME s \in oldest .. published, r = Result(miss, s, ii, c)
          PROVE  r.seq_num = s /\ (s > seq + 1 => r.status = "ACH_MISSED_FRAME")
      <4>1. r.seq_num = s /\ r.status = miss
        BY <3>3, Zenon DEF Result
      <4> QED
        BY <4>1, Zenon DEF miss
    <3>4. CASE r = Result("ACH_STALE_FRAMES", seq, next_index[g], <<>>)
      BY <3>4, Zenon DEF Result
    <3>5. CASE r = Result("ACH_OVERFLOW", seq, next_index[g], <<>>)
      BY <3>5, Zenon DEF Result
    <3> QED
      BY <3>1, <3>2, <3>3, <3>4, <3>5, ZenonT(60)
  <2>2. CASE ~ (i < IndexCnt)
    BY <1>1, <1>3, <2>2, GetPast, ZenonT(60) DEF i, r
  <2> QED
    BY <2>1, <2>2, Zenon
<1> QED
  BY <1>2, <1>3, <1>4, <1>5 DEF GetAdvances

LEMMA StepAdvances == RingInv /\ [Next]_vars => GetAdvances
<1> SUFFICES ASSUME RingInv, [Next]_vars, reply'.call = "get"
             PROVE  GetAdvances
  BY Zenon DEF GetAdvances
<1>1. CASE seq_num' = seq_num
  <2>1. \A h \in Handles : seq_num[h] \in Nat
    BY Zenon DEF RingInv, TypeOK
  <2>2. \A h \in Handles : seq_num[h] >= seq_num[h] /\ ~ (seq_num[h] > seq_num[h] + 1)
    BY <2>1
  <2> QED
    BY <1>1, <2>2, Zenon DEF GetAdvances
<1>2. ASSUME reply' = NoReply
      PROVE  FALSE
  BY <1>2 DEF NoReply
<1>3. ASSUME NEW len, PutReject(len) \/ PutCall(len)
      PROVE  seq_num' = seq_num
  BY <1>3, Zenon DEF PutReject, PutCall, handles
<1>4. ASSUME PutHead \/ PutFree \/ PutCopy \/ PutIndex \/ PutAdvance \/ UNCHANGED vars
      PROVE  seq_num' = seq_num
  BY <1>4, Zenon DEF PutHead, PutFree, PutCopy, PutIndex, PutAdvance, vars, handles
<1>5. ASSUME NEW h, ach_flush(h) \/ ach_open(h) \/ Forget
      PROVE  reply' = NoReply
  BY <1>5, Zenon DEF ach_flush, ach_open, Forget
<1> QED
  BY <1>1, <1>2, <1>3, <1>4, <1>5, GetStepAdvances, Zenon DEF Next

\* A get never moves a handle back, and passes over frames only with
\* ACH_MISSED_FRAME, with or without ACH_O_COPY.
THEOREM GapsAreReported == Spec => [][GetAdvances]_vars
<1>1. RingInv /\ [Next]_vars => [GetAdvances]_vars
  BY StepAdvances, Zenon
<1> QED
  BY <1>1, RingCorrect, PTL DEF Spec

-----------------------------------------------------------------------------
\* Where ach_get() looks: at an entry of the array, or past its one entry.
LEMMA StraysStep ==
  RingInv /\ StraysOnlyWhenNew /\ [Next]_vars => StraysOnlyWhenNew'
<1> SUFFICES ASSUME RingInv, StraysOnlyWhenNew, [Next]_vars
             PROVE  StraysOnlyWhenNew'
  BY Zenon
<1>1. ASSUME NEW h \in Handles, NEW size \in Sizes, NEW o \in Options, NEW stray \in BOOLEAN,
             ach_get(h, size, o, stray)
      PROVE  StraysOnlyWhenNew'
  <2> DEFINE i == read_index(seq_num[h], next_index[h], o.last, stray)
             r == GetLocked(seq_num[h], next_index[h], size, o.last, o.copy, stray)
  <2>1. put_pc = "idle" /\ reply' = GetReply(h, seq_num[h], o, r, i)
    BY <1>1, Zenon DEF ach_get
  <2> HIDE DEF i, r
  <2>2. /\ reply'.index = i /\ reply'.from = seq_num[h] /\ reply'.opts = o
        /\ reply'.status = r.status /\ reply'.seq = r.seq_num
    BY <2>1, Zenon DEF GetReply
  <2>3. CASE i < IndexCnt
    BY <2>2, <2>3, Zenon DEF StraysOnlyWhenNew
  <2>4. CASE ~ (i < IndexCnt)
    <3>1. /\ IndexCnt = 1 /\ seq_num[h] = 0 /\ ~ o.last /\ r.seq_num = seq_num[h]
          /\ r.status \in {"ACH_STALE_FRAMES", "ACH_OVERFLOW"}
      BY <2>4, GetPast, Zenon DEF i, r
    <3> QED
      BY <2>2, <3>1, Zenon DEF StraysOnlyWhenNew
  <2> QED
    BY <2>3, <2>4, Zenon
<1>2. ASSUME reply' = NoReply \/ (\E st : reply' = PutReply(st)) \/ UNCHANGED reply
      PROVE  StraysOnlyWhenNew'
  BY <1>2 DEF StraysOnlyWhenNew, NoReply, PutReply
<1>3. ASSUME NEW len, PutReject(len) \/ PutCall(len)
      PROVE  reply' = NoReply \/ (\E st : reply' = PutReply(st))
  BY <1>3, Zenon DEF PutReject, PutCall
<1>4. ASSUME PutHead \/ PutFree \/ PutCopy \/ PutIndex \/ UNCHANGED vars
      PROVE  UNCHANGED reply
  BY <1>4, Zenon DEF PutHead, PutFree, PutCopy, PutIndex, vars
<1>5. ASSUME NEW h, PutAdvance \/ ach_flush(h) \/ ach_open(h) \/ Forget
      PROVE  reply' = NoReply \/ (\E st : reply' = PutReply(st))
  BY <1>5, Zenon DEF PutAdvance, ach_flush, ach_open, Forget
<1> QED
  BY <1>1, <1>2, <1>3, <1>4, <1>5, Zenon DEF Next

\* Where the first assertion of ach_get_from_offset() can fail, for every number of
\* index entries: with one entry, at the next frame of a handle that has read
\* nothing, and then the handle stays as it was.
THEOREM ReadsAstrayOnlyWhenNew == Spec => []StraysOnlyWhenNew
<1>1. Init => StraysOnlyWhenNew
  BY DEF Init, StraysOnlyWhenNew, NoReply
<1> QED
  BY <1>1, StraysStep, RingCorrect, PTL DEF Spec

=============================================================================
