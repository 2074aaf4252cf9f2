---------------------------- MODULE AchToolsProofs ---------------------------
(***************************************************************************)
(* Proofs about achlog, achpipe and achcat, for any channels, frames,      *)
(* inputs, buffers and depths.                                             *)
(***************************************************************************)
EXTENDS AchTools, TLAPS

Bytes == [1 .. SizeBytes -> 0 .. Base - 1]
Buffer == [size : Bytes, frame : Frames, pos : Nat]
Written == [size : Bytes, frame : Frames, pos : Nat, len : Nat]
Cat == {"achcat", "achcat -p", "achcat -s"}
Pipe == {"publish", "subscribe", "sync"}

\* The types of the variables.
TypeOK ==
  /\ tool \in Tools /\ input \in Inputs[tool] /\ rd \in 0 .. Len(input)
  /\ cmd \in {"next", "last", "poll"} /\ t0 \in BOOLEAN
  /\ chan \in [Channels -> Seq(Frames)] /\ out \in [Channels -> Seq(Written)]
  /\ DOMAIN pc = Threads /\ cursor \in [Threads -> Nat] /\ max \in [Threads -> Nat]
  /\ buf \in [Threads -> Buffer] /\ put \in Seq(Frames)

\* Where the threads of each tool can be.
Places ==
  /\ tool = "achlog" =>
       /\ pc[Main] \in {"open", "sigwait", "cancel", "exit"}
       /\ \A c \in Channels : pc[c] \in {"none", "header", "get", "wait", "write", "flush", "done", "exit"}
  /\ tool \in Pipe =>
       /\ pc[Main] \in {"open", "loop", "exit", "abort"} \cup
            (IF tool = "publish" THEN {"read", "data", "put"} ELSE {"read", "get", "wait", "write"})
       /\ \A c \in Channels : pc[c] \in {"none", "exit", "abort"}
  /\ tool \in Cat =>
       /\ pc[Main] \in {"open", "none", "join", "exit"} \cup
            (IF tool = "achcat -p" THEN {} ELSE {"cat", "write"})
       /\ \A c \in Channels : pc[c] \in {"none", "line", "exit"}
       /\ pc[Main] = "exit" => \A c \in Channels : pc[c] = "exit"

\* The thread that writes the frames of channel c.
Writer(c) == IF tool = "achlog" THEN c ELSE Main

\* Only the tool that takes commands polls.  Nothing is written where nothing
\* should be, and nothing was written yet when t0 says so.
Quiet ==
  /\ cmd = "poll" => tool = "sync"
  /\ tool # "achlog" => \A c \in Channels \ {Chan0} : out[c] = <<>>
  /\ tool \in Pipe /\ (t0 \/ tool = "publish") => out[Chan0] = <<>>

\* A handle has seen no frame that was not published, and every frame written is
\* one its handle has seen.
Seen ==
  /\ \A t \in Threads : cursor[t] <= Len(chan[On(t)])
  /\ \A c \in Channels : \A i \in DOMAIN out[c] : out[c][i].pos <= cursor[Writer(c)]

\* What a thread has in its buffer when it is about to write.
Holds(t) ==
  /\ buf[t].size = ach_pipe_set_size(Size[buf[t].frame])
  /\ \/ /\ buf[t].pos \in 1 .. Len(chan[On(t)]) /\ buf[t].frame = chan[On(t)][buf[t].pos]
        /\ buf[t].pos <= cursor[t]
        /\ \A i \in DOMAIN out[On(t)] :
             /\ out[On(t)][i].pos <= buf[t].pos
             /\ out[On(t)][i].pos = buf[t].pos => tool = "sync"
     \/ /\ buf[t].pos = 0 /\ buf[t].frame = 0
        /\ tool \in {"subscribe", "sync"} /\ out[On(t)] = <<>>

Holding == \A t \in Threads : pc[t] = "write" => Holds(t)

\* What was written came from the channel.
Copied ==
  \A c \in Channels : \A i \in DOMAIN out[c] :
    LET w == out[c][i]
    IN /\ w.size = ach_pipe_set_size(Size[w.frame])
       /\ \/ w.pos \in 1 .. Len(chan[c]) /\ w.frame = chan[c][w.pos]
          \/ w.pos = 0 /\ w.frame = 0 /\ i = 1 /\ tool \in {"subscribe", "sync"}

\* How many replies were written when the command just read is being answered.
Replies ==
  tool = "sync" =>
    /\ pc[Main] \in {"open", "loop", "read"} => Len(out[Chan0]) = rd
    /\ pc[Main] \in {"get", "wait", "write"} => Len(out[Chan0]) = rd - 1

\* What achpipe -p is about to put is part of a frame with a size of five bytes.
Part ==
  /\ Size[input[rd].frame] >= Weight[5]
  /\ buf[Main].frame \in Frames /\ Size[buf[Main].frame] < Size[input[rd].frame]

\* How far the input was put.
Putting ==
  /\ tool = "publish" =>
       /\ \A i \in 1 .. rd : input[i].kind = IF i % 2 = 1 THEN "header" ELSE "data"
       /\ pc[Main] = "open" => rd = 0
       /\ pc[Main] \in {"open", "loop", "read", "put"} => rd % 2 = 0
       /\ pc[Main] \in {"open", "loop", "read"} /\ Aligned => put = Whole(rd)
       /\ pc[Main] = "data" =>
            rd % 2 = 1 /\ put = Whole(rd) /\ cnt \in ach_pipe_get_size(input[rd].size)
       /\ pc[Main] = "put" =>
            rd >= 2 /\ put = Whole(rd - 1) /\ (buf[Main].frame = input[rd].frame \/ Part)
       /\ pc[Main] # "put" => \/ put = Whole(rd) \/ CutShort
                              \/ pc[Main] = "abort" /\ put = Whole(rd - 1)
  /\ tool \in {"achcat", "achcat -p"} =>
       put = Whole(rd) \/ (pc[Main] = "exit" /\ put = Whole(rd - 1))

\* The inductive invariant.
IInv ==
  /\ TypeOK /\ Places /\ Quiet /\ Seen /\ Holding /\ Copied /\ OutputInOrder /\ Replies /\ Putting

\* The length written of a frame is its size; of one with a size of five bytes
\* achlog and achpipe write less.
Length(n, size) ==
  IF size < Weight[5] \/ tool \in {"achcat", "achcat -s"} THEN n = size ELSE n < size

\* The buffers have room for what is in them and what a header announced, and
\* the lengths written are those of the frames.
Room ==
  /\ \A t \in Threads : Size[buf[t].frame] <= max[t]
  /\ tool = "publish" /\ pc[Main] = "data" => cnt <= max[Main]
  /\ \A c \in Channels : \A i \in DOMAIN out[c] : Length(out[c][i].len, Size[out[c][i].frame])

-----------------------------------------------------------------------------
(* Sizes and their bytes. *)

\* The weights are powers of the base.
LEMMA Weights ==
  /\ \A i \in 1 .. SizeBytes : Weight[i] \in Nat \ {0}
  /\ Weight[1] = 1 /\ Weight[2] = Base /\ Weight[3] = Weight[2] * Base
  /\ Weight[4] = Weight[3] * Base /\ Weight[5] = Weight[4] * Base
  /\ \A i \in 5 .. SizeBytes : Weight[i] >= Weight[5]
<1> DEFINE two == Base * Base
           four == two * two
<1>1. Base \in Nat \ {0}
  BY BoundAssumption, Zenon
<1>2. two \in Nat \ {0} /\ two * Base \in Nat \ {0}
  BY <1>1
<1>3. four \in Nat \ {0} /\ two * Base * Base = four
  BY <1>1, <1>2
<1>4. Weight = <<1, Base, two, two * Base, four, four * Base, four * two, four * two * Base>>
  BY Zenon DEF Weight
<1>5. \A x, y \in Nat \ {0} : x * y \in Nat \ {0} /\ x * y >= x
  OBVIOUS
<1> HIDE DEF two, four
<1>6. /\ four * Base \in Nat \ {0} /\ four * Base >= four
      /\ four * two \in Nat \ {0} /\ four * two >= four
  BY <1>1, <1>2, <1>3, <1>5, Zenon
<1>7. four * two * Base \in Nat \ {0} /\ four * two * Base >= four
  BY <1>1, <1>3, <1>5, <1>6
<1>8. /\ Weight[1] = 1 /\ Weight[2] = Base /\ Weight[3] = two /\ Weight[4] = two * Base
      /\ Weight[5] = four /\ Weight[6] = four * Base /\ Weight[7] = four * two
      /\ Weight[8] = four * two * Base
  BY <1>4, Zenon
<1> HIDE DEF Weight
<1>9. two = Base * Base
  BY Zenon DEF two
<1> QED
  BY <1>1, <1>2, <1>3, <1>6, <1>7, <1>8, <1>9 DEF SizeBytes

\* A quotient is determined by the remainder it leaves.
LEMMA Quotient ==
  ASSUME NEW n \in Nat, NEW a \in Nat \ {0}, NEW q \in Nat, NEW r \in 0 .. a - 1, n = a * q + r
  PROVE  n \div a = q
<1> DEFINE k == n \div a
           s == n % a
<1>1. k \in Nat /\ s \in 0 .. a - 1 /\ n = a * k + s
  OBVIOUS
<1> HIDE DEF k, s
<1>2. CASE k > q
  <2>1. PICK e \in Nat \ {0} : k = q + e
    BY <1>1, <1>2
  <2>2. a * k = a * q + a * e /\ a * e >= a /\ a * e \in Nat /\ a * q \in Nat
    BY <2>1
  <2> QED
    BY <1>1, <2>2
<1>3. CASE k < q
  <2>1. PICK e \in Nat \ {0} : q = k + e
    BY <1>1, <1>3
  <2>2. a * q = a * k + a * e /\ a * e >= a /\ a * e \in Nat /\ a * k \in Nat
    BY <1>1, <2>1
  <2> QED
    BY <1>1, <2>2
<1> QED
  BY <1>1, <1>2, <1>3 DEF k

\* One digit more: what is left of n above weight w splits into a digit and what
\* is left above the next weight.
LEMMA Digit ==
  ASSUME NEW n \in Nat, NEW w \in Nat \ {0}
  PROVE  /\ n \div w \in Nat /\ n \div (w * Base) \in Nat
         /\ (n \div w) % Base \in 0 .. Base - 1
         /\ n \div w = Base * (n \div (w * Base)) + ((n \div w) % Base)
<1> DEFINE q == n \div w
           r == n % w
           k == q \div Base
           d == q % Base
<1>1. Base \in Nat \ {0}
  BY BoundAssumption, Zenon
<1>2. q \in Nat /\ r \in 0 .. w - 1 /\ n = w * q + r
  OBVIOUS
<1>3. k \in Nat /\ d \in 0 .. Base - 1 /\ q = Base * k + d
  <2> HIDE DEF q
  <2> QED
    BY <1>1, <1>2
<1>4. n \div (w * Base) = k
  <2> HIDE DEF q, r, k, d
  <2>1. w * Base \in Nat \ {0}
    BY <1>1
  <2>2. w * q = w * (Base * k) + w * d
    BY <1>1, <1>3
  <2>3. w * (Base * k) = (w * Base) * k
    BY <1>1, <1>3
  <2>4. w * d \in Nat /\ w * d <= w * (Base - 1)
    BY <1>1, <1>3
  <2>5. w * (Base - 1) = w * Base - w
    BY <1>1
  <2>6. w * d + r \in 0 .. (w * Base) - 1
    BY <1>2, <2>1, <2>4, <2>5
  <2>7. n = (w * Base) * k + (w * d + r)
    <3>1. (w * Base) * k \in Nat
      BY <1>3, <2>1
    <3> QED
      BY <1>2, <2>2, <2>3, <2>4, <3>1
  <2> QED
    BY <1>3, <2>1, <2>6, <2>7, Quotient, Zenon
<1> HIDE DEF q, k, d
<1>5. q \in Nat /\ n \div (w * Base) \in Nat /\ d \in 0 .. Base - 1 /\ q = Base * (n \div (w * Base)) + d
  BY <1>2, <1>3, <1>4, Zenon
<1> QED
  BY <1>5, Zenon DEF q, d

\* A number below weight w and a digit above it are a number below the next weight.
LEMMA DigitAdds ==
  ASSUME NEW w \in Nat \ {0}, NEW n \in 0 .. w - 1, NEW d \in 0 .. Base - 1
  PROVE  w * Base \in Nat \ {0} /\ n + d * w \in 0 .. (w * Base) - 1
<1>1. Base \in Nat \ {0}
  BY BoundAssumption, Zenon
<1>2. PICK k \in Nat : Base = d + 1 + k
  <2>1. Base - d - 1 \in Nat /\ Base = d + 1 + (Base - d - 1)
    BY <1>1
  <2> QED
    BY <2>1
<1>3. w * Base = d * w + w + w * k
  BY <1>1, <1>2
<1>4. d * w \in Nat /\ w * k \in Nat /\ w * Base \in Nat \ {0}
  BY <1>1
<1> QED
  BY <1>3, <1>4

\* Sizes have bytes, and bytes sizes, which are those of four bytes.
LEMMA SizeTypes ==
  /\ \A n \in Nat : ach_pipe_set_size(n) \in Bytes
  /\ \A b \in Bytes : ach_pipe_get_size(b) \subseteq 0 .. Weight[5] - 1
  /\ Weight[5] \in Nat
<1>1. Base \in Nat \ {0} /\ Weight[5] \in Nat
  BY BoundAssumption, Weights DEF SizeBytes
<1>2. ASSUME NEW n \in Nat
      PROVE  ach_pipe_set_size(n) \in Bytes
  <2>1. \A i \in 1 .. SizeBytes : (n \div Weight[i]) % Base \in 0 .. Base - 1
    BY Weights, Digit, Zenon
  <2> QED
    BY <2>1, Zenon DEF ach_pipe_set_size, Bytes
<1>3. ASSUME NEW b \in Bytes
      PROVE  ach_pipe_get_size(b) \subseteq 0 .. Weight[5] - 1
  <2>1. \A i \in 1 .. 4 : LowByte(b, i) \subseteq 0 .. Base - 1
    BY DEF LowByte, Bytes, SizeBytes
  <2>2. ASSUME NEW d1 \in 0 .. Base - 1, NEW d2 \in 0 .. Base - 1,
               NEW d3 \in 0 .. Base - 1, NEW d4 \in 0 .. Base - 1
        PROVE  d1 + d2 * Weight[2] + d3 * Weight[3] + d4 * Weight[4] \in 0 .. Weight[5] - 1
    <3> DEFINE n2 == d1 + d2 * Weight[2]
               n3 == n2 + d3 * Weight[3]
    <3>1. Weight[2] \in Nat \ {0} /\ d1 \in 0 .. Weight[2] - 1
      BY <1>1, Weights
    <3>2. Weight[3] \in Nat \ {0} /\ n2 \in 0 .. Weight[3] - 1
      BY <3>1, Weights, DigitAdds
    <3> HIDE DEF n2
    <3>3. Weight[4] \in Nat \ {0} /\ n3 \in 0 .. Weight[4] - 1
      BY <3>2, Weights, DigitAdds
    <3> HIDE DEF n3
    <3>4. n3 + d4 * Weight[4] \in 0 .. Weight[5] - 1
      BY <3>3, Weights, DigitAdds
    <3> QED
      BY <3>4, Zenon DEF n2, n3
  <2>3. \A i \in {1, 2, 3, 4} : \A d \in LowByte(b, i) : d \in 0 .. Base - 1
    BY <2>1
  <2> SUFFICES ASSUME NEW x \in ach_pipe_get_size(b) PROVE x \in 0 .. Weight[5] - 1
    BY Zenon
  <2>4. PICK d1 \in LowByte(b, 1), d2 \in LowByte(b, 2), d3 \in LowByte(b, 3), d4 \in LowByte(b, 4) :
          x = d1 + d2 * Weight[2] + d3 * Weight[3] + d4 * Weight[4]
    BY DEF ach_pipe_get_size
  <2>5. d1 \in 0 .. Base - 1 /\ d2 \in 0 .. Base - 1 /\ d3 \in 0 .. Base - 1 /\ d4 \in 0 .. Base - 1
    BY <2>3, Zenon
  <2> QED
    BY <2>2, <2>4, <2>5, Zenon
<1> QED
  BY <1>1, <1>2, <1>3, Zenon

\* A size of four bytes comes back as it was.
LEMMA SizeRoundTrip ==
  ASSUME NEW n \in Nat, n < Weight[5]
  PROVE  ach_pipe_get_size(ach_pipe_set_size(n)) = {n}
<1> DEFINE b == ach_pipe_set_size(n)
           q(i) == n \div Weight[i]
<1>1. Base \in Nat \ {0}
  BY BoundAssumption, Zenon
<1>2. \A i \in 1 .. SizeBytes : b[i] = q(i) % Base
  BY Zenon DEF ach_pipe_set_size
<1>3. \A i \in 5 .. SizeBytes : q(i) = 0
  <2> SUFFICES ASSUME NEW i \in 5 .. SizeBytes PROVE q(i) = 0
    BY Zenon
  <2>1. Weight[i] \in Nat \ {0} /\ n < Weight[i]
    BY Weights DEF SizeBytes
  <2>2. n = Weight[i] * 0 + n /\ n \in 0 .. Weight[i] - 1
    BY <2>1
  <2> QED
    BY <2>1, <2>2, Quotient, Zenon
<1>4. \A i \in 5 .. SizeBytes : b[i] = 0
  BY <1>1, <1>2, <1>3 DEF SizeBytes
<1>5. /\ q(1) = Base * q(2) + b[1] /\ q(2) = Base * q(3) + b[2]
      /\ q(3) = Base * q(4) + b[3] /\ q(4) = Base * q(5) + b[4]
      /\ q(1) \in Nat /\ q(2) \in Nat /\ q(3) \in Nat /\ q(4) \in Nat
      /\ b[1] \in Nat /\ b[2] \in Nat /\ b[3] \in Nat /\ b[4] \in Nat
  <2>1. /\ Weight[1] \in Nat \ {0} /\ Weight[2] \in Nat \ {0} /\ Weight[3] \in Nat \ {0}
        /\ Weight[4] \in Nat \ {0}
        /\ Weight[2] = Weight[1] * Base /\ Weight[3] = Weight[2] * Base
        /\ Weight[4] = Weight[3] * Base /\ Weight[5] = Weight[4] * Base
    BY <1>1, Weights DEF SizeBytes
  <2>2. b[1] = q(1) % Base /\ b[2] = q(2) % Base /\ b[3] = q(3) % Base /\ b[4] = q(4) % Base
    BY <1>2 DEF SizeBytes
  <2> HIDE DEF b
  <2>3. q(1) = Base * q(2) + b[1] /\ q(1) \in Nat /\ b[1] \in 0 .. Base - 1
    BY <2>1, <2>2, Digit, Zenon
  <2>4. q(2) = Base * q(3) + b[2] /\ q(2) \in Nat /\ b[2] \in 0 .. Base - 1
    BY <2>1, <2>2, Digit, Zenon
  <2>5. q(3) = Base * q(4) + b[3] /\ q(3) \in Nat /\ b[3] \in 0 .. Base - 1
    BY <2>1, <2>2, Digit, ZenonT(60)
  <2>6. q(4) = Base * q(5) + b[4] /\ q(4) \in Nat /\ b[4] \in 0 .. Base - 1
    BY <2>1, <2>2, Digit, ZenonT(60)
  <2> QED
    BY <1>1, <2>3, <2>4, <2>5, <2>6
<1>6. q(1) = n /\ q(5) = 0
  <2>1. q(5) = 0
    BY <1>3 DEF SizeBytes
  <2>2. n = Weight[1] * n + 0
    BY Weights
  <2> QED
    BY <2>1, <2>2, Weights, Quotient DEF SizeBytes
<1> DEFINE x == q(2) y == q(3) z == q(4)
<1>7. n = b[1] + b[2] * Weight[2] + b[3] * Weight[3] + b[4] * Weight[4]
  <2>1. n = Base * x + b[1] /\ x = Base * y + b[2] /\ y = Base * z + b[3] /\ z = b[4]
    BY <1>1, <1>5, <1>6
  <2>2. Weight[2] = Base /\ Weight[3] = Base * Base /\ Weight[4] = Base * Base * Base
    BY Weights, Zenon
  <2>3. x \in Nat /\ y \in Nat /\ z \in Nat
    BY <1>5, Zenon
  <2> HIDE DEF b, x, y, z
  <2>4. Base * y = Base * (Base * z) + Base * b[3]
    BY <1>1, <1>5, <2>1, <2>3
  <2>5. Base * x = Base * (Base * (Base * z)) + Base * (Base * b[3]) + Base * b[2]
    BY <1>1, <1>5, <2>1, <2>3, <2>4
  <2>6. /\ Base * (Base * (Base * z)) = b[4] * Weight[4] /\ Base * (Base * b[3]) = b[3] * Weight[3]
        /\ Base * b[2] = b[2] * Weight[2]
    BY <1>1, <1>5, <2>1, <2>2, <2>3
  <2>7. b[4] * Weight[4] \in Nat /\ b[3] * Weight[3] \in Nat /\ b[2] * Weight[2] \in Nat
    BY <1>1, <1>5, <2>2
  <2> QED
    BY <1>5, <2>1, <2>5, <2>6, <2>7
<1>8. /\ LowByte(b, 1) = {b[1]} /\ LowByte(b, 2) = {b[2]}
      /\ LowByte(b, 3) = {b[3]} /\ LowByte(b, 4) = {b[4]}
  <2> HIDE DEF b
  <2>1. b[5] = 0 /\ b[6] = 0 /\ b[7] = 0 /\ b[8] = 0
    BY <1>4 DEF SizeBytes
  <2> QED
    BY <2>1 DEF LowByte
<1> HIDE DEF b
<1>9. ach_pipe_get_size(b) = {b[1] + b[2] * Weight[2] + b[3] * Weight[3] + b[4] * Weight[4]}
  BY <1>8 DEF ach_pipe_get_size
<1> QED
  BY <1>7, <1>9, Zenon DEF b

-----------------------------------------------------------------------------
(* The positions in a channel. *)

\* ach_get() returns a frame that is in the channel, newer than what the handle
\* has seen; "poll" may return that one again.
LEMMA PosInChannel ==
  ASSUME TypeOK, Seen, NEW t \in Threads, Available(t)
  PROVE  /\ Pos(t) \in 1 .. Len(chan[On(t)]) /\ Pos(t) >= cursor[t]
         /\ cmd # "poll" => Pos(t) > cursor[t]
<1>1. /\ On(t) \in Channels /\ Len(chan[On(t)]) \in Nat /\ cursor[t] \in Nat
      /\ cursor[t] <= Len(chan[On(t)]) /\ Depth \in Nat \ {0}
  <2>1. On(t) \in Channels /\ Depth \in Nat \ {0}
    BY ToolAssumption, BoundAssumption, Zenon DEF On, Threads
  <2>2. chan[On(t)] \in Seq(Frames) /\ cursor[t] \in Nat /\ cursor[t] <= Len(chan[On(t)])
    BY <2>1, Zenon DEF TypeOK, Seen
  <2>3. Len(chan[On(t)]) \in Nat
    BY <2>2
  <2> QED
    BY <2>1, <2>2, <2>3, Zenon
<1> QED
  BY <1>1 DEF Available, Pos, NextPos

\* A thread that is about to write, and the channel it writes from.
LEMMA WritersPlace ==
  ASSUME TypeOK, Places, NEW t \in Threads, pc[t] \in {"get", "wait", "write", "cat"}
  PROVE  /\ On(t) \in Channels /\ t = Writer(On(t))
         /\ tool = "achlog" => t \in Channels
         /\ tool # "achlog" => t = Main /\ On(t) = Chan0
BY ToolAssumption, Zenon DEF Places, On, Writer, Threads, TypeOK, Tool, Pipe, Cat

-----------------------------------------------------------------------------
(* Steps. *)

kept == <<tool, chan, input, rd, out, cursor, max, buf, cmd, t0, put, cnt>>

\* A step that moves threads and may read on in the input.
LEMMA ReadOnStep ==
  ASSUME IInv, UNCHANGED <<tool, chan, input, out, cursor, max, buf, cmd, t0, put>>,
         rd' \in 0 .. Len(input), DOMAIN pc' = Threads, Places',
         \A t \in Threads : pc'[t] = "write" => pc[t] = "write",
         Replies', Putting'
  PROVE  IInv'
<1>1. TypeOK' /\ Quiet'
  BY Zenon DEF IInv, TypeOK, Quiet
<1>2. Seen'
  BY Zenon DEF IInv, Seen, Writer, On
<1>3. Holding'
  BY ZenonT(60) DEF IInv, Holding, Holds, On
<1>4. Copied' /\ OutputInOrder'
  BY ZenonT(60) DEF IInv, Copied, OutputInOrder
<1> QED
  BY <1>1, <1>2, <1>3, <1>4, Zenon DEF IInv

\* A step that only moves threads.
LEMMA MoveStep ==
  ASSUME IInv, UNCHANGED kept, DOMAIN pc' = Threads, Places',
         \A t \in Threads : pc'[t] = "write" => pc[t] = "write",
         Replies', Putting'
  PROVE  IInv'
<1>1. /\ UNCHANGED <<tool, chan, input, out, cursor, max, buf, cmd, t0, put>>
      /\ rd' \in 0 .. Len(input)
  BY Zenon DEF kept, IInv, TypeOK
<1> QED
  BY <1>1, ReadOnStep, Zenon

\* What is said of the input and of what was put stays while these are as they are.
LEMMA SameInput ==
  ASSUME UNCHANGED <<tool, input, rd, put, buf>>
  PROVE  /\ \A n : Whole(n)' = Whole(n)
         /\ (CutShort' <=> CutShort) /\ (Aligned' <=> Aligned) /\ (Part' <=> Part)
<1>1. \A n : Whole(n)' = Whole(n)
  BY Zenon DEF Whole
<1> QED
  BY <1>1, Zenon DEF CutShort, Aligned, Part

\* exit(), abort() and ACH_DIE.
LEMMA EndStep ==
  ASSUME IInv, UNCHANGED kept,
         \/ Ends("exit") /\ pc[Main] # "put" /\ pc[Main] # "abort"
         \/ Ends("abort") /\ tool \in Pipe /\ pc[Main] # "exit"
  PROVE  IInv'
<1>1. DOMAIN pc' = Threads /\ \A t \in Threads : pc'[t] \in {"exit", "abort"}
  BY Zenon DEF Ends
<1>2. Places' /\ Main \in Threads
  BY Zenon DEF Places, Ends, kept, Threads, Pipe, Cat
<1>3. Replies'
  BY <1>1, <1>2, Zenon DEF Replies
<1>4. Putting'
  <2>1. /\ \A n : Whole(n)' = Whole(n)
        /\ (CutShort' <=> CutShort) /\ (Aligned' <=> Aligned) /\ (Part' <=> Part)
    BY SameInput, Zenon DEF kept
  <2> QED
    BY <1>2, <2>1, Zenon DEF IInv, Putting, Ends, kept, Pipe
<1> QED
  BY <1>1, <1>2, <1>3, <1>4, MoveStep, Zenon

\* One thread moves.
LEMMA GotoStep ==
  ASSUME IInv, UNCHANGED kept, NEW t \in Threads, NEW l, Goto(t, l), l # "write",
         \/ /\ tool = "achlog"
            /\ l \in IF t = Main THEN {"cancel"} ELSE {"wait", "flush", "done"}
         \/ tool \in {"subscribe", "sync"} /\ t = Main /\ pc[Main] = "get" /\ l = "wait"
         \/ tool = "subscribe" /\ t = Main /\ l = "get"
         \/ tool \in {"publish", "sync"} /\ t = Main /\ pc[Main] = "loop" /\ l = "read"
         \/ tool \in Cat /\ t = Main /\ pc[Main] # "exit" /\ l = "join"
  PROVE  IInv'
<1>1. /\ DOMAIN pc' = Threads /\ pc'[t] = l /\ \A u \in Threads \ {t} : pc'[u] = pc[u]
      /\ Main \in Threads /\ Channels \subseteq Threads
  BY Zenon DEF Goto, IInv, TypeOK, Threads
<1>2. Places'
  BY <1>1, ToolAssumption, ZenonT(60) DEF IInv, Places, kept, Pipe, Cat, Threads
<1>3. Replies'
  BY <1>1, Zenon DEF IInv, Replies, kept, Cat
<1>4. Putting'
  <2>1. /\ \A n : Whole(n)' = Whole(n)
        /\ (CutShort' <=> CutShort) /\ (Aligned' <=> Aligned) /\ (Part' <=> Part)
    BY SameInput, Zenon DEF kept
  <2>2. CASE tool = "publish"
    <3>1. pc[Main] = "loop" /\ pc'[Main] = "read"
      BY <1>1, <2>2, Zenon DEF Cat
    <3> QED
      BY <2>1, <2>2, <3>1, ZenonT(60) DEF IInv, Putting, kept
  <2>3. CASE tool # "publish"
    BY <1>1, <2>1, <2>3, ZenonT(60) DEF IInv, Putting, kept, Cat
  <2> QED
    BY <2>2, <2>3, Zenon
<1> QED
  BY <1>1, <1>2, <1>3, <1>4, MoveStep, Zenon

\* Waiting threads look again, while nothing else that the tools have changes.
LEMMA WakeStep ==
  ASSUME IInv, UNCHANGED kept, NEW c \in Channels, pc' \in {pc, Woken(c)}
  PROVE  IInv'
<1>1. /\ DOMAIN pc' = Threads
      /\ \A t \in Threads : pc'[t] = pc[t] \/ (pc[t] = "wait" /\ pc'[t] = "get")
      /\ Main \in Threads /\ Channels \subseteq Threads
  BY Zenon DEF Woken, IInv, TypeOK, Threads
<1>2. Places'
  BY <1>1, ZenonT(60) DEF IInv, Places, kept, Pipe, Cat
<1>3. Replies'
  BY <1>1, Zenon DEF IInv, Replies, kept
<1>4. Putting'
  <2>1. /\ \A n : Whole(n)' = Whole(n)
        /\ (CutShort' <=> CutShort) /\ (Aligned' <=> Aligned) /\ (Part' <=> Part)
    BY SameInput, Zenon DEF kept
  <2> QED
    BY <1>1, <1>2, <2>1, ZenonT(60) DEF IInv, Putting, Places, kept, Pipe
<1> QED
  BY <1>1, <1>2, <1>3, <1>4, MoveStep, Zenon

\* A frame is put in a channel: what handles have seen stays where it is.
LEMMA GrowStep ==
  ASSUME IInv, NEW c \in Channels, NEW f \in Frames, chan' = [chan EXCEPT ![c] = Append(@, f)],
         UNCHANGED <<tool, input, out, cursor, max, buf, cmd, t0>>,
         rd' \in 0 .. Len(input), put' \in Seq(Frames), DOMAIN pc' = Threads, Places',
         \A t \in Threads : pc'[t] = "write" => pc[t] = "write",
         Replies', Putting'
  PROVE  IInv'
<1>1. \A d \in Channels :
        /\ Len(chan[d]) \in Nat /\ Len(chan'[d]) \in Nat /\ Len(chan'[d]) >= Len(chan[d])
        /\ \A i \in 1 .. Len(chan[d]) : chan'[d][i] = chan[d][i]
  <2> SUFFICES ASSUME NEW d \in Channels
               PROVE  /\ Len(chan[d]) \in Nat /\ Len(chan'[d]) \in Nat /\ Len(chan'[d]) >= Len(chan[d])
                      /\ \A i \in 1 .. Len(chan[d]) : chan'[d][i] = chan[d][i]
    BY Zenon
  <2>1. chan[d] \in Seq(Frames) /\ (chan'[d] = chan[d] \/ chan'[d] = Append(chan[d], f))
    BY Zenon DEF IInv, TypeOK
  <2> QED
    BY <2>1
<1>2. TypeOK'
  BY SMTT(30) DEF IInv, TypeOK
<1>3. Quiet'
  BY Zenon DEF IInv, Quiet
<1>4. \A t \in Threads : On(t) \in Channels /\ On(t)' = On(t)
  BY ToolAssumption, Zenon DEF On, Threads
<1>5. Seen'
  <2>1. ASSUME NEW t \in Threads PROVE cursor'[t] <= Len(chan'[On(t)])
    <3>1. cursor[t] \in Nat /\ cursor[t] <= Len(chan[On(t)])
      BY Zenon DEF IInv, TypeOK, Seen
    <3> QED
      BY <1>1, <1>4, <3>1
  <2> QED
    BY <1>4, <2>1, Zenon DEF IInv, Seen, Writer
<1>6. Holding'
  <2> SUFFICES ASSUME NEW t \in Threads, pc'[t] = "write" PROVE Holds(t)'
    BY Zenon DEF Holding
  <2>1. Holds(t)
    BY Zenon DEF IInv, Holding
  <2>2. buf[t].pos \in 1 .. Len(chan[On(t)]) =>
          buf[t].pos \in 1 .. Len(chan'[On(t)]) /\ chan'[On(t)][buf[t].pos] = chan[On(t)][buf[t].pos]
    <3> DEFINE n == Len(chan[On(t)])
               m == Len(chan'[On(t)])
    <3>1. n \in Nat /\ m \in Nat /\ m >= n /\ \A i \in 1 .. n : chan'[On(t)][i] = chan[On(t)][i]
      BY <1>1, <1>4, Zenon
    <3> HIDE DEF n, m
    <3>2. \A i : i \in 1 .. n => i \in 1 .. m
      BY <3>1
    <3> QED
      BY <3>1, <3>2, Zenon DEF n, m
  <2> QED
    BY <1>4, <2>1, <2>2, Zenon DEF Holds
<1>7. Copied'
  <2> SUFFICES ASSUME NEW d \in Channels, NEW i \in DOMAIN out[d]
               PROVE  /\ out[d][i].size = ach_pipe_set_size(Size[out[d][i].frame])
                      /\ \/ out[d][i].pos \in 1 .. Len(chan'[d]) /\ out[d][i].frame = chan'[d][out[d][i].pos]
                         \/ /\ out[d][i].pos = 0 /\ out[d][i].frame = 0 /\ i = 1
                            /\ tool \in {"subscribe", "sync"}
    BY SMTT(30) DEF Copied
  <2>1. out[d][i].pos \in 1 .. Len(chan[d]) =>
          out[d][i].pos \in 1 .. Len(chan'[d]) /\ chan'[d][out[d][i].pos] = chan[d][out[d][i].pos]
    BY <1>1
  <2> QED
    BY <2>1, ZenonT(60) DEF IInv, Copied
<1>8. OutputInOrder'
  BY ZenonT(60) DEF IInv, OutputInOrder
<1> QED
  BY <1>2, <1>3, <1>5, <1>6, <1>7, <1>8, Zenon DEF IInv

\* Another program publishes.
LEMMA PublishStep ==
  ASSUME IInv, NEW c \in Channels, NEW f \in Frames, Publish(c, f)
  PROVE  IInv'
<1>1. /\ chan' = [chan EXCEPT ![c] = Append(@, f)] /\ pc' = Woken(c)
      /\ UNCHANGED <<tool, input, rd, out, cursor, max, buf, cmd, t0, put, cnt>>
  BY Zenon DEF Publish
<1>2. /\ DOMAIN pc' = Threads
      /\ \A t \in Threads : pc'[t] = pc[t] \/ (pc[t] = "wait" /\ pc'[t] = "get")
      /\ Main \in Threads /\ Channels \subseteq Threads
  BY <1>1, Zenon DEF Woken, Threads
<1>3. Places'
  BY <1>1, <1>2, ZenonT(60) DEF IInv, Places, Pipe, Cat
<1>4. Replies'
  BY <1>1, <1>2, Zenon DEF IInv, Replies
<1>5. Putting'
  <2>1. /\ \A n : Whole(n)' = Whole(n)
        /\ (CutShort' <=> CutShort) /\ (Aligned' <=> Aligned) /\ (Part' <=> Part)
    BY <1>1, SameInput, Zenon
  <2> QED
    BY <1>1, <1>2, <1>3, <2>1, ZenonT(60) DEF IInv, Putting, Places, Pipe
<1>6. rd' \in 0 .. Len(input) /\ put' \in Seq(Frames)
  BY <1>1, Zenon DEF IInv, TypeOK
<1> QED
  BY <1>1, <1>2, <1>3, <1>4, <1>5, <1>6, GrowStep, Zenon

\* The inputs are sequences of units, and of lines for achcat.
LEMMA InputUnits ==
  ASSUME TypeOK
  PROVE  /\ Len(input) \in Nat /\ tool \in Tool
         /\ tool \notin Cat => \A i \in 1 .. Len(input) : input[i] \in Unit
         /\ tool \in Cat => \A i \in 1 .. Len(input) : input[i].frame \in Frames
<1>1. tool \in Tools /\ tool \in Tool /\ input \in Inputs[tool]
  BY ToolAssumption, Zenon DEF TypeOK
<1>2. input \in Seq(IF tool \in Cat THEN DataUnit ELSE Unit)
  BY <1>1, InputAssumption, Zenon DEF Cat
<1>3. tool \in Cat => input \in Seq(DataUnit)
  BY <1>2, Zenon
<1>4. tool \notin Cat => input \in Seq(Unit)
  BY <1>2, Zenon
<1>5. \A u \in DataUnit : u.frame \in Frames
  BY Zenon DEF DataUnit
<1>6. CASE tool \in Cat
  BY <1>1, <1>3, <1>5, <1>6
<1>7. CASE tool \notin Cat
  BY <1>1, <1>4, <1>7
<1> QED
  BY <1>6, <1>7, Zenon

\* What is put is one frame more of the input.
LEMMA WholeGrows ==
  ASSUME TypeOK, NEW n \in Nat
  PROVE  /\ tool # "publish" => Append(Whole(n), input[n + 1].frame) = Whole(n + 1)
         /\ tool = "publish" /\ n % 2 = 1 =>
              Append(Whole(n), input[n + 1].frame) = Whole(n + 1)
         /\ tool = "publish" /\ n % 2 = 0 => Whole(n + 1) = Whole(n)
<1>1. ASSUME NEW k \in Nat, NEW g
      PROVE  Append([i \in 1 .. k |-> g[i]], g[k + 1]) = [i \in 1 .. k + 1 |-> g[i]]
  OBVIOUS
<1>2. CASE tool # "publish"
  <2> DEFINE g == [i \in 1 .. n + 1 |-> input[i].frame]
  <2>1. Whole(n) = [i \in 1 .. n |-> g[i]] /\ Whole(n + 1) = [i \in 1 .. n + 1 |-> g[i]]
    BY <1>2 DEF Whole
  <2>2. g[n + 1] = input[n + 1].frame
    OBVIOUS
  <2> HIDE DEF g
  <2> QED
    BY <1>1, <1>2, <2>1, <2>2
<1>3. CASE tool = "publish" /\ n % 2 = 1
  <2> DEFINE k == n \div 2
             g == [i \in 1 .. k + 1 |-> input[2 * i].frame]
  <2>1. k \in Nat /\ n = 2 * k + 1 /\ (n + 1) \div 2 = k + 1 /\ 2 * (k + 1) = n + 1
    BY <1>3
  <2>2. Whole(n) = [i \in 1 .. k |-> g[i]] /\ Whole(n + 1) = [i \in 1 .. k + 1 |-> g[i]]
    BY <1>3, <2>1 DEF Whole
  <2>3. g[k + 1] = input[n + 1].frame
    BY <2>1
  <2> HIDE DEF g, k
  <2> QED
    BY <1>1, <1>3, <2>1, <2>2, <2>3
<1>4. CASE tool = "publish" /\ n % 2 = 0
  <2>1. (n + 1) \div 2 = n \div 2
    BY <1>4
  <2> QED
    BY <1>4, <2>1 DEF Whole
<1> QED
  BY <1>2, <1>3, <1>4, Zenon

\* achpipe puts what it has read.
LEMMA PipePutStep ==
  ASSUME IInv, PipePut
  PROVE  IInv'
<1> DEFINE f == buf[Main].frame
<1>1. /\ tool = "publish" /\ pc[Main] = "put" /\ chan' = [chan EXCEPT ![Chan0] = Append(@, f)]
      /\ put' = Append(put, f) /\ pc' = [Woken(Chan0) EXCEPT ![Main] = "loop"]
      /\ UNCHANGED <<tool, input, rd, out, cursor, max, buf, cmd, t0>>
  BY Zenon DEF PipePut, Put, On
<1>2. f \in Frames /\ Chan0 \in Channels /\ Main \in Threads /\ put \in Seq(Frames)
  BY ToolAssumption, Zenon DEF IInv, TypeOK, Buffer, Threads
<1>3. /\ DOMAIN pc' = Threads /\ pc'[Main] = "loop"
      /\ \A t \in Threads \ {Main} : pc'[t] = pc[t] \/ (pc[t] = "wait" /\ pc'[t] = "get")
  BY <1>1, <1>2, Zenon DEF Woken
<1>4. Places'
  BY <1>1, <1>3, ToolAssumption, Zenon DEF IInv, Places, Pipe, Cat, Threads
<1>5. Putting'
  <2>1. \A n : Whole(n)' = Whole(n)
    BY <1>1, Zenon DEF Whole
  <2>2. /\ rd \in Nat /\ rd % 2 = 0 /\ rd >= 2 /\ put = Whole(rd - 1)
        /\ f = input[rd].frame \/ Part
    BY <1>1 DEF IInv, TypeOK, Putting
  <2>3. rd - 1 \in Nat /\ (rd - 1) % 2 = 1 /\ (rd - 1) + 1 = rd /\ rd > 0
    BY <2>2
  <2>4. f = input[rd].frame => put' = Whole(rd)
    BY <1>1, <2>2, <2>3, WholeGrows, Zenon DEF IInv
  <2>5. Part => CutShort' /\ ~ Aligned'
    <3> SUFFICES ASSUME Part PROVE CutShort' /\ ~ Aligned'
      BY Zenon
    <3>1. f # input[rd].frame
      <4>1. Size[f] \in Nat /\ Size[f] < Size[input[rd].frame]
        BY <1>2, SizeAssumption, Zenon DEF Part
      <4> QED
        BY <4>1
    <3> QED
      BY <1>1, <2>1, <2>2, <2>3, <3>1, Zenon DEF Part, CutShort, Aligned
  <2> QED
    BY <1>1, <1>3, <2>1, <2>2, <2>4, <2>5, Zenon DEF IInv, Putting
<1>6. Replies' /\ rd' \in 0 .. Len(input) /\ put' \in Seq(Frames)
  BY <1>1, <1>2 DEF IInv, TypeOK, Replies
<1> QED
  BY <1>1, <1>2, <1>3, <1>4, <1>5, <1>6, GrowStep, Zenon

\* achcat puts a line.
LEMMA CatLineStep ==
  ASSUME IInv, CatLine
  PROVE  IInv'
<1> DEFINE f == input[rd + 1].frame
<1>1. Chan0 \in Channels /\ Chan0 # Main /\ Chan0 \in Threads /\ Main \in Threads
  BY ToolAssumption, Zenon DEF Threads
<1>2. /\ pc[Chan0] = "line" /\ rd < Len(input) /\ rd' = rd + 1
      /\ chan' = [chan EXCEPT ![Chan0] = Append(@, f)]
      /\ put' = Append(put, f) /\ pc' = [Woken(Chan0) EXCEPT ![Chan0] = "line"]
      /\ UNCHANGED <<tool, input, out, cursor, max, buf, cmd, t0>>
  BY <1>1, ZenonT(60) DEF CatLine, Put, On
<1>3. tool \in Cat /\ tool \in Tool
  BY <1>1, <1>2, InputUnits, Zenon DEF IInv, Places, Cat, Pipe, Tool
<1>4. rd \in Nat /\ Len(input) \in Nat /\ f \in Frames /\ put \in Seq(Frames)
  <2>1. /\ Len(input) \in Nat /\ \A i \in 1 .. Len(input) : input[i].frame \in Frames
        /\ rd \in 0 .. Len(input) /\ put \in Seq(Frames)
    BY <1>3, InputUnits, Zenon DEF IInv, TypeOK
  <2> QED
    BY <1>2, <2>1
<1>5. /\ DOMAIN pc' = Threads /\ pc'[Chan0] = "line"
      /\ \A t \in Threads \ {Chan0} : pc'[t] = pc[t] \/ (pc[t] = "wait" /\ pc'[t] = "get")
  BY <1>1, <1>2, Zenon DEF Woken
<1>6. Places'
  BY <1>1, <1>2, <1>3, <1>5, Zenon DEF IInv, Places, Pipe, Cat, Threads
<1>7. Putting'
  <2>1. \A n : Whole(n)' = Whole(n)
    BY <1>2, Zenon DEF Whole
  <2>2. tool \in {"achcat", "achcat -p"} => put = Whole(rd)
    BY <1>1, <1>2, <1>3, Zenon DEF IInv, Putting, Places
  <2>3. tool \in {"achcat", "achcat -p"} => put' = Whole(rd + 1)
    BY <1>2, <1>4, <2>2, WholeGrows, Zenon DEF IInv
  <2> QED
    BY <1>2, <1>3, <2>1, <2>3, Zenon DEF Putting, Cat
<1>8. Replies' /\ rd' \in 0 .. Len(input) /\ put' \in Seq(Frames)
  <2>1. Replies'
    BY <1>2, <1>3, Zenon DEF Replies, Cat
  <2> HIDE DEF f
  <2> QED
    BY <1>2, <1>4, <2>1
<1> QED
  BY <1>1, <1>2, <1>4, <1>5, <1>6, <1>7, <1>8, GrowStep, ZenonT(60)

\* A step of one thread that neither puts nor writes.
LEMMA LocalStep ==
  ASSUME IInv, NEW t \in Threads, TypeOK', UNCHANGED <<tool, chan, input, out, t0, put>>,
         \A u \in Threads \ {t} : buf'[u] = buf[u] /\ cursor'[u] = cursor[u] /\ pc'[u] = pc[u],
         cursor'[t] >= cursor[t] \/ \A c \in Channels : out[c] = <<>>,
         cursor'[t] <= Len(chan[On(t)]),
         cmd' = "poll" => tool = "sync",
         pc'[t] = "write" => Holds(t)',
         Places', Replies', Putting'
  PROVE  IInv'
<1>1. \A u \in Threads : On(u)' = On(u) /\ On(u) \in Channels
  BY ToolAssumption, Zenon DEF On, Threads
<1>2. Quiet' /\ OutputInOrder' /\ Copied'
  BY ZenonT(60) DEF IInv, Quiet, OutputInOrder, Copied
<1>3. Seen'
  <2>1. \A u \in Threads : cursor'[u] <= Len(chan'[On(u)])
    BY Zenon DEF IInv, Seen
  <2>2. ASSUME NEW c \in Channels, NEW i \in DOMAIN out[c]
        PROVE  out[c][i].pos <= cursor'[Writer(c)]
    <3>1. Writer(c) \in Threads
      BY Zenon DEF Writer, Threads
    <3>2. out[c][i].pos \in Nat /\ out[c][i].pos <= cursor[Writer(c)]
      <4>1. out[c] \in Seq(Written)
        BY Zenon DEF IInv, TypeOK
      <4>2. out[c][i] \in Written
        BY <4>1
      <4> QED
        BY <4>2, Zenon DEF IInv, Seen, Written
    <3>3. \A u \in Threads : cursor[u] \in Nat /\ cursor'[u] \in Nat /\ cursor[u] <= cursor'[u]
      <4>0. out[c] # <<>>
        OBVIOUS
      <4>1. cursor \in [Threads -> Nat] /\ cursor' \in [Threads -> Nat] /\ out[c] # <<>>
        BY <4>0, Zenon DEF IInv, TypeOK
      <4> QED
        BY <4>1
    <3> QED
      BY <3>1, <3>2, <3>3
  <2> QED
    BY <1>1, <2>1, <2>2, Zenon DEF Seen, Writer
<1>4. Holding'
  <2> SUFFICES ASSUME NEW u \in Threads \ {t}, pc'[u] = "write" PROVE Holds(u)'
    BY Zenon DEF Holding
  <2> QED
    BY <1>1, ZenonT(60) DEF IInv, Holding, Holds
<1> QED
  BY <1>2, <1>3, <1>4, Zenon DEF IInv

\* A new buffer is a buffer, with nothing in it.
LEMMA NewBuffer ==
  ASSUME NEW n \in Nat
  PROVE  ach_pipe_alloc(n) \in Buffer /\ ach_pipe_alloc(n).frame = 0
BY SizeTypes, SizeAssumption, Zenon DEF ach_pipe_alloc, Buffer

\* ACH_OVERFLOW, and the start of achlog's threads.
LEMMA AllocStep ==
  ASSUME IInv, NEW t \in Threads, GetOverflow(t) \/ LogHeader(t)
  PROVE  IInv'
<1>1. /\ UNCHANGED <<tool, chan, input, rd, out, cursor, cmd, t0, put>>
      /\ pc[t] \in {"get", "header"} /\ DOMAIN pc' = Threads /\ pc'[t] = "get"
      /\ \A u \in Threads \ {t} : pc'[u] = pc[u]
  BY Zenon DEF GetOverflow, LogHeader, Goto, world, IInv, TypeOK
<1>2. PICK n \in Nat : max' \in [Threads -> Nat] /\ buf' = [buf EXCEPT ![t] = ach_pipe_alloc(n)]
  <2>1. CASE GetOverflow(t)
    <3>1. Pos(t) \in 1 .. Len(chan[On(t)]) /\ On(t) \in Channels
      BY <2>1, PosInChannel, ToolAssumption, Zenon DEF IInv, GetOverflow, On, Threads
    <3>2. chan[On(t)] \in Seq(Frames)
      BY <3>1, Zenon DEF IInv, TypeOK
    <3>3. chan[On(t)][Pos(t)] \in Frames
      BY <3>1, <3>2
    <3>4. FrameSize(t) \in Nat
      BY <3>3, SizeAssumption, Zenon DEF FrameSize
    <3> QED
      BY <2>1, <3>4, Zenon DEF GetOverflow, IInv, TypeOK
  <2>2. CASE LogHeader(t)
    BY <2>2, BoundAssumption, Zenon DEF LogHeader, IInv, TypeOK
  <2> QED
    BY <2>1, <2>2, Zenon
<1>3. ach_pipe_alloc(n) \in Buffer
  BY <1>2, NewBuffer, Zenon
<1>4. TypeOK'
  BY <1>1, <1>2, <1>3, Zenon DEF IInv, TypeOK
<1>5. /\ \A u \in Threads \ {t} : buf'[u] = buf[u] /\ cursor'[u] = cursor[u]
      /\ Main \in Threads /\ Channels \subseteq Threads
  BY <1>1, <1>2, Zenon DEF IInv, TypeOK, Threads
<1>6. Places'
  BY <1>1, <1>5, ToolAssumption, Zenon DEF IInv, Places, Pipe, Cat, Threads
<1>7. Replies'
  BY <1>1, <1>5, Zenon DEF IInv, Replies, Places, Pipe
<1>8. Putting'
  <2>1. \A k : Whole(k)' = Whole(k)
    BY <1>1, Zenon DEF Whole
  <2>2. tool # "publish"
    BY <1>1, Zenon DEF IInv, Places, Pipe, Threads
  <2> QED
    BY <1>1, <1>5, <2>1, <2>2, ZenonT(60) DEF IInv, Putting
<1>9. cursor'[t] >= cursor[t] /\ cursor'[t] <= Len(chan[On(t)]) /\ (cmd' = "poll" => tool = "sync")
  BY <1>1 DEF IInv, TypeOK, Seen, Quiet
<1> QED
  BY <1>1, <1>4, <1>5, <1>6, <1>7, <1>8, <1>9, LocalStep, ZenonT(60)

\* A frame, or after a failure nothing, is taken for a frame to write.
LEMMA TakeStep ==
  ASSUME IInv, NEW t \in Threads, NEW p \in Nat, Got(t, p), pc[t] \in {"get", "cat"},
         UNCHANGED <<tool, chan, input, rd, out, max, cmd, t0, put>>,
         \/ /\ p \in 1 .. Len(chan[On(t)]) /\ p >= cursor[t] /\ (cmd # "poll" => p > cursor[t])
            /\ cursor' = [cursor EXCEPT ![t] = p]
         \/ p = 0 /\ tool # "achlog" /\ pc[t] = "get" /\ t0 /\ cursor' = cursor
  PROVE  IInv'
<1> DEFINE f == IF p = 0 THEN 0 ELSE chan[On(t)][p]
<1>1. /\ buf' = [buf EXCEPT ![t] = [size |-> ach_pipe_set_size(Size[f]), frame |-> f, pos |-> p]]
      /\ pc' = [pc EXCEPT ![t] = "write"]
  BY Zenon DEF Got, Goto
<1>2. /\ On(t) \in Channels /\ t = Writer(On(t)) /\ (tool = "achlog" => t \in Channels)
      /\ tool # "achlog" => t = Main /\ On(t) = Chan0
  BY WritersPlace, Zenon DEF IInv
<1>3. f \in Frames /\ Size[f] \in Nat
  <2>1. chan[On(t)] \in Seq(Frames)
    BY <1>2, Zenon DEF IInv, TypeOK
  <2>2. f \in Frames
    BY <2>1, SizeAssumption
  <2> QED
    BY <2>2, SizeAssumption, Zenon
<1>4. [size |-> ach_pipe_set_size(Size[f]), frame |-> f, pos |-> p] \in Buffer
  BY <1>3, SizeTypes, Zenon DEF Buffer
<1>5. cursor' \in [Threads -> Nat]
  BY Zenon DEF IInv, TypeOK
<1>6. TypeOK'
  BY <1>1, <1>4, <1>5, Zenon DEF IInv, TypeOK
<1>7. /\ pc'[t] = "write" /\ buf'[t].size = ach_pipe_set_size(Size[f]) /\ buf'[t].frame = f
      /\ buf'[t].pos = p
      /\ \A u \in Threads \ {t} : buf'[u] = buf[u] /\ cursor'[u] = cursor[u] /\ pc'[u] = pc[u]
      /\ Main \in Threads /\ Channels \subseteq Threads
  BY <1>1, Zenon DEF IInv, TypeOK, Threads
<1>8. cursor'[t] >= cursor[t] /\ cursor'[t] <= Len(chan[On(t)]) /\ (p # 0 => cursor'[t] = p)
  BY DEF IInv, TypeOK, Seen
<1>9. Holds(t)'
  <2>1. On(t)' = On(t)
    BY Zenon DEF On
  <2>2. CASE p = 0
    <3>1. tool \in {"subscribe", "sync"} /\ out[Chan0] = <<>>
      <4>1. tool # "achlog" /\ pc[t] = "get" /\ t0 /\ t = Main /\ On(t) = Chan0 /\ tool \in Tool
        BY <1>2, <2>2, ToolAssumption DEF IInv, TypeOK
      <4>2. tool \in {"subscribe", "sync"}
        BY <4>1, Zenon DEF IInv, Places, Pipe, Cat, Tool
      <4> QED
        BY <4>1, <4>2, Zenon DEF IInv, Quiet, Pipe
    <3> QED
      BY <1>2, <1>7, <2>1, <2>2, <3>1, Zenon DEF Holds
  <2>3. CASE p # 0
    <3>1. p \in 1 .. Len(chan[On(t)]) /\ p >= cursor[t] /\ (cmd # "poll" => p > cursor[t]) /\ cursor'[t] = p
      BY <1>8, <2>3, Zenon
    <3>2. ASSUME NEW i \in DOMAIN out[On(t)]
          PROVE  out[On(t)][i].pos <= p /\ (out[On(t)][i].pos = p => tool = "sync")
      <4>1. out[On(t)][i] \in Written
        BY <1>2 DEF IInv, TypeOK
      <4>2. out[On(t)][i].pos \in Nat /\ out[On(t)][i].pos <= cursor[t] /\ cursor[t] \in Nat
        BY <1>2, <4>1, Zenon DEF IInv, TypeOK, Seen, Written
      <4> QED
        BY <3>1, <4>2 DEF IInv, Quiet
    <3> QED
      BY <1>7, <2>1, <2>3, <3>1, <3>2 DEF Holds
  <2> QED
    BY <2>2, <2>3, Zenon
<1>10. Places'
  BY <1>2, <1>7, ToolAssumption, Zenon DEF IInv, Places, Pipe, Cat, Threads
<1>11. Replies'
  BY <1>7, Zenon DEF IInv, Replies, Places, Pipe
<1>12. Putting'
  <2>1. \A k : Whole(k)' = Whole(k)
    BY Zenon DEF Whole
  <2>2. tool # "publish"
    BY Zenon DEF IInv, Places, Pipe, Threads
  <2> QED
    BY <1>2, <1>7, <2>1, <2>2, Zenon DEF IInv, Putting
<1>13. cmd' = "poll" => tool = "sync"
  BY Zenon DEF IInv, Quiet
<1> QED
  BY <1>6, <1>7, <1>8, <1>9, <1>10, <1>11, <1>12, <1>13, LocalStep, Zenon

\* A get returns a frame, to achlog and achpipe or to achcat.
LEMMA GetStep ==
  ASSUME IInv, NEW t \in Threads, GetFrame(t) \/ (CatGet /\ t = Main)
  PROVE  IInv'
<1>1. /\ Available(t) /\ pc[t] \in {"get", "cat"} /\ Got(t, Pos(t))
      /\ cursor' = [cursor EXCEPT ![t] = Pos(t)]
      /\ UNCHANGED <<tool, chan, input, rd, out, max, cmd, t0, put>>
  BY Zenon DEF GetFrame, CatGet, world
<1>2. /\ Pos(t) \in 1 .. Len(chan[On(t)]) /\ Pos(t) >= cursor[t] /\ (cmd # "poll" => Pos(t) > cursor[t])
      /\ Pos(t) \in Nat
  BY <1>1, PosInChannel DEF IInv
<1> QED
  BY <1>1, <1>2, TakeStep, Zenon

\* A get fails or waits, or a write fails.
LEMMA GetFailsStep ==
  ASSUME IInv, NEW t \in Threads, GetFails(t) \/ GetWaits(t) \/ WriteFails(t)
  PROVE  IInv'
<1>1. /\ UNCHANGED <<tool, chan, input, rd, out, cursor, max, cmd, t0, put, cnt>>
      /\ pc[t] \in {"get", "write"}
  BY Zenon DEF GetFails, GetWaits, WriteFails, world
<1>2. /\ tool = "achlog" => t \in Channels /\ t # Main
      /\ tool # "achlog" => t = Main
      /\ tool \in Tool
  BY <1>1, WritersPlace, ToolAssumption, Zenon DEF IInv, TypeOK
<1>3. CASE GetFails(t) /\ tool # "achlog" /\ t0 /\ Got(t, 0)
  BY <1>1, <1>3, TakeStep, Zenon DEF GetFails
<1>4. CASE buf' = buf /\ Goto(t, "flush") /\ tool = "achlog"
  BY <1>1, <1>2, <1>4, GotoStep, Zenon DEF kept
<1>5. CASE GetWaits(t)
  <2>1. Goto(t, "wait") /\ pc[t] = "get" /\ buf' = buf
    BY <1>5, Zenon DEF GetWaits
  <2>2. tool # "achlog" => tool \in {"subscribe", "sync"}
    BY <1>2, <2>1, Zenon DEF IInv, Places, Tool, Pipe, Cat
  <2> QED
    BY <1>1, <1>2, <2>1, <2>2, GotoStep, Zenon DEF kept
<1>6. CASE WriteFails(t) /\ tool = "achcat"
  BY <1>1, <1>2, <1>6, GotoStep, Zenon DEF kept, WriteFails, Cat
<1>7. CASE WriteFails(t) /\ tool \notin {"achlog", "achcat"}
  BY <1>1, <1>2, <1>7, EndStep, Zenon DEF kept, WriteFails
<1>8. CASE GetFails(t) /\ Ends("abort") /\ buf' = buf /\ tool # "achlog"
  <2>1. pc[Main] = "get" /\ tool \in Pipe
    BY <1>2, <1>8, Zenon DEF GetFails, IInv, Places, Tool, Pipe, Cat
  <2> QED
    BY <1>1, <1>8, <2>1, EndStep, Zenon DEF kept
<1> QED
  BY <1>3, <1>4, <1>5, <1>6, <1>7, <1>8, Zenon DEF GetFails, WriteFails

\* A frame is written.
LEMMA WriteStep ==
  ASSUME IInv, NEW t \in Threads, WriteFrame(t) \/ (CatWrite /\ t = Main)
  PROVE  IInv'
<1> DEFINE c == On(t)
           b == buf[t]
<1>1. PICK n \in Nat :
        out' = [out EXCEPT ![c] = Append(@, [size |-> b.size, frame |-> b.frame, pos |-> b.pos, len |-> n])]
  <2>1. b \in Buffer
    BY Zenon DEF IInv, TypeOK
  <2>2. CASE WriteFrame(t)
    <3>1. ach_pipe_get_size(b.size) \subseteq Nat
      <4>1. ach_pipe_get_size(b.size) \subseteq 0 .. Weight[5] - 1
        BY <2>1, SizeTypes, Zenon DEF Buffer
      <4> QED
        BY <4>1
    <3> QED
      BY <2>2, <3>1, Zenon DEF WriteFrame
  <2>3. CASE CatWrite /\ t = Main
    <3>1. Size[b.frame] \in Nat
      BY <2>1, SizeAssumption, Zenon DEF Buffer
    <3> QED
      BY <2>3, <3>1, Zenon DEF CatWrite, On
  <2> QED
    BY <2>2, <2>3, Zenon
<1> DEFINE w == [size |-> b.size, frame |-> b.frame, pos |-> b.pos, len |-> n]
<1>2. /\ UNCHANGED <<tool, chan, input, rd, cursor, max, buf, cmd, put>>
      /\ t0' \in {t0, FALSE} /\ pc[t] = "write"
      /\ \/ tool = "achlog" /\ Goto(t, "get")
         \/ tool \in {"subscribe", "sync"} /\ t0' = FALSE /\ Goto(t, "loop")
         \/ tool \in {"achcat", "achcat -s"} /\ Goto(t, "cat")
  <2>1. WriteFrame(t) => tool \in {"achlog", "subscribe", "sync"}
    <3>1. pc[t] = "write" => (tool # "achlog" => t = Main) /\ tool \in Tool
      BY WritersPlace, ToolAssumption, Zenon DEF IInv, TypeOK
    <3> QED
      BY <3>1, Zenon DEF WriteFrame, IInv, Places, Tool, Pipe, Cat
  <2> QED
    BY <2>1, Zenon DEF WriteFrame, CatWrite, world
<1>3. /\ c \in Channels /\ t = Writer(c) /\ (tool = "achlog" => t \in Channels)
      /\ tool # "achlog" => t = Main /\ c = Chan0
  BY <1>2, WritersPlace, Zenon DEF IInv
<1>4. /\ Holds(t) /\ w \in Written /\ w.size = b.size /\ w.frame = b.frame /\ w.pos = b.pos
      /\ b \in Buffer
  <2>1. b \in Buffer
    BY Zenon DEF IInv, TypeOK
  <2> QED
    BY <1>1, <1>2, <2>1, Zenon DEF IInv, Holding, Written, Buffer
<1>5. PICK l \in {"get", "loop", "cat"} :
        /\ Goto(t, l) /\ (l = "get" => tool = "achlog")
        /\ l = "loop" => tool \in {"subscribe", "sync"}
        /\ l = "cat" => tool \in {"achcat", "achcat -s"}
  BY <1>2, Zenon
<1>6. /\ DOMAIN pc' = Threads /\ pc'[t] = l /\ (\A u \in Threads \ {t} : pc'[u] = pc[u])
      /\ Main \in Threads /\ Channels \subseteq Threads
  BY <1>5, Zenon DEF Goto, IInv, TypeOK, Threads
<1> DEFINE k == Len(out[c])
<1>7. /\ k \in Nat /\ DOMAIN out[c] = 1 .. k /\ DOMAIN out'[c] = 1 .. k + 1 /\ Len(out'[c]) = k + 1
      /\ out'[c][k + 1] = w /\ (\A i \in 1 .. k : out'[c][i] = out[c][i])
      /\ \A d \in Channels \ {c} : out'[d] = out[d]
  <2>1. out[c] \in Seq(Written)
    BY <1>3, Zenon DEF IInv, TypeOK
  <2>2. out'[c] = Append(out[c], w) /\ \A d \in Channels \ {c} : out'[d] = out[d]
    BY <1>1, <1>3, Zenon DEF IInv, TypeOK
  <2> HIDE DEF w, c
  <2> QED
    BY <1>4, <2>1, <2>2
<1>8. TypeOK'
  <2>1. out' \in [Channels -> Seq(Written)]
    <3> HIDE DEF w, c
    <3> QED
      BY <1>1, <1>3, <1>4 DEF IInv, TypeOK, w
  <2> QED
    BY <1>2, <1>6, <2>1, Zenon DEF IInv, TypeOK
<1> HIDE DEF w, b, k
<1>9. Places'
  BY <1>2, <1>3, <1>5, <1>6, ToolAssumption, Zenon DEF IInv, Places, Pipe, Cat, Threads
<1>10. Quiet'
  BY <1>2, <1>3, <1>7, Zenon DEF IInv, Quiet, Pipe
<1>11. /\ w.size = ach_pipe_set_size(Size[w.frame]) /\ w.pos \in Nat
       /\ \/ /\ w.pos \in 1 .. Len(chan[c]) /\ w.frame = chan[c][w.pos] /\ w.pos <= cursor[t]
             /\ \A i \in 1 .. k : out[c][i].pos <= w.pos /\ (out[c][i].pos = w.pos => tool = "sync")
          \/ w.pos = 0 /\ w.frame = 0 /\ k = 0 /\ tool \in {"subscribe", "sync"}
  BY <1>4, <1>7, Zenon DEF Holds, Written, b, k
<1>12. Seen'
  <2>1. ASSUME NEW d \in Channels, NEW i \in DOMAIN out'[d]
        PROVE  out'[d][i].pos <= cursor[Writer(d)]
    <3>1. CASE d = c /\ i = k + 1
      <4>1. cursor[t] \in Nat
        BY Zenon DEF IInv, TypeOK
      <4> QED
        BY <1>3, <1>7, <1>11, <3>1, <4>1
    <3>2. CASE ~ (d = c /\ i = k + 1)
      <4>1. i \in DOMAIN out[d] /\ out'[d][i] = out[d][i]
        BY <1>7, <2>1, <3>2
      <4> QED
        BY <4>1, Zenon DEF IInv, Seen
    <3> QED
      BY <3>1, <3>2, ZenonT(60)
  <2> QED
    BY <1>2, <2>1, Zenon DEF IInv, Seen, Writer, On
<1>13. Holding'
  <2> SUFFICES ASSUME NEW u \in Threads, pc'[u] = "write" PROVE Holds(u)'
    BY Zenon DEF Holding
  <2>1. u # t /\ pc[u] = "write" /\ Holds(u)
    BY <1>5, <1>6, Zenon DEF IInv, Holding
  <2>2. On(u) # c /\ On(u) \in Channels
    BY <1>3, <2>1, WritersPlace, Zenon DEF IInv, Writer
  <2>3. On(u)' = On(u) /\ out'[On(u)] = out[On(u)]
    BY <1>7, <2>2, Zenon DEF On
  <2> QED
    BY <1>2, <2>1, <2>3, Zenon DEF Holds
<1>14. Copied' /\ OutputInOrder'
  <2>1. ASSUME NEW d \in Channels, NEW i \in DOMAIN out'[d]
        PROVE  /\ out'[d][i].size = ach_pipe_set_size(Size[out'[d][i].frame])
               /\ \/ out'[d][i].pos \in 1 .. Len(chan[d]) /\ out'[d][i].frame = chan[d][out'[d][i].pos]
                  \/ out'[d][i].pos = 0 /\ out'[d][i].frame = 0 /\ i = 1 /\ tool \in {"subscribe", "sync"}
    <3>1. CASE d = c /\ i = k + 1
      BY <1>7, <1>11, <3>1
    <3>2. CASE ~ (d = c /\ i = k + 1)
      <4>1. i \in DOMAIN out[d] /\ out'[d][i] = out[d][i]
        BY <1>7, <2>1, <3>2
      <4> QED
        BY <4>1, ZenonT(60) DEF IInv, Copied
    <3> QED
      BY <3>1, <3>2, Zenon
  <2>2. ASSUME NEW d \in Channels, NEW i \in DOMAIN out'[d], NEW j \in DOMAIN out'[d], i < j
        PROVE  /\ out'[d][i].pos <= out'[d][j].pos
               /\ out'[d][i].pos = out'[d][j].pos => tool = "sync"
    <3>1. CASE d = c /\ j = k + 1
      <4>1. i \in 1 .. k /\ out'[d][i] = out[c][i] /\ out'[d][j] = w /\ k # 0
        BY <1>7, <2>2, <3>1
      <4> QED
        BY <1>11, <3>1, <4>1, Zenon
    <3>2. CASE ~ (d = c /\ j = k + 1)
      <4>1. /\ i \in DOMAIN out[d] /\ out'[d][i] = out[d][i]
            /\ j \in DOMAIN out[d] /\ out'[d][j] = out[d][j]
        BY <1>7, <2>2, <3>2, SMTT(30)
      <4> QED
        BY <2>2, <4>1, Zenon DEF IInv, OutputInOrder
    <3> QED
      BY <3>1, <3>2, Zenon
  <2> QED
    BY <1>2, <2>1, <2>2, ZenonT(60) DEF Copied, OutputInOrder
<1>15. Replies'
  <2>1. k = Len(out[c])
    BY Zenon DEF k
  <2> QED
    BY <1>2, <1>3, <1>5, <1>6, <1>7, <2>1, SMTT(30) DEF IInv, Replies, TypeOK
<1>16. Putting'
  <2>1. \A m : Whole(m)' = Whole(m)
    BY <1>2, Zenon DEF Whole
  <2> QED
    BY <1>2, <1>3, <1>6, <2>1, Zenon DEF IInv, Putting
<1> QED
  BY <1>8, <1>9, <1>10, <1>12, <1>13, <1>14, <1>15, <1>16, Zenon DEF IInv

\* achpipe opens the channel.
LEMMA PipeOpenStep ==
  ASSUME IInv, PipeOpen
  PROVE  IInv'
<1>1. /\ tool \in Pipe /\ pc[Main] = "open"
      /\ cursor' = [cursor EXCEPT ![Main] = IF tool = "publish" THEN 0 ELSE Len(chan[Chan0])]
      /\ buf' = [buf EXCEPT ![Main] = ach_pipe_alloc(InitSize)] /\ pc' = [pc EXCEPT ![Main] = "loop"]
      /\ UNCHANGED <<tool, chan, input, rd, out, max, cmd, t0, put>>
  BY Zenon DEF PipeOpen, PipeTool, Pipe, Goto, world
<1>2. /\ Main \in Threads /\ On(Main) = Chan0 /\ Chan0 \in Channels /\ Len(chan[Chan0]) \in Nat
      /\ ach_pipe_alloc(InitSize) \in Buffer
  <2>1. Main \in Threads /\ On(Main) = Chan0 /\ Chan0 \in Channels
    BY ToolAssumption, Zenon DEF Threads, On
  <2>2. chan[Chan0] \in Seq(Frames)
    BY <2>1, Zenon DEF IInv, TypeOK
  <2> QED
    BY <2>1, <2>2, BoundAssumption, NewBuffer
<1>3. TypeOK'
  BY <1>1, <1>2, Zenon DEF IInv, TypeOK
<1>4. /\ pc'[Main] = "loop"
      /\ \A u \in Threads \ {Main} : buf'[u] = buf[u] /\ cursor'[u] = cursor[u] /\ pc'[u] = pc[u]
  BY <1>1, <1>2, Zenon DEF IInv, TypeOK
<1>5. /\ cursor'[Main] >= cursor[Main] \/ \A c \in Channels : out[c] = <<>>
      /\ cursor'[Main] <= Len(chan[On(Main)])
  BY <1>1, <1>2 DEF IInv, TypeOK, Seen, Quiet, Pipe
<1>6. Places'
  BY <1>1, <1>4, ToolAssumption, Zenon DEF IInv, Places, Pipe, Cat, Threads
<1>7. Replies' /\ (cmd' = "poll" => tool = "sync")
  BY <1>1, <1>4, Zenon DEF IInv, Replies, Quiet
<1>8. Putting'
  <2>1. \A m : Whole(m)' = Whole(m)
    BY <1>1, Zenon DEF Whole
  <2>2. tool = "publish" => rd = 0 /\ rd % 2 = 0 /\ put = Whole(rd) /\ 1 .. rd = {}
    BY <1>1 DEF IInv, Putting, Aligned
  <2> QED
    BY <1>1, <1>4, <2>1, <2>2, Zenon DEF Putting, Pipe
<1> QED
  BY <1>1, <1>2, <1>3, <1>4, <1>5, <1>6, <1>7, <1>8, LocalStep, Zenon

\* achpipe -c reads a command.
LEMMA CommandStep ==
  ASSUME IInv, Command
  PROVE  IInv'
<1>1. /\ tool = "sync" /\ pc[Main] = "read" /\ rd < Len(input) /\ rd' = rd + 1
      /\ cmd' \in {"next", "last", "poll"} /\ pc' = [pc EXCEPT ![Main] = "get"]
      /\ UNCHANGED <<tool, chan, input, out, cursor, max, buf, t0, put>>
  BY Zenon DEF Command, Goto, world
<1>2. Main \in Threads /\ rd \in 0 .. Len(input) /\ Len(input) \in Nat
  BY InputUnits, Zenon DEF Threads, IInv, TypeOK
<1>3. TypeOK'
  BY <1>1, <1>2 DEF IInv, TypeOK
<1>4. pc'[Main] = "get" /\ \A u \in Threads \ {Main} : pc'[u] = pc[u]
  BY <1>1, <1>2, Zenon DEF IInv, TypeOK
<1>5. cursor'[Main] >= cursor[Main] /\ cursor'[Main] <= Len(chan[On(Main)])
  BY <1>1, <1>2 DEF IInv, TypeOK, Seen
<1>6. Places'
  BY <1>1, <1>4, ToolAssumption DEF IInv, Places, Pipe, Cat, Threads
<1>7. Replies'
  BY <1>1, <1>2, <1>4 DEF IInv, Replies
<1>8. Putting'
  BY <1>1, Zenon DEF Putting
<1> QED
  BY <1>1, <1>2, <1>3, <1>4, <1>5, <1>6, <1>7, <1>8, LocalStep, Zenon

\* achpipe -p reads a header.
LEMMA ReadHeaderStep ==
  ASSUME IInv, ReadHeader
  PROVE  IInv' /\ cnt' \in Nat
<1> DEFINE u == input[rd + 1]
<1>1. /\ tool = "publish" /\ rd < Len(input) /\ rd' = rd + 1 /\ u.kind = "header" /\ Aligned
      /\ pc[Main] = "read" /\ pc' = [pc EXCEPT ![Main] = "data"]
      /\ cnt' \in ach_pipe_get_size(u.size) /\ buf' = [buf EXCEPT ![Main].size = u.size]
      /\ max' = [max EXCEPT ![Main] = IF cnt' > @ THEN cnt' ELSE @]
      /\ UNCHANGED <<tool, chan, input, out, cursor, cmd, t0, put>>
  BY Zenon DEF ReadHeader, Goto
<1>2. Main \in Threads /\ rd \in 0 .. Len(input) /\ rd \in Nat /\ Len(input) \in Nat /\ u \in Unit
  <2>1. Main \in Threads /\ rd \in 0 .. Len(input)
    BY Zenon DEF IInv, Threads, TypeOK
  <2>2. Len(input) \in Nat /\ \A i \in 1 .. Len(input) : input[i] \in Unit
    BY <1>1, InputUnits, Zenon DEF IInv, Cat
  <2> QED
    BY <1>1, <2>1, <2>2
<1>3. u.size \in Bytes
  <2> HIDE DEF u
  <2>1. u.size \in [1 .. 8 -> 0 .. Base - 1]
    BY <1>1, <1>2, Zenon DEF Unit, DataUnit
  <2> QED
    BY <2>1, Zenon DEF Bytes, SizeBytes
<1>4. cnt' \in Nat
  <2>1. cnt' \in 0 .. Weight[5] - 1 /\ Weight[5] \in Nat
    BY <1>1, <1>3, SizeTypes, Zenon
  <2> QED
    BY <2>1
<1>5. TypeOK'
  <2> HIDE DEF u
  <2>1. max' \in [Threads -> Nat] /\ buf' \in [Threads -> Buffer]
    BY <1>1, <1>2, <1>3, <1>4, Zenon DEF IInv, TypeOK, Buffer
  <2>2. rd' \in 0 .. Len(input') /\ DOMAIN pc' = Threads
    BY <1>1, <1>2 DEF IInv, TypeOK
  <2> QED
    BY <1>1, <2>1, <2>2, Zenon DEF IInv, TypeOK
<1>6. /\ \A v \in Threads \ {Main} : buf'[v] = buf[v] /\ pc'[v] = pc[v] /\ cursor'[v] = cursor[v]
      /\ pc'[Main] = "data"
  BY <1>1, <1>2, Zenon DEF IInv, TypeOK
<1>7. cursor'[Main] >= cursor[Main] /\ cursor'[Main] <= Len(chan[On(Main)]) /\ (cmd' = "poll" => tool = "sync")
  BY <1>1, <1>2 DEF IInv, TypeOK, Seen, Quiet
<1>8. Places' /\ Replies'
  <2>1. \A c \in Channels : pc'[c] = pc[c]
    BY <1>6, ToolAssumption, Zenon DEF Threads
  <2>2. tool' = "publish" /\ pc'[Main] \in {"data", "put"}
    BY <1>1, <1>6, Zenon
  <2>3. \A c \in Channels : pc[c] \in {"none", "exit", "abort"}
    BY <1>1, Zenon DEF IInv, Places, Pipe
  <2> QED
    BY <2>1, <2>2, <2>3, Zenon DEF Places, Replies, Pipe, Cat
<1>9. Putting'
  <2>1. \A m : Whole(m)' = Whole(m)
    BY <1>1, Zenon DEF Whole
  <2>2. /\ put = Whole(rd) /\ rd % 2 = 0
        /\ \A i \in 1 .. rd : input[i].kind = IF i % 2 = 1 THEN "header" ELSE "data"
    BY <1>1, Zenon DEF IInv, Putting
  <2>3. \A i \in 1 .. rd + 1 : input[i].kind = IF i % 2 = 1 THEN "header" ELSE "data"
    BY <1>1, <1>2, <2>2, SMTT(30)
  <2>4. Whole(rd + 1) = put /\ (rd + 1) % 2 = 1
    <3>1. Whole(rd + 1) = Whole(rd)
      BY <1>1, <1>2, <2>2, WholeGrows, Zenon DEF IInv
    <3> QED
      BY <1>2, <2>2, <3>1
  <2> QED
    BY <1>1, <1>6, <2>1, <2>3, <2>4, Zenon DEF Putting
<1> QED
  BY <1>1, <1>2, <1>4, <1>5, <1>6, <1>7, <1>8, <1>9, LocalStep, Zenon

\* achpipe -p reads the data behind a header: the frame, unless its size takes a
\* fifth byte.
LEMMA ReadDataStep ==
  ASSUME IInv, ReadData
  PROVE  IInv'
<1> DEFINE u == input[rd + 1]
           size == Size[u.frame]
<1>1. /\ tool = "publish" /\ rd < Len(input) /\ rd' = rd + 1 /\ u.kind = "data"
      /\ pc[Main] = "data" /\ pc' = [pc EXCEPT ![Main] = "put"]
      /\ UNCHANGED <<tool, chan, input, out, cursor, max, cmd, t0, put>>
  BY Zenon DEF ReadData, Goto, world
<1>2. PICK f \in Frames : /\ Size[f] = cnt /\ cnt <= size /\ (cnt = size => f = u.frame)
                         /\ buf' = [buf EXCEPT ![Main].frame = f]
  BY Zenon DEF ReadData
<1>3. Main \in Threads /\ rd \in 0 .. Len(input) /\ rd \in Nat /\ Len(input) \in Nat /\ u \in Unit
  <2>1. Main \in Threads /\ rd \in 0 .. Len(input)
    BY Zenon DEF IInv, Threads, TypeOK
  <2>2. Len(input) \in Nat /\ \A i \in 1 .. Len(input) : input[i] \in Unit
    BY <1>1, InputUnits, Zenon DEF IInv, Cat
  <2> QED
    BY <1>1, <2>1, <2>2
<1>4. u.frame \in Frames /\ size \in Nat
  <2>1. u.frame \in Frames
    <3> HIDE DEF u
    <3> QED
      BY <1>1, <1>3, Zenon DEF Unit, DataUnit
  <2> QED
    BY <2>1, SizeAssumption, Zenon
<1>5. TypeOK'
  <2>1. buf' \in [Threads -> Buffer]
    BY <1>2, <1>3, Zenon DEF IInv, TypeOK, Buffer
  <2>2. rd' \in 0 .. Len(input') /\ DOMAIN pc' = Threads
    BY <1>1, <1>3 DEF IInv, TypeOK
  <2> QED
    BY <1>1, <2>1, <2>2, Zenon DEF IInv, TypeOK
<1>6. /\ \A v \in Threads \ {Main} : buf'[v] = buf[v] /\ pc'[v] = pc[v] /\ cursor'[v] = cursor[v]
      /\ pc'[Main] = "put" /\ buf'[Main].frame = f
  BY <1>1, <1>2, <1>3, Zenon DEF IInv, TypeOK, Buffer
<1>7. cursor'[Main] >= cursor[Main] /\ cursor'[Main] <= Len(chan[On(Main)]) /\ (cmd' = "poll" => tool = "sync")
  BY <1>1, <1>3 DEF IInv, TypeOK, Seen, Quiet
<1>8. Places' /\ Replies'
  <2>1. \A c \in Channels : pc'[c] = pc[c]
    BY <1>6, ToolAssumption, Zenon DEF Threads
  <2>2. tool' = "publish" /\ pc'[Main] \in {"data", "put"}
    BY <1>1, <1>6, Zenon
  <2>3. \A c \in Channels : pc[c] \in {"none", "exit", "abort"}
    BY <1>1, Zenon DEF IInv, Places, Pipe
  <2> QED
    BY <2>1, <2>2, <2>3, Zenon DEF Places, Replies, Pipe, Cat
<1>9. /\ put = Whole(rd) /\ rd % 2 = 1 /\ cnt \in ach_pipe_get_size(input[rd].size)
      /\ \A i \in 1 .. rd : input[i].kind = IF i % 2 = 1 THEN "header" ELSE "data"
  BY <1>1, Zenon DEF IInv, Putting
<1>10. /\ (rd + 1) % 2 = 0 /\ rd + 1 >= 2 /\ (rd + 1) - 1 = rd
       /\ rd \in 1 .. rd /\ rd + 1 \in 2 .. Len(input)
  BY <1>1, <1>3, <1>9
<1>11. size < Weight[5] => f = u.frame
  <2> SUFFICES ASSUME size < Weight[5] PROVE cnt = size
    BY <1>2, Zenon
  <2>1. input[rd].kind = "header"
    BY <1>9, <1>10, Zenon
  <2>2. tool \in Tools /\ input \in Inputs[tool]
    BY Zenon DEF IInv, TypeOK
  <2>3. input[rd].size = ach_pipe_set_size(size)
    BY <1>1, <1>10, <2>1, <2>2, StreamAssumption, Zenon
  <2>4. ach_pipe_get_size(input[rd].size) = {size}
    BY <1>4, <2>3, SizeRoundTrip, Zenon
  <2> QED
    BY <1>9, <2>4, Zenon
<1>12. Putting'
  <2>1. \A m : Whole(m)' = Whole(m)
    BY <1>1, Zenon DEF Whole
  <2>2. \A i \in 1 .. rd + 1 : input[i].kind = IF i % 2 = 1 THEN "header" ELSE "data"
    BY <1>1, <1>3, <1>9, <1>10
  <2>3. f = u.frame \/ (size >= Weight[5] /\ Size[f] < size)
    <3>1. Weight[5] \in Nat /\ cnt \in Nat
      BY <1>2, SizeTypes, SizeAssumption, Zenon
    <3> HIDE DEF u, size
    <3> QED
      BY <1>2, <1>4, <1>11, <3>1
  <2>4. buf'[Main].frame = input'[rd'].frame \/ Part'
    BY <1>1, <1>2, <1>6, <2>3, Zenon DEF Part
  <2> QED
    BY <1>1, <1>6, <1>9, <1>10, <2>1, <2>2, <2>4, Zenon DEF Putting
<1> QED
  BY <1>1, <1>3, <1>5, <1>6, <1>7, <1>8, <1>12, LocalStep, Zenon

\* achlog starts its threads.
LEMMA LogStartStep ==
  ASSUME IInv, LogStart
  PROVE  IInv'
<1>1. /\ tool = "achlog" /\ pc' = [t \in Threads |-> IF t = Main THEN "sigwait" ELSE "header"]
      /\ UNCHANGED kept
  BY Zenon DEF LogStart, kept, world
<1>2. /\ DOMAIN pc' = Threads /\ pc'[Main] = "sigwait" /\ Main \notin Channels
      /\ \A c \in Channels : pc'[c] = "header"
      /\ \A t \in Threads : pc'[t] # "write"
  BY <1>1, ToolAssumption, Zenon DEF Threads
<1>3. Places' /\ Replies' /\ Putting'
  BY <1>1, <1>2, Zenon DEF Places, Replies, Putting, kept, Pipe, Cat
<1> QED
  BY <1>1, <1>2, <1>3, MoveStep, Zenon

\* achcat starts its loops.
LEMMA CatOpenStep ==
  ASSUME IInv, CatOpen
  PROVE  IInv'
<1>1. /\ tool \in Cat /\ pc[Main] = "open" /\ UNCHANGED kept
      /\ pc' = [pc EXCEPT ![Main] = IF tool = "achcat -p" THEN "none" ELSE "cat",
                          ![Chan0] = IF tool = "achcat -s" THEN "none" ELSE "line"]
  BY Zenon DEF CatOpen, kept, world, Cat
<1>2. Main \in Threads /\ Chan0 \in Threads /\ Chan0 # Main /\ Chan0 \in Channels /\ Main \notin Channels
  BY ToolAssumption, Zenon DEF Threads
<1>3. /\ DOMAIN pc' = Threads /\ pc'[Main] = IF tool = "achcat -p" THEN "none" ELSE "cat"
      /\ pc'[Chan0] \in {"none", "line"}
      /\ \A t \in Threads \ {Main, Chan0} : pc'[t] = pc[t]
  BY <1>1, <1>2, Zenon DEF IInv, TypeOK
<1>4. \A t \in Threads : pc'[t] = "write" => pc[t] = "write"
  BY <1>3, Zenon
<1>5. Places'
  BY <1>1, <1>2, <1>3, Zenon DEF IInv, Places, kept, Pipe, Cat, Threads
<1>6. Replies' /\ Putting'
  <2>1. \A m : Whole(m)' = Whole(m)
    BY <1>1, Zenon DEF Whole, kept
  <2> QED
    BY <1>1, <2>1, Zenon DEF IInv, Replies, Putting, kept, Cat
<1> QED
  BY <1>1, <1>3, <1>4, <1>5, <1>6, MoveStep, Zenon

\* A thread that takes lines is achcat's, and its main thread has not ended.
LEMMA LineOfCat ==
  ASSUME IInv, pc[Chan0] = "line"
  PROVE  tool \in Cat /\ pc[Main] \notin {"put", "abort", "exit"}
<1>1. Chan0 \in Channels /\ tool \in Tool
  BY ToolAssumption, Zenon DEF IInv, TypeOK
<1>2. tool \in Cat
  BY <1>1, Zenon DEF IInv, Places, Pipe, Cat, Tool
<1> QED
  BY <1>1, <1>2, Zenon DEF IInv, Places, Cat

\* The steps that end a tool.
LEMMA EndingStep ==
  ASSUME IInv,
         \/ LogDies \/ LogJoin \/ PipeOpenFails \/ PipeSignaled \/ FreadInterrupted \/ CommandFails
         \/ ReadFails \/ PipePutFails \/ CatEnds \/ (CatGetFails /\ tool # "achcat")
  PROVE  IInv'
<1>1. UNCHANGED kept
  BY ZenonT(60) DEF kept, world, LogDies, LogJoin, PipeOpenFails, PipeSignaled, FreadInterrupted, CommandFails,
    ReadFails, PipePutFails, CatEnds, CatGetFails
<1>2. CASE LogDies \/ LogJoin \/ PipeSignaled \/ ReadFails \/ (CatGetFails /\ tool # "achcat")
  <2>1. Ends("exit") /\ pc[Main] \in {"open", "cancel", "loop", "read", "data", "cat"}
    BY <1>2, Zenon DEF LogDies, LogJoin, PipeSignaled, ReadFails, CatGetFails
  <2> QED
    BY <1>1, <2>1, EndStep, Zenon
<1>3. CASE PipeOpenFails \/ CommandFails \/ PipePutFails
  <2>1. Ends("abort") /\ tool \in Pipe /\ pc[Main] \in {"open", "read", "put"}
    BY <1>3, Zenon DEF PipeOpenFails, CommandFails, PipePutFails, PipeTool, Pipe
  <2> QED
    BY <1>1, <2>1, EndStep, Zenon
<1>4. CASE CatEnds
  <2>1. Ends("exit") /\ pc[Chan0] = "line"
    BY <1>4, Zenon DEF CatEnds
  <2> QED
    BY <1>1, <2>1, LineOfCat, EndStep, Zenon
<1>5. CASE FreadInterrupted
  <2>1. pc[Main] \in {"read", "data"} /\ (Ends("exit") \/ (tool = "sync" /\ Ends("abort")))
    BY <1>5, Zenon DEF FreadInterrupted
  <2> QED
    BY <1>1, <2>1, EndStep, Zenon DEF Pipe
<1> QED
  BY <1>2, <1>3, <1>4, <1>5, Zenon

\* A line is read and not put.
LEMMA CatPutFailsStep ==
  ASSUME IInv, CatPutFails
  PROVE  IInv'
<1>1. /\ Ends("exit") /\ pc[Chan0] = "line" /\ rd < Len(input) /\ rd' = rd + 1
      /\ UNCHANGED <<tool, chan, input, out, cursor, max, buf, cmd, t0, put>>
  BY Zenon DEF CatPutFails, world
<1>2. tool \in Cat /\ pc[Main] # "exit"
  BY <1>1, LineOfCat, Zenon
<1>3. /\ Main \in Threads /\ Channels \subseteq Threads /\ DOMAIN pc' = Threads
      /\ \A t \in Threads : pc'[t] = "exit"
  BY <1>1, Zenon DEF Ends, Threads
<1>4. Places' /\ Replies'
  BY <1>1, <1>2, <1>3, Zenon DEF Places, Replies, Pipe, Cat
<1>5. rd' \in 0 .. Len(input) /\ rd' - 1 = rd
  <2>1. rd \in 0 .. Len(input) /\ Len(input) \in Nat
    BY InputUnits, Zenon DEF IInv, TypeOK
  <2> QED
    BY <1>1, <2>1
<1>6. Putting'
  <2>1. \A n : Whole(n)' = Whole(n)
    BY <1>1, Zenon DEF Whole
  <2> QED
    BY <1>1, <1>2, <1>3, <1>5, <2>1, Zenon DEF IInv, Putting, Cat
<1> QED
  BY <1>1, <1>3, <1>4, <1>5, <1>6, ReadOnStep, Zenon

\* The other steps that move a thread.
LEMMA MovingStep ==
  ASSUME IInv,
         \/ LogSignaled \/ PipeNext \/ (CatGetFails /\ tool = "achcat")
         \/ \E t \in Threads : LogFlush(t)
  PROVE  IInv'
<1>1. UNCHANGED kept /\ Main \in Threads /\ tool \in Tool
  BY ToolAssumption, Zenon DEF kept, world, LogSignaled, PipeNext, CatGetFails, LogFlush, Threads, IInv, TypeOK
<1>2. CASE LogSignaled
  <2>1. Goto(Main, "cancel") /\ tool = "achlog"
    BY <1>1, <1>2, Zenon DEF LogSignaled, IInv, Places, Tool, Pipe, Cat
  <2> QED
    BY <1>1, <2>1, GotoStep, Zenon
<1>3. CASE PipeNext
  <2>1. /\ pc[Main] = "loop"
        /\ \/ tool = "subscribe" /\ Goto(Main, "get")
           \/ tool \in {"publish", "sync"} /\ Goto(Main, "read")
    BY <1>3, Zenon DEF PipeNext, PipeTool
  <2> QED
    BY <1>1, <2>1, GotoStep, Zenon
<1>4. CASE CatGetFails /\ tool = "achcat"
  BY <1>1, <1>4, GotoStep, Zenon DEF CatGetFails, Cat
<1>5. ASSUME NEW t \in Threads, LogFlush(t) PROVE IInv'
  <2>1. Goto(t, "done") /\ tool = "achlog" /\ t # Main
    BY <1>1, <1>5, Zenon DEF LogFlush, IInv, Places, Tool, Pipe, Cat, Threads
  <2> QED
    BY <1>1, <2>1, GotoStep, Zenon
<1> QED
  BY <1>2, <1>3, <1>4, <1>5, Zenon

\* The steps that leave what the tools have alone.
LEMMA QuietStep ==
  ASSUME IInv,
         \/ \E c \in Channels : LogCancel(c) \/ Corrupt(c)
         \/ Signal
  PROVE  IInv'
<1>1. /\ UNCHANGED kept
      /\ pc' = pc \/ \E c \in Channels : pc' = Woken(c)
  BY Zenon DEF kept, LogCancel, Corrupt, Signal
<1> QED
  BY <1>1, WakeStep, ToolAssumption, Zenon

-----------------------------------------------------------------------------
(* The invariant and what follows from it. *)

\* Nothing was read or written at first.
LEMMA InitIInv == Init => IInv
<1> SUFFICES ASSUME Init PROVE IInv
  BY Zenon
<1>1. TypeOK
  <2>1. ach_pipe_alloc(0) \in Buffer
    BY NewBuffer, Zenon
  <2>2. tool \in Tools /\ input \in Inputs[tool] /\ input \in Seq(IF tool \in Cat THEN DataUnit ELSE Unit)
    BY InputAssumption, Zenon DEF Init, Cat
  <2>3. Len(input) \in Nat
    BY <2>2
  <2> QED
    BY <2>1, <2>2, <2>3, BoundAssumption DEF Init, TypeOK
<1>2. Main \in Threads /\ Chan0 \in Channels /\ Main \notin Channels /\ Channels \subseteq Threads
  BY ToolAssumption, Zenon DEF Threads
<1>3. pc[Main] = "open" /\ \A c \in Channels : pc[c] = "none"
  BY <1>2, Zenon DEF Init
<1>4. Places /\ Quiet
  BY <1>2, <1>3, ZenonT(60) DEF Init, Places, Quiet, Pipe, Cat
<1>5. Seen /\ Holding /\ Copied /\ OutputInOrder
  <2>1. \A c \in Channels : out[c] = <<>> /\ Len(chan[c]) = 0
    BY Zenon DEF Init
  <2>2. \A t \in Threads : cursor[t] = 0 /\ On(t) \in Channels /\ pc[t] # "write"
    BY <1>2, Zenon DEF Init, On, Threads
  <2> QED
    BY <2>1, <2>2 DEF Seen, Holding, Copied, OutputInOrder
<1>6. Replies
  BY <1>2, <1>3, Zenon DEF Init, Replies
<1>7. Putting
  <2>1. Whole(0) = <<>>
    BY DEF Whole
  <2>2. rd = 0 /\ put = Whole(rd) /\ rd % 2 = 0 /\ 1 .. rd = {}
    BY <2>1 DEF Init
  <2> QED
    BY <1>3, <2>2, Zenon DEF Putting
<1> QED
  BY <1>1, <1>4, <1>5, <1>6, <1>7, Zenon DEF IInv

\* Every step keeps the invariant.
LEMMA NextIInv == IInv /\ [Next]_vars => IInv'
<1> SUFFICES ASSUME IInv, [Next]_vars PROVE IInv'
  BY Zenon
<1>1. CASE UNCHANGED vars
  <2>1. UNCHANGED kept /\ pc' = pc
    BY <1>1, Zenon DEF vars, kept
  <2> QED
    BY <2>1, WakeStep, ToolAssumption, Zenon
<1>2. CASE MainThread
  <2>1. Main \in Threads
    BY Zenon DEF Threads
  <2> QED
    BY <1>2, <2>1, LogStartStep, EndingStep, MovingStep, QuietStep, PipeOpenStep,
       PipePutStep, CatOpenStep, GetStep, WriteStep, ZenonT(60) DEF MainThread
<1>5. CASE Reading
  BY <1>5, CommandStep, EndingStep, ReadHeaderStep, ReadDataStep, CatLineStep, CatPutFailsStep, Zenon DEF Reading
<1>3. ASSUME NEW t \in Threads, Thread(t) PROVE IInv'
  BY <1>3, AllocStep, GetStep, GetFailsStep, WriteStep, MovingStep, Zenon DEF Thread
<1>4. CASE World
  BY <1>4, PublishStep, QuietStep, Zenon DEF World
<1> QED
  BY <1>1, <1>2, <1>3, <1>4, <1>5, Zenon DEF Next

\* For any frames, commands, buffers and depths, and whatever is published or
\* broken meanwhile: what the tools write of a channel is in the order of the
\* channel, and only achpipe -c writes a frame again.
THEOREM OutputIsInOrder == Spec => []OutputInOrder
<1>1. IInv => OutputInOrder
  BY Zenon DEF IInv
<1> QED
  BY <1>1, InitIInv, NextIInv, PTL DEF Spec

\* achpipe -c has answered every command it has read when it reads the next.
THEOREM EveryCommandAnswered == Spec => []OneReplyPerCommand
<1>1. IInv => OneReplyPerCommand
  BY Zenon DEF IInv, Replies, OneReplyPerCommand
<1> QED
  BY <1>1, InitIInv, NextIInv, PTL DEF Spec

\* Buffers have the room they need.
LEMMA RoomStep == IInv /\ Room /\ [Next]_vars => Room'
<1> SUFFICES ASSUME IInv, Room, [Next]_vars PROVE Room'
  BY Zenon
<1>0. /\ Main \in Threads /\ Chan0 \in Channels /\ 0 \in Frames /\ Size[0] = 0
      /\ \A f \in Frames : Size[f] \in Nat
  BY ToolAssumption, SizeAssumption, Zenon DEF Threads
<1>1. \A t \in Threads : buf[t] \in Buffer /\ buf[t].frame \in Frames /\ max[t] \in Nat
  BY Zenon DEF IInv, TypeOK, Buffer
<1>2. CASE UNCHANGED <<tool, buf, max, out, cnt>> /\ (tool = "publish" /\ pc'[Main] = "data" => pc[Main] = "data")
  BY <1>2, Zenon DEF Room, Length
<1>3. ASSUME NEW t \in Threads, NEW b \in Buffer, NEW m \in Nat,
             buf' = [buf EXCEPT ![t] = b], max' = [max EXCEPT ![t] = m], Size[b.frame] <= m,
             UNCHANGED <<tool, out>>, tool = "publish" => pc'[Main] # "data"
      PROVE  Room'
  <2>1. \A u \in Threads : buf'[u] = (IF u = t THEN b ELSE buf[u]) /\ max'[u] = IF u = t THEN m ELSE max[u]
    BY <1>3, Zenon DEF IInv, TypeOK
  <2> QED
    BY <1>3, <2>1, ZenonT(60) DEF Room, Length
<1>4. ASSUME NEW t \in Threads, NEW n \in Nat, buf[t].frame \in Frames, Length(n, Size[buf[t].frame]), On(t) \in Channels,
             out' = [out EXCEPT ![On(t)] = Append(@, [size |-> buf[t].size, frame |-> buf[t].frame,
                                                      pos |-> buf[t].pos, len |-> n])],
             UNCHANGED <<tool, buf, max>>, tool # "publish"
      PROVE  Room'
  <2> DEFINE w == [size |-> buf[t].size, frame |-> buf[t].frame, pos |-> buf[t].pos, len |-> n]
  <2>1. ASSUME NEW c \in Channels, NEW i \in DOMAIN out'[c]
        PROVE  Length(out'[c][i].len, Size[out'[c][i].frame])
    <3>1. out[c] \in Seq(Written) /\ Length(w.len, Size[w.frame])
      BY <1>4, Zenon DEF IInv, TypeOK
    <3>2. out'[c] = IF c = On(t) THEN Append(out[c], w) ELSE out[c]
      BY <1>4, Zenon DEF IInv, TypeOK
    <3> HIDE DEF w
    <3>3. out'[c][i] = w \/ (i \in DOMAIN out[c] /\ out'[c][i] = out[c][i])
      BY <2>1, <3>1, <3>2
    <3> QED
      BY <3>1, <3>3, Zenon DEF Room
  <2>2. \A k, size : Length(k, size)' <=> Length(k, size)
    BY <1>4, Zenon DEF Length
  <2> QED
    BY <1>4, <2>1, <2>2, Zenon DEF Room
<1>5. \A t \in Threads : max = [max EXCEPT ![t] = max[t]]
  BY Zenon DEF IInv, TypeOK
<1>6. CASE \/ UNCHANGED vars \/ LogStart \/ LogDies \/ LogSignaled \/ LogJoin \/ PipeOpenFails
           \/ PipeSignaled \/ PipeNext \/ FreadInterrupted \/ CommandFails \/ ReadFails \/ PipePutFails
           \/ CatOpen \/ CatEnds \/ CatPutFails \/ CatGetFails
           \/ \E t \in Threads : GetWaits(t) \/ WriteFails(t) \/ LogFlush(t)
  <2>1. UNCHANGED <<tool, buf, max, out, cnt>>
    BY <1>6, ZenonT(60) DEF vars, world, LogStart, LogDies, LogSignaled, LogJoin, PipeOpenFails, PipeSignaled, PipeNext,
      FreadInterrupted, CommandFails, ReadFails, PipePutFails, CatOpen, CatEnds, CatPutFails, CatGetFails, GetWaits,
      WriteFails, LogFlush
  <2>2. tool = "publish" /\ pc'[Main] = "data" => pc[Main] = "data"
    BY <1>0, <1>6, ToolAssumption, ZenonT(60) DEF vars, LogStart, LogDies, LogSignaled, LogJoin, PipeOpenFails,
      PipeSignaled, PipeNext, FreadInterrupted, CommandFails, ReadFails, PipePutFails, CatOpen, CatEnds,
      CatPutFails, CatGetFails, GetWaits, WriteFails, LogFlush, Ends, Goto, IInv, TypeOK
  <2> QED
    BY <1>2, <2>1, <2>2, Zenon
<1>7. CASE \/ Command \/ PipePut \/ CatLine \/ Signal
           \/ \E c \in Channels : LogCancel(c) \/ Corrupt(c) \/ \E f \in Frames : Publish(c, f)
  <2>1. UNCHANGED <<tool, buf, max, out, cnt>>
    BY <1>7, Zenon DEF world, Command, PipePut, CatLine, Signal, LogCancel, Corrupt, Publish
  <2>2. tool = "publish" /\ pc'[Main] = "data" => pc[Main] = "data"
    BY <1>0, <1>7, ToolAssumption, Zenon DEF Command, PipePut, CatLine, Signal, LogCancel, Corrupt, Publish, Put, Woken,
      Goto, IInv, TypeOK
  <2> QED
    BY <1>2, <2>1, <2>2, Zenon
<1>8. ASSUME NEW t \in Threads, GetOverflow(t) \/ LogHeader(t) \/ (PipeOpen /\ t = Main)
      PROVE  Room'
  <2>1. PICK n \in Nat, m \in Nat :
          buf' = [buf EXCEPT ![t] = ach_pipe_alloc(n)] /\ max' = [max EXCEPT ![t] = m]
    <3>1. CASE GetOverflow(t)
      <4>1. Pos(t) \in 1 .. Len(chan[On(t)]) /\ On(t) \in Channels
        BY <3>1, PosInChannel, ToolAssumption, Zenon DEF IInv, GetOverflow, On, Threads
      <4>2. chan[On(t)] \in Seq(Frames)
        BY <4>1, Zenon DEF IInv, TypeOK
      <4>3. FrameSize(t) \in Nat
        BY <1>0, <4>1, <4>2 DEF FrameSize
      <4> QED
        BY <3>1, <4>3, Zenon DEF GetOverflow
    <3>2. CASE LogHeader(t) \/ (PipeOpen /\ t = Main)
      BY <1>1, <1>5, <3>2, BoundAssumption, Zenon DEF LogHeader, PipeOpen
    <3> QED
      BY <1>8, <3>1, <3>2, Zenon
  <2>2. ach_pipe_alloc(n) \in Buffer /\ ach_pipe_alloc(n).frame = 0
    BY NewBuffer, Zenon
  <2>3. UNCHANGED <<tool, out>> /\ (tool = "publish" => pc'[Main] # "data")
    <3>1. UNCHANGED <<tool, out>>
      BY <1>8, Zenon DEF GetOverflow, LogHeader, PipeOpen, world
    <3>2. pc[t] \in {"get", "header", "open"} /\ (pc' = pc \/ \E l \in {"get", "loop"} : Goto(t, l))
      BY <1>8, Zenon DEF GetOverflow, LogHeader, PipeOpen
    <3>3. tool = "publish" => t = Main
      BY <3>2, Zenon DEF IInv, Places, Pipe, Threads
    <3> QED
      BY <1>0, <3>1, <3>2, <3>3, Zenon DEF Goto, IInv, TypeOK
  <2>4. Size[ach_pipe_alloc(n).frame] <= m
    BY <1>0, <2>1, <2>2
  <2> QED
    BY <1>3, <2>1, <2>2, <2>3, <2>4, Zenon
<1>9. ASSUME NEW t \in Threads, NEW p \in Nat, Got(t, p), pc[t] \in {"get", "cat"},
             UNCHANGED <<tool, out, max>>,
             p # 0 => p \in 1 .. Len(chan[On(t)]) /\ Size[chan[On(t)][p]] <= max[t]
      PROVE  Room'
  <2> DEFINE f == IF p = 0 THEN 0 ELSE chan[On(t)][p]
             b == [size |-> ach_pipe_set_size(Size[f]), frame |-> f, pos |-> p]
  <2>1. On(t) \in Channels
    BY ToolAssumption, Zenon DEF On, Threads
  <2>2. f \in Frames /\ Size[f] <= max[t]
    <3>1. chan[On(t)] \in Seq(Frames)
      BY <2>1, Zenon DEF IInv, TypeOK
    <3> QED
      BY <1>0, <1>1, <1>9, <3>1
  <2>3. b \in Buffer /\ b.frame = f
    BY <1>0, <2>2, SizeTypes, Zenon DEF Buffer
  <2>4. buf' = [buf EXCEPT ![t] = b] /\ pc' = [pc EXCEPT ![t] = "write"]
    BY <1>9, Zenon DEF Got, Goto
  <2>5. tool = "publish" => pc'[Main] # "data"
    BY <1>0, <1>9, <2>4, Zenon DEF IInv, TypeOK, Places, Pipe, Threads
  <2> HIDE DEF b, f
  <2> QED
    BY <1>1, <1>3, <1>5, <1>9, <2>2, <2>3, <2>4, <2>5, Zenon
<1>10. ASSUME NEW t \in Threads, GetFrame(t) \/ (CatGet /\ t = Main)
       PROVE  Room'
  <2>1. /\ Available(t) /\ pc[t] \in {"get", "cat"} /\ Got(t, Pos(t)) /\ FrameSize(t) <= max[t]
        /\ UNCHANGED <<tool, out, max>>
    BY <1>10, Zenon DEF GetFrame, CatGet, world
  <2>2. Pos(t) \in 1 .. Len(chan[On(t)]) /\ Pos(t) \in Nat
    BY <2>1, PosInChannel DEF IInv
  <2> QED
    BY <1>9, <2>1, <2>2, Zenon DEF FrameSize
<1>11. ASSUME NEW t \in Threads, GetFails(t)
       PROVE  Room'
  <2>1. CASE Got(t, 0)
    BY <1>9, <1>11, <2>1, Zenon DEF GetFails, world
  <2>2. CASE buf' = buf
    <3>1. UNCHANGED <<tool, buf, max, out, cnt>>
      BY <1>11, <2>2, Zenon DEF GetFails, world
    <3>2. ~ Got(t, 0) => (pc'[Main] = "data" => pc[Main] = "data")
      BY <1>0, <1>11, Zenon DEF GetFails, Ends, Goto, IInv, TypeOK
    <3> QED
      BY <1>2, <2>1, <3>1, <3>2, Zenon
  <2> QED
    BY <1>11, <2>1, <2>2, Zenon DEF GetFails
<1>12. ASSUME NEW t \in Threads, WriteFrame(t) \/ (CatWrite /\ t = Main)
       PROVE  Room'
  <2>1. pc[t] = "write" /\ UNCHANGED <<tool, buf, max>>
    BY <1>12, Zenon DEF WriteFrame, CatWrite, world
  <2>2. Holds(t) /\ On(t) \in Channels /\ tool # "publish"
    BY <2>1, WritersPlace, Zenon DEF IInv, Holding, Places, Pipe
  <2> DEFINE size == Size[buf[t].frame]
  <2>3. PICK n \in Nat :
          /\ out' = [out EXCEPT ![On(t)] = Append(@, [size |-> buf[t].size, frame |-> buf[t].frame,
                                                     pos |-> buf[t].pos, len |-> n])]
          /\ Length(n, size)
    <3>1. CASE WriteFrame(t)
      <4> DEFINE sizes == ach_pipe_get_size(buf[t].size)
      <4>1. /\ tool \notin {"achcat", "achcat -s"} /\ size \in Nat /\ Weight[5] \in Nat
            /\ sizes \subseteq 0 .. Weight[5] - 1
        BY <1>0, <1>1, <3>1, SizeTypes, Zenon DEF WriteFrame, Buffer
      <4>2. size < Weight[5] => sizes = {size}
        BY <2>2, <4>1, SizeRoundTrip, Zenon DEF Holds
      <4> HIDE DEF size, sizes
      <4>3. /\ \A n \in sizes : n \in Nat /\ (size < Weight[5] \/ n < size)
            /\ size < Weight[5] => \A n \in sizes : n = size
        <5>1. \A n \in sizes : n \in 0 .. Weight[5] - 1
          BY <4>1, Zenon
        <5>2. size < Weight[5] => \A n \in sizes : n = size
          BY <4>2, Zenon
        <5>3. \A a, k \in Nat : \A n \in 0 .. k - 1 : n \in Nat /\ (a < k \/ n < a)
          OBVIOUS
        <5> QED
          BY <4>1, <5>1, <5>2, <5>3, Zenon
      <4>4. \A n \in sizes : n \in Nat /\ Length(n, size)
        BY <4>1, <4>3, Zenon DEF Length
      <4> QED
        BY <3>1, <4>4, Zenon DEF WriteFrame, sizes
    <3>2. CASE CatWrite /\ t = Main
      <4>1. tool \in {"achcat", "achcat -s"} /\ size \in Nat
        BY <1>0, <1>1, <3>2, Zenon DEF CatWrite
      <4>2. Length(size, size)
        BY <4>1, Zenon DEF Length
      <4> QED
        BY <3>2, <4>1, <4>2, Zenon DEF CatWrite, On
    <3> QED
      BY <1>12, <3>1, <3>2, Zenon
  <2> QED
    BY <1>0, <1>1, <1>4, <2>1, <2>2, <2>3, Zenon
<1>13. CASE ReadHeader
  <2> DEFINE b == input[rd + 1].size
  <2>1. /\ tool = "publish" /\ buf' = [buf EXCEPT ![Main].size = b] /\ UNCHANGED <<tool, out>>
        /\ max' = [max EXCEPT ![Main] = IF cnt' > @ THEN cnt' ELSE @]
    BY <1>13, Zenon DEF ReadHeader
  <2>2. cnt' \in Nat
    BY <1>13, ReadHeaderStep, Zenon
  <2> HIDE DEF b
  <2>3. /\ \A t \in Threads : buf'[t].frame = buf[t].frame /\ max'[t] \in Nat /\ max'[t] >= max[t]
        /\ cnt' <= max'[Main]
    BY <1>0, <1>1, <2>1, <2>2, SMTT(30) DEF IInv, TypeOK, Buffer
  <2>4. \A t \in Threads : Size[buf'[t].frame] <= max'[t]
    BY <1>0, <1>1, <2>3 DEF Room
  <2> QED
    BY <2>1, <2>3, <2>4, Zenon DEF Room, Length
<1>14. CASE ReadData
  <2>1. PICK f \in Frames : Size[f] = cnt /\ buf' = [buf EXCEPT ![Main].frame = f]
    BY <1>14, Zenon DEF ReadData
  <2>2. /\ pc[Main] = "data" /\ tool = "publish" /\ pc' = [pc EXCEPT ![Main] = "put"]
        /\ UNCHANGED <<tool, out, max>>
    BY <1>14, Zenon DEF ReadData, Goto, world
  <2>3. Size[f] <= max[Main]
    BY <2>1, <2>2, Zenon DEF Room
  <2>4. /\ \A t \in Threads \ {Main} : buf'[t].frame = buf[t].frame
        /\ buf'[Main].frame = f /\ pc'[Main] = "put"
    BY <1>0, <2>1, <2>2, Zenon DEF IInv, TypeOK, Buffer
  <2> QED
    BY <1>0, <2>2, <2>3, <2>4, Zenon DEF Room, Length
<1> QED
  BY <1>0, <1>6, <1>7, <1>8, <1>10, <1>11, <1>12, <1>13, <1>14, ZenonT(60) DEF Next, MainThread, Reading, Thread, World

\* At first they are empty.
LEMMA InitRoom == Init => Room
<1> SUFFICES ASSUME Init PROVE Room
  BY Zenon
<1>1. \A t \in Threads : Size[buf[t].frame] <= max[t]
  BY NewBuffer, SizeAssumption, BoundAssumption DEF Init
<1>2. pc[Main] = "open" /\ \A c \in Channels : out[c] = <<>>
  BY Zenon DEF Init, Threads
<1> QED
  BY <1>1, <1>2 DEF Room

\* What anybody reads of a stream or a log that the tools write is what was
\* published, header, data and length; only a frame whose size takes a fifth byte
\* is cut.
THEOREM OutputIsFaithful == Spec => []OutputFaithful
<1>1. IInv /\ Room => OutputFaithful
  <2> SUFFICES ASSUME IInv, Room, NEW c \in Channels, NEW i \in DOMAIN out[c]
               PROVE  /\ out[c][i].size = ach_pipe_set_size(Size[out[c][i].frame])
                      /\ Size[out[c][i].frame] < Weight[5] =>
                           ach_pipe_get_size(out[c][i].size) = {Size[out[c][i].frame]}
                      /\ Length(out[c][i].len, Size[out[c][i].frame])
                      /\ \/ out[c][i].pos > 0 /\ out[c][i].frame = chan[c][out[c][i].pos]
                         \/ out[c][i].pos = 0 /\ out[c][i].frame = 0 /\ i = 1 /\ PipeTool
    BY Zenon DEF OutputFaithful, Length
  <2>1. out[c] \in Seq(Written) /\ Len(chan[c]) \in Nat
    BY DEF IInv, TypeOK
  <2>2. out[c][i] \in Written
    BY <2>1
  <2>3. Size[out[c][i].frame] \in Nat
    BY <2>2, SizeAssumption, Zenon DEF Written
  <2>4. out[c][i].size = ach_pipe_set_size(Size[out[c][i].frame])
    BY Zenon DEF IInv, Copied
  <2>5. Size[out[c][i].frame] < Weight[5] => ach_pipe_get_size(out[c][i].size) = {Size[out[c][i].frame]}
    BY <2>3, <2>4, SizeRoundTrip, Zenon
  <2>6. Length(out[c][i].len, Size[out[c][i].frame])
    BY Zenon DEF Room
  <2>7. \/ out[c][i].pos > 0 /\ out[c][i].frame = chan[c][out[c][i].pos]
        \/ out[c][i].pos = 0 /\ out[c][i].frame = 0 /\ i = 1 /\ PipeTool
    BY <2>1 DEF IInv, Copied, PipeTool
  <2> QED
    BY <2>4, <2>5, <2>6, <2>7, Zenon
<1> QED
  BY <1>1, InitRoom, InitIInv, NextIInv, RoomStep, PTL DEF Spec

\* achpipe -p and achcat -p put what the input holds, each frame once and in
\* order, none that was cut off but one whose size takes a fifth byte, and never
\* have more in a buffer than it holds.
THEOREM InputIsPublished == Spec => []PublishesInput
<1>1. IInv /\ Room => PublishesInput
  BY Zenon DEF IInv, Putting, Room, PublishesInput, Threads
<1> QED
  BY <1>1, InitRoom, InitIInv, NextIInv, RoomStep, PTL DEF Spec

-----------------------------------------------------------------------------
\* Channel c as the publish/subscribe channel that Ach promises: one that keeps Depth
\* frames, whatever their sizes.
Channel(c) == INSTANCE AchPubSub WITH
  MaxFrames <- Depth, MaxBytes <- Depth, Handles <- Threads, Lengths <- {1}, Sizes <- Nat,
  start <- [i \in 1 .. Len(chan[c]) + 1 |-> i - 1], answer <- [call |-> "none"]

\* What a command asks of ach_get().
GetOptions == [last |-> cmd \in {"last", "poll"}, copy |-> cmd = "poll"]

\* A thread finds a frame to get exactly if that channel has one for it, and the
\* frame is the one that the channel gives.
GetsAsPromised ==
  \A t \in Threads :
    /\ Available(t) <=> ~ Channel(On(t))!Nothing(t, GetOptions)
    /\ Available(t) => Channel(On(t))!Wanted(t, GetOptions, Pos(t))

\* What AchTools assumes of the channels it reads from is what AchPubSub promises, and so
\* what the ring does: which frame is next, and when there is none.
THEOREM ToolsUseTheChannel == Spec => []GetsAsPromised
<1>1. IInv => GetsAsPromised
  <2> SUFFICES ASSUME IInv, NEW t \in Threads
               PROVE  /\ Available(t) <=> ~ Channel(On(t))!Nothing(t, GetOptions)
                      /\ Available(t) => Channel(On(t))!Wanted(t, GetOptions, Pos(t))
    BY Zenon DEF GetsAsPromised
  <2> DEFINE n == Len(chan[On(t)])
             first == [i \in 1 .. n + 1 |-> i - 1]
  <2>1. n \in Nat /\ cursor[t] \in Nat /\ cursor[t] <= n /\ Depth \in Nat \ {0}
    BY ToolAssumption, BoundAssumption, SMTT(30) DEF IInv, TypeOK, Seen, On, Threads
  <2>2. Channel(On(t))!newest = n
    BY <2>1 DEF Channel!newest
  <2>3. ASSUME NEW s \in 1 .. n
        PROVE  Channel(On(t))!Retained(s) <=> s > n - Depth
    <3>1. first[n + 1] - first[s] = n + 1 - s
      BY <2>1
    <3> QED
      BY <2>1, <2>2, <3>1 DEF Channel!Retained
  <2>4. Available(t) <=> ~ Channel(On(t))!Nothing(t, GetOptions)
    <3>1. Available(t) <=> n > (IF cmd = "poll" THEN 0 ELSE cursor[t])
      BY Zenon DEF Available
    <3>2. Channel(On(t))!Nothing(t, GetOptions) <=> n = 0 \/ (cursor[t] = n /\ cmd # "poll")
      BY <2>2, Zenon DEF Channel!Nothing, GetOptions
    <3> HIDE DEF n
    <3> QED
      BY <2>1, <3>1, <3>2
  <2>5. ASSUME Available(t)
        PROVE  Channel(On(t))!Wanted(t, GetOptions, Pos(t))
    <3>1. Pos(t) \in 1 .. n /\ (cmd # "poll" => Pos(t) > cursor[t])
      BY <2>5, PosInChannel, Zenon DEF IInv
    <3>2. Pos(t) = IF cmd \in {"last", "poll"} THEN n ELSE IF cursor[t] + 1 > n - Depth THEN cursor[t] + 1 ELSE n - Depth + 1
      BY Zenon DEF Pos, NextPos
    <3>3. n > (IF cmd = "poll" THEN 0 ELSE cursor[t])
      BY <2>5, Zenon DEF Available
    <3>4. CASE cmd \in {"last", "poll"}
      BY <2>2, <3>2, <3>4, Zenon DEF Channel!Wanted, GetOptions
    <3>5. CASE cmd \notin {"last", "poll"}
      <4> DEFINE p == Pos(t)
      <4>1. p \in 1 .. n /\ p > cursor[t] /\ p > n - Depth /\ (p > cursor[t] + 1 => p - 1 \in 1 .. n /\ ~ (p - 1 > n - Depth))
        <5> HIDE DEF n, p
        <5>1. p \in 1 .. n /\ p > cursor[t]
          BY <3>1, <3>5, Zenon DEF p
        <5>2. p = IF cursor[t] + 1 > n - Depth THEN cursor[t] + 1 ELSE n - Depth + 1
          BY <3>2, <3>5, Zenon DEF p
        <5> QED
          BY <2>1, <5>1, <5>2
      <4>2. Channel(On(t))!Retained(p) /\ (p > cursor[t] + 1 => ~ Channel(On(t))!Retained(p - 1))
        BY <2>3, <4>1, Zenon
      <4>3. cursor[t] # n
        <5> HIDE DEF n
        <5> QED
          BY <2>1, <3>3, <3>5
      <4> QED
        BY <2>2, <3>5, <4>1, <4>2, <4>3, Zenon DEF Channel!Wanted, GetOptions
    <3> QED
      BY <3>4, <3>5, Zenon
  <2> QED
    BY <2>4, <2>5, Zenon
<1> QED
  BY <1>1, InitIInv, NextIInv, PTL DEF Spec

=============================================================================
