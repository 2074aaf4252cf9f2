----------------------------- MODULE AchdProofs -----------------------------
(***************************************************************************)
(* Proofs about achd, for any options, frames, connections and depths.     *)
(***************************************************************************)
EXTENDS Achd, TLAPS

Unit == {"hdr", "data"} \X Nat
Link == [req : BOOLEAN, resp : {"none", "ok", "error"}, data : Seq(Unit),
         shut : SUBSET {"client", "server"}, lost : BOOLEAN]
Put == [hdr : Nat, data : Nat, conn : Nat, cut : BOOLEAN]

\* The types of the variables that carry frames.
TypeOK ==
  /\ opts \in Options /\ published \in Nat /\ published <= Len(opts.frames)
  /\ nconn \in Nat /\ sock \in {0, nconn} /\ nconn <= MaxConns
  /\ sig \in BOOLEAN /\ chan \in BOOLEAN
  /\ DOMAIN pc = Ends /\ buf \in [Ends -> Nat \X Nat] /\ cap \in [Ends -> BOOLEAN]
  /\ cursor \in [Ends -> Nat] /\ \A e \in Ends : cursor[e] <= published
  /\ link \in [Conns -> Link] /\ net \subseteq Nat \X Nat /\ dest \in Seq(Put)

Dialling == {"sleep", "connect", "request", "response"}
Sending == IF opts.udp THEN {"get", "poll", "send"} ELSE {"get", "write hdr", "write data"}
Receiving == IF opts.udp THEN {"poll", "recv", "put"} ELSE {"read", "read data", "put"}
Handling(e) == IF Pushes(e) THEN Sending ELSE Receiving

\* Where a handler of this transport and direction goes on after a new connection.
Resuming ==
  IF opts.push THEN IF opts.udp THEN {"send"} ELSE {"write hdr"}
  ELSE IF opts.udp THEN {"recv", "poll"} ELSE {"read"}

\* Where the client and a server can be.
ClientPlace ==
  /\ pc[client] \in Dialling \cup {"channel", "exit", "spin"} \cup Handling(client)
  /\ pc[client] \in {"sleep", "connect"} => sock = 0
  /\ pc[client] \in {"request", "response", "channel"} \cup Handling(client) => sock # 0
  /\ pc[client] \in {"sleep"} \cup Handling(client) => chan
  /\ chan => pc[client] # "channel"
  /\ chan /\ pc[client] \in Dialling => resume \in Resuming
ServerPlace(k) ==
  /\ pc[k] \in {"none", "headers", "exit"} \cup Handling(k)
  /\ k > nconn => pc[k] = "none" /\ link[k] = NoLink
  /\ pc[k] = "headers" => link[k].data = <<>> \/ opts.push
Places == ClientPlace /\ \A k \in Conns : ServerPlace(k)

\* The client or a server that has a frame to write over TCP, now or once it is
\* connected.
Sends(e) ==
  \/ pc[e] \in {"write hdr", "write data"}
  \/ e = client /\ chan /\ opts.push /\ ~ opts.udp /\ pc[client] \in Dialling

\* What the pipeframes hold.
Buffers ==
  /\ \A e \in Ends : Sends(e) => buf[e] = <<cursor[e], cursor[e]>>
  /\ \A e \in Ends : pc[e] = "put" => buf[e][1] = buf[e][2]
  /\ \A e \in Ends : ~ opts.udp /\ pc[e] \in {"read data", "put"} /\ buf[e][1] \in Large => cap[e]

-----------------------------------------------------------------------------
\* An end that is on connection k, sending or receiving over TCP.
On(e, k) == ~ opts.udp /\ K(e) = k /\ pc[e] \notin {"none", "exit", "spin"}

\* The unit of connection K(e) that the receiver e read or will read last.
LastUnit(e) ==
  LET d == link[K(e)].data
  IN IF d # <<>> THEN d[Len(d)] ELSE <<IF pc[e] = "read data" THEN "hdr" ELSE "data", buf[e][1]>>

\* What is on its way to e: headers and data take turns, the data is that of the
\* header before it, and so is what the sender writes next.
Stream ==
  \A k \in Conns, e \in Ends : On(e, k) /\ ~ Pushes(e) =>
    LET d == link[k].data
    IN /\ d # <<>> => IF pc[e] = "read data" THEN d[1] = <<"data", buf[e][1]>> ELSE d[1][1] = "hdr"
       /\ \A i \in 1 .. Len(d) - 1 :
            IF d[i][1] = "hdr" THEN d[i + 1] = <<"data", d[i][2]>> ELSE d[i + 1][1] = "hdr"
       /\ \A t \in Ends : On(t, k) /\ Pushes(t) /\ ~ Gone(t) =>
            IF pc[t] = "write data" THEN LastUnit(e) = <<"hdr", buf[t][2]>>
            ELSE LastUnit(e)[1] = "data"

-----------------------------------------------------------------------------
\* The end that puts what comes over k, and whether frame n is complete on its way
\* there or in its buffer.
Taker(k) == IF opts.push THEN k ELSE client
Coming(k, n) ==
  \/ pc[Taker(k)] = "put" /\ n = buf[Taker(k)][2]
  \/ \E i \in 1 .. Len(link[k].data) : link[k].data[i] = <<"data", n>>
Arrived(n) == \E i \in 1 .. Len(dest) : dest[i].data = n

\* The frames that come over k are in the order of the source.
InTurn(k) ==
  LET d == link[k].data
  IN \A i \in 1 .. Len(d) : d[i][1] = "data" =>
       /\ pc[Taker(k)] = "put" => buf[Taker(k)][2] < d[i][2]
       /\ \A j \in 1 .. i - 1 : d[j][1] = "data" => d[j][2] < d[i][2]

\* The sender e has seen frame n, and not to write it yet.
Before(n, e) == n <= cursor[e] /\ (Sends(e) => n < cursor[e])

\* Pushing: every frame is in one place only.
PushOnce ==
  ~ opts.udp /\ opts.push =>
    /\ DeliveredOnce
    /\ \A n \in Nat : Arrived(n) => Before(n, client)
    /\ \A k \in Conns, n \in Nat : Coming(k, n) => Before(n, client) /\ ~ Arrived(n)
    /\ \A k, l \in Conns, n \in Nat : Coming(k, n) /\ Coming(l, n) => k = l
    /\ \A k \in Conns : InTurn(k)

\* Pulling: what was put, what the client is about to put, what is on its way and
\* what the server writes are in this order.
PullOrder ==
  ~ opts.udp /\ ~ opts.push =>
    /\ PullInOrder
    /\ \A n \in Nat : Arrived(n) => n <= published
    /\ \A k \in Conns : k = sock =>
         /\ InTurn(k)
         /\ \A n \in Nat : Coming(k, n) => n <= published /\ \A m \in Nat : Arrived(m) => m < n
         /\ pc[k] \in Sending => \A n \in Nat : Arrived(n) \/ Coming(k, n) => Before(n, k)

IInv == TypeOK /\ Places /\ Buffers /\ Stream /\ WholeFrames /\ PushOnce /\ PullOrder

-----------------------------------------------------------------------------
Has(open, in, aux) == fd.open = open /\ fd.in = in /\ fd.aux = aux

\* The descriptors of a client over UDP that has not left a socket open: the channel
\* has number 3 from the first connection on, which leaves 1 and 2 to the sockets.
Descriptors ==
  /\ fd = [open |-> fd.open, in |-> fd.in, aux |-> fd.aux, pfd |-> fd.pfd, leaked |-> fd.leaked]
  /\ opts.udp /\ ~ fd.leaked =>
       LET own == IF chan THEN {3} ELSE {}
       IN /\ chan => fd.pfd = 2
          /\ pc[client] \in {"sleep", "connect"} => Has(own, 0, 0)
          /\ pc[client] = "request" => Has(own \cup {1}, 1, 0)
          /\ pc[client] \in {"response", "channel"} \cup Handling(client) => Has(own \cup {1, 2}, 1, 2)

-----------------------------------------------------------------------------
(* Ends, options and sequences. *)

\* The client and the servers, and which connection they are on.
LEMMA EndFacts ==
  /\ client \in Ends /\ client \notin Conns /\ K(client) = sock /\ Pushes(client) = opts.push
  /\ \A k \in Conns : k \in Ends /\ k \in Nat /\ k # 0 /\ k # client /\ K(k) = k /\ Pushes(k) = ~ opts.push
  /\ \A e \in Ends : e = client \/ e \in Conns
  /\ TypeOK => sock = 0 \/ sock \in Conns
<1>1. \A k \in Conns : k \in Nat /\ k # 0
  BY BoundAssumption DEF Conns
<1>2. TypeOK => sock = 0 \/ sock \in Conns
  BY BoundAssumption DEF TypeOK, Conns
<1> QED
  BY <1>1, <1>2, Zenon DEF Ends, client, K, Pushes, recv_hdr

\* The options of a command line.
LEMMA OptionFacts ==
  ASSUME TypeOK
  PROVE  opts.udp \in BOOLEAN /\ opts.push \in BOOLEAN /\ Len(opts.frames) \in Nat
BY OptionsAssumption DEF TypeOK

\* Counts that do not change do not get smaller.
LEMMA NoLess ==
  ASSUME TypeOK, NEW e \in Ends
  PROVE  published <= published /\ cursor[e] <= cursor[e]
<1>1. published \in Nat /\ cursor[e] \in Nat
  BY Zenon DEF TypeOK
<1> QED
  BY <1>1

\* A get returns a frame that the handle has not seen.
LEMMA NextFrameNew ==
  ASSUME TypeOK, NEW c \in Nat, c < published
  PROVE  NextFrame(c) \in Nat /\ c < NextFrame(c) /\ NextFrame(c) <= published
BY BoundAssumption DEF TypeOK, NextFrame

\* The components of a pair.
LEMMA Pairs ==
  ASSUME NEW x, NEW a, NEW b, x = <<a, b>>
  PROVE  x[1] = a /\ x[2] = b
BY Zenon

\* The elements of a tail.
LEMMA TailAt ==
  ASSUME NEW S, NEW s \in Seq(S), s # <<>>
  PROVE  /\ Tail(s) \in Seq(S) /\ Len(s) \in Nat /\ Len(s) > 0 /\ Len(Tail(s)) = Len(s) - 1
         /\ Head(s) = s[1] /\ s[1] \in S
         /\ \A i \in 1 .. Len(s) - 1 : Tail(s)[i] = s[i + 1]
OBVIOUS

\* The elements of a prefix.
LEMMA CutAt ==
  ASSUME NEW S, NEW s \in Seq(S), NEW n \in 0 .. Len(s)
  PROVE  /\ SubSeq(s, 1, n) \in Seq(S) /\ Len(SubSeq(s, 1, n)) = n
         /\ \A i \in 1 .. n : SubSeq(s, 1, n)[i] = s[i]
OBVIOUS

-----------------------------------------------------------------------------
(* Quiet steps: an end goes on, leaves its connection or ends, and the       *)
(* connections carry what they did, unless they are lost.                    *)

Unread ==
  \A k \in Conns :
    /\ Len(link'[k].data) <= Len(link[k].data)
    /\ \A i \in 1 .. Len(link'[k].data) : link'[k].data[i] = link[k].data[i]
    /\ link'[k].data = link[k].data \/ link'[k].lost
    /\ (link[k].lost => link'[k].lost) /\ link[k].shut \subseteq link'[k].shut

Quiet(e) ==
  /\ UNCHANGED opts /\ published <= published' /\ Unread
  /\ \A t \in Ends \ {e} : pc'[t] = pc[t] /\ cursor'[t] = cursor[t] /\ buf'[t] = buf[t]
  /\ \A t \in Ends : cap[t] => cap'[t]
  /\ buf'[e] = buf[e] \/ (pc[e] = "get" /\ Pushes(e))
  /\ UNCHANGED <<sock, chan>> \/ (e = client /\ sock' \in {sock, 0})
  /\ pc[e] \in {"none", "exit", "spin"} => pc'[e] = pc[e]
  /\ pc'[e] \in {"read data", "put"} => pc'[e] = pc[e]
  /\ pc[e] = "read data" => pc'[e] \in {pc[e], "exit", "spin"} \/ (e = client /\ sock' = 0)
  /\ \/ pc'[e] = "write data" <=> pc[e] = "write data"
     \/ pc'[e] \in {"exit", "spin"} \/ (e = client /\ sock' = 0) \/ Gone(e)
  /\ Sends(e)' => \/ Sends(e) /\ cursor'[e] = cursor[e] /\ buf'[e] = buf[e]
                  \/ cursor[e] < cursor'[e] /\ buf'[e] = <<cursor'[e], cursor'[e]>>
  /\ e = client /\ opts.push => cursor[e] <= cursor'[e]
  /\ e # client /\ ~ opts.udp /\ pc'[e] \in Sending =>
       (pc[e] \in Sending /\ cursor[e] <= cursor'[e]) \/ (cursor'[e] = published /\ pc'[e] = "get")

\* An end that is still on its connection is where it was, as far as frames go.
LEMMA QuietEnd ==
  ASSUME NEW e \in Ends, Quiet(e), NEW t \in Ends, NEW k \in Conns, On(t, k)'
  PROVE  /\ On(t, k) /\ K(t) = k /\ K(t)' = k /\ Pushes(t)' = Pushes(t)
         /\ pc'[t] = "read data" <=> pc[t] = "read data"
         /\ Gone(t) => Gone(t)'
         /\ (pc'[t] = "write data" <=> pc[t] = "write data") \/ Gone(t)
<1>1. k # 0 /\ opts' = opts
  BY EndFacts, Zenon DEF Quiet
<1>2. K(t)' = k /\ K(t) = k /\ pc'[t] \notin {"none", "exit", "spin"} /\ ~ opts.udp
  BY <1>1, Zenon DEF On, K, Quiet
<1>3. Pushes(t)' = Pushes(t)
  BY <1>1, Zenon DEF Pushes, recv_hdr
<1>4. t # e => pc'[t] = pc[t]
  BY Zenon DEF Quiet
<1>5. t = e => ~ (e = client /\ sock' = 0)
  BY <1>1, <1>2, Zenon DEF K
<1>6. pc[t] \notin {"none", "exit", "spin"}
  BY <1>2, <1>4, Zenon DEF Quiet
<1>7. pc'[t] = "read data" <=> pc[t] = "read data"
  BY <1>2, <1>4, <1>5, Zenon DEF Quiet
<1>9. (pc'[t] = "write data" <=> pc[t] = "write data") \/ Gone(t)
  BY <1>2, <1>4, <1>5, Zenon DEF Quiet
<1>8. Gone(t) => Gone(t)'
  BY <1>2, Zenon DEF Quiet, Unread, Gone
<1> QED
  BY <1>2, <1>3, <1>6, <1>7, <1>8, <1>9, Zenon DEF On

\* What a sender has to write is newer than what it was newer than.
LEMMA QuietBefore ==
  ASSUME TypeOK, TypeOK', NEW e \in Ends, Quiet(e), NEW t \in Ends, t = e => cursor[t] <= cursor'[t],
         NEW n \in Nat, Before(n, t)
  PROVE  Before(n, t)'
<1>1. cursor[t] \in Nat /\ cursor'[t] \in Nat
  BY Zenon DEF TypeOK
<1>2. CASE t # e
  <2>1. pc'[t] = pc[t] /\ cursor'[t] = cursor[t] /\ opts' = opts /\ (t = client => chan' = chan)
    BY <1>2, Zenon DEF Quiet
  <2>2. Sends(t)' => Sends(t)
    BY <2>1, Zenon DEF Sends
  <2> QED
    BY <2>1, <2>2, Zenon DEF Before
<1>3. CASE t = e
  <2>1. n <= cursor'[t] /\ (cursor[t] < cursor'[t] => n < cursor'[t])
    BY <1>1, <1>3 DEF Before
  <2>2. Sends(t)' => (Sends(t) /\ cursor'[t] = cursor[t]) \/ cursor[t] < cursor'[t]
    BY <1>3, Zenon DEF Quiet
  <2> QED
    BY <2>1, <2>2, Zenon DEF Before
<1> QED
  BY <1>2, <1>3, Zenon

\* What the buffers hold is what they held.
LEMMA QuietBuffers ==
  ASSUME IInv, NEW e \in Ends, Quiet(e)
  PROVE  Buffers'
<1>1. UNCHANGED opts /\ Large' = Large
  BY Zenon DEF Quiet, Large, Frames
<1>2. \A t \in Ends : pc'[t] \in {"read data", "put"} => pc'[t] = pc[t] /\ buf'[t] = buf[t]
  BY Zenon DEF Quiet
<1>3. ASSUME NEW t \in Ends, Sends(t)'
      PROVE  buf'[t] = <<cursor'[t], cursor'[t]>>
  <2>1. CASE t # e
    <3>1. pc'[t] = pc[t] /\ cursor'[t] = cursor[t] /\ buf'[t] = buf[t] /\ (t = client => chan' = chan)
      BY <2>1, Zenon DEF Quiet
    <3>2. Sends(t)
      BY <1>1, <1>3, <3>1, Zenon DEF Sends
    <3> QED
      BY <3>1, <3>2, Zenon DEF IInv, Buffers
  <2>2. CASE t = e
    BY <1>3, <2>2, Zenon DEF Quiet, IInv, Buffers
  <2> QED
    BY <2>1, <2>2, Zenon
<1>4. \A t \in Ends : cap[t] => cap'[t]
  BY Zenon DEF Quiet
<1> QED
  BY <1>1, <1>2, <1>3, <1>4, Zenon DEF IInv, Buffers

\* What is on its way still alternates.
LEMMA QuietStream ==
  ASSUME IInv, TypeOK', NEW e \in Ends, Quiet(e)
  PROVE  Stream'
<1> SUFFICES ASSUME NEW k \in Conns, NEW r \in Ends, On(r, k)', ~ Pushes(r)'
             PROVE  LET d == link'[k].data
                    IN /\ d # <<>> => IF pc'[r] = "read data" THEN d[1] = <<"data", buf'[r][1]>>
                                      ELSE d[1][1] = "hdr"
                       /\ \A i \in 1 .. Len(d) - 1 :
                            IF d[i][1] = "hdr" THEN d[i + 1] = <<"data", d[i][2]>>
                            ELSE d[i + 1][1] = "hdr"
                       /\ \A t \in Ends : On(t, k)' /\ Pushes(t)' /\ ~ Gone(t)' =>
                            IF pc'[t] = "write data" THEN LastUnit(r)' = <<"hdr", buf'[t][2]>>
                            ELSE LastUnit(r)'[1] = "data"
  BY Zenon DEF Stream
<1> DEFINE d == link[k].data
           c == link'[k].data
<1>1. /\ On(r, k) /\ ~ Pushes(r) /\ K(r) = k /\ K(r)' = k
      /\ pc'[r] = "read data" <=> pc[r] = "read data"
  BY QuietEnd, Zenon
<1>2. /\ d # <<>> => IF pc[r] = "read data" THEN d[1] = <<"data", buf[r][1]>> ELSE d[1][1] = "hdr"
      /\ \A i \in 1 .. Len(d) - 1 :
           IF d[i][1] = "hdr" THEN d[i + 1] = <<"data", d[i][2]>> ELSE d[i + 1][1] = "hdr"
      /\ \A t \in Ends : On(t, k) /\ Pushes(t) /\ ~ Gone(t) =>
           IF pc[t] = "write data" THEN LastUnit(r) = <<"hdr", buf[t][2]>>
           ELSE LastUnit(r)[1] = "data"
  BY <1>1, Zenon DEF IInv, Stream
<1>3. /\ c \in Seq(Unit) /\ d \in Seq(Unit) /\ Len(c) <= Len(d)
      /\ \A i \in 1 .. Len(c) : c[i] = d[i]
      /\ c = d \/ link'[k].lost
  BY Zenon DEF IInv, TypeOK, Link, Quiet, Unread
<1>8. buf'[r] = buf[r]
  BY <1>1, Zenon DEF Quiet
<1>4. Len(c) \in Nat /\ Len(d) \in Nat /\ (c # <<>> => Len(c) > 0 /\ d # <<>>)
  BY <1>3
<1>5. c # <<>> => IF pc'[r] = "read data" THEN c[1] = <<"data", buf'[r][1]>> ELSE c[1][1] = "hdr"
  <2>1. c # <<>> => c[1] = d[1] /\ d # <<>>
    BY <1>3, <1>4
  <2> QED
    BY <1>1, <1>2, <1>8, <2>1, Zenon
<1>6. ASSUME NEW i \in 1 .. Len(c) - 1
      PROVE  IF c[i][1] = "hdr" THEN c[i + 1] = <<"data", c[i][2]>> ELSE c[i + 1][1] = "hdr"
  <2>1. c[i] = d[i] /\ c[i + 1] = d[i + 1] /\ i \in 1 .. Len(d) - 1
    BY <1>3, <1>4
  <2> QED
    BY <1>2, <2>1, Zenon
<1>7. ASSUME NEW t \in Ends, On(t, k)', Pushes(t)', ~ Gone(t)'
      PROVE  IF pc'[t] = "write data" THEN LastUnit(r)' = <<"hdr", buf'[t][2]>>
             ELSE LastUnit(r)'[1] = "data"
  <2>1. /\ On(t, k) /\ Pushes(t) /\ ~ Gone(t) /\ K(t)' = k
        /\ pc'[t] = "write data" <=> pc[t] = "write data"
    BY <1>7, QuietEnd, Zenon
  <2>2. c = d
    BY <1>3, <1>7, <2>1, Zenon DEF Gone
  <2>3. LastUnit(r)' = LastUnit(r)
    BY <1>1, <1>8, <2>2, Zenon DEF LastUnit
  <2>4. pc[t] = "write data" => buf'[t] = buf[t]
    BY Zenon DEF Quiet
  <2> QED
    BY <1>2, <2>1, <2>3, <2>4, Zenon
<1> QED
  BY <1>5, <1>6, <1>7, Zenon

\* No frame is added to those that come or arrived, and none changes its place.
LEMMA QuietFrames ==
  ASSUME IInv, TypeOK', NEW e \in Ends, Quiet(e), NEW k \in Conns
  PROVE  /\ \A n : Coming(k, n)' => Coming(k, n)
         /\ InTurn(k) => InTurn(k)'
<1> DEFINE r == Taker(k)
           d == link[k].data
           c == link'[k].data
<1>1. Taker(k)' = r /\ r \in Ends
  BY EndFacts, Zenon DEF Taker, Quiet
<1>2. pc'[r] = "put" => pc[r] = "put" /\ buf'[r] = buf[r]
  BY <1>1, Zenon DEF Quiet
<1>3. /\ c \in Seq(Unit) /\ d \in Seq(Unit) /\ Len(c) <= Len(d)
      /\ \A i \in 1 .. Len(c) : c[i] = d[i]
  BY Zenon DEF IInv, TypeOK, Link, Quiet, Unread
<1>4. /\ \A i \in 1 .. Len(c) : i \in 1 .. Len(d)
      /\ \A i \in 1 .. Len(c) : \A j \in 1 .. i - 1 : j \in 1 .. Len(c)
  BY <1>3
<1>5. ASSUME NEW n, Coming(k, n)'
      PROVE  Coming(k, n)
  BY <1>1, <1>2, <1>3, <1>4, <1>5, Zenon DEF Coming
<1>7. ASSUME InTurn(k)
      PROVE  InTurn(k)'
  BY <1>1, <1>2, <1>3, <1>4, <1>7, Zenon DEF InTurn
<1> QED
  BY <1>5, <1>7, Zenon

\* A pushed frame stays in one place.
LEMMA QuietPush ==
  ASSUME IInv, TypeOK', NEW e \in Ends, Quiet(e), UNCHANGED dest
  PROVE  PushOnce'
<1> SUFFICES ASSUME ~ opts.udp, opts.push
             PROVE  PushOnce'
  BY Zenon DEF PushOnce, Quiet
<1>1. /\ DeliveredOnce
      /\ \A n \in Nat : Arrived(n) => Before(n, client)
      /\ \A k \in Conns, n \in Nat : Coming(k, n) => Before(n, client) /\ ~ Arrived(n)
      /\ \A k, l \in Conns, n \in Nat : Coming(k, n) /\ Coming(l, n) => k = l
      /\ \A k \in Conns : InTurn(k)
  BY Zenon DEF IInv, PushOnce
<1>2. DeliveredOnce'
  BY <1>1, Zenon DEF DeliveredOnce, Quiet
<1>3. \A n \in Nat : Before(n, client) => Before(n, client)'
  <2>1. client = e => cursor[client] <= cursor'[client]
    BY Zenon DEF Quiet
  <2> QED
    BY <2>1, EndFacts, QuietBefore, Zenon DEF IInv
<1> QED
  <2>2. \A n : Arrived(n)' = Arrived(n)
    BY Zenon DEF Arrived
  <2>3. \A k \in Conns, n \in Nat : Coming(k, n)' => Before(n, client)' /\ ~ Arrived(n)'
    BY <1>1, <1>3, <2>2, QuietFrames, Zenon
  <2>4. \A n \in Nat : Arrived(n)' => Before(n, client)'
    BY <1>1, <1>3, <2>2, Zenon
  <2>5. \A k, l \in Conns, n \in Nat : Coming(k, n)' /\ Coming(l, n)' => k = l
    BY <1>1, QuietFrames, Zenon
  <2>6. \A k \in Conns : InTurn(k)'
    BY <1>1, QuietFrames, Zenon
  <2> QED
    BY <1>2, <2>3, <2>4, <2>5, <2>6, Zenon DEF PushOnce

\* Pulled frames stay in order.
LEMMA QuietPull ==
  ASSUME IInv, TypeOK', NEW e \in Ends, Quiet(e), UNCHANGED dest
  PROVE  PullOrder'
<1> SUFFICES ASSUME ~ opts.udp, ~ opts.push
             PROVE  PullOrder'
  BY Zenon DEF PullOrder, Quiet
<1>1. /\ PullInOrder
      /\ \A n \in Nat : Arrived(n) => n <= published
      /\ \A k \in Conns : k = sock =>
           /\ InTurn(k)
           /\ \A n \in Nat : Coming(k, n) => n <= published /\ \A m \in Nat : Arrived(m) => m < n
           /\ pc[k] \in Sending => \A n \in Nat : Arrived(n) \/ Coming(k, n) => Before(n, k)
  BY Zenon DEF IInv, PullOrder
<1>2. PullInOrder'
  BY <1>1, Zenon DEF PullInOrder, Quiet
<1>4. \A n : Arrived(n)' = Arrived(n)
  BY Zenon DEF Arrived
<1>5. \A n \in Nat : n <= published => n <= published'
  <2>1. published \in Nat /\ published' \in Nat /\ published <= published'
    BY Zenon DEF IInv, TypeOK, Quiet
  <2> QED
    BY <2>1
<1>6. ASSUME NEW k \in Conns, k = sock'
      PROVE  /\ InTurn(k)'
             /\ \A n \in Nat : Coming(k, n)' =>
                  n <= published' /\ \A m \in Nat : Arrived(m)' => m < n
             /\ pc'[k] \in Sending' => \A n \in Nat : Arrived(n)' \/ Coming(k, n)' => Before(n, k)'
  <2>1. k = sock /\ k # client /\ k \in Ends
    BY <1>6, EndFacts, Zenon DEF Quiet
  <2>2. InTurn(k)' /\ \A n : Coming(k, n)' => Coming(k, n)
    BY <1>1, <2>1, QuietFrames, Zenon
  <2>3. \A n \in Nat : Coming(k, n)' => n <= published' /\ \A m \in Nat : Arrived(m)' => m < n
    BY <1>1, <1>4, <1>5, <2>1, <2>2, Zenon
  <2>4. ASSUME pc'[k] \in Sending', NEW n \in Nat, Arrived(n)' \/ Coming(k, n)'
        PROVE  Before(n, k)'
    <3>1. Arrived(n) \/ Coming(k, n)
      BY <1>4, <2>2, <2>4, Zenon
    <3>3. Sending' = Sending
      BY Zenon DEF Sending, Quiet
    <3>4. CASE pc[k] \in Sending /\ (k = e => cursor[k] <= cursor'[k])
      <4>1. Before(n, k)
        BY <1>1, <2>1, <3>1, <3>4, Zenon
      <4> QED
        BY <2>1, <3>4, <4>1, QuietBefore, Zenon DEF IInv
    <3>5. CASE cursor'[k] = published /\ pc'[k] = "get"
      <4>1. n <= published
        BY <1>1, <2>1, <3>1, Zenon
      <4>2. ~ Sends(k)'
        BY <2>1, <3>5, Zenon DEF Sends
      <4> QED
        BY <3>5, <4>1, <4>2, Zenon DEF Before
    <3>6. k # e => pc'[k] = pc[k]
      BY <2>1, Zenon DEF Quiet
    <3> QED
      BY <2>1, <2>4, <3>3, <3>4, <3>5, <3>6, Zenon DEF Quiet
  <2> QED
    BY <2>2, <2>3, <2>4, Zenon
<1> QED
  BY <1>1, <1>2, <1>4, <1>5, <1>6, Zenon DEF PullOrder

\* Quiet steps keep the invariant if processes stay where they can be.
LEMMA QuietStep ==
  ASSUME IInv, TypeOK', Places', NEW e \in Ends, Quiet(e), UNCHANGED dest
  PROVE  IInv'
<1>1. WholeFrames => WholeFrames'
  <2>1. UNCHANGED <<opts, dest>> /\ Large' = Large
    BY Zenon DEF Quiet, Large, Frames
  <2> QED
    BY <2>1, Zenon DEF WholeFrames
<1> QED
  BY <1>1, QuietBuffers, QuietStream, QuietPush, QuietPull, Zenon DEF IInv

-----------------------------------------------------------------------------
(* The kinds of quiet steps. *)

\* A connection on which nothing that carries frames changes.
LEMMA LinkFacts ==
  ASSUME TypeOK, NEW k \in Conns, NEW y \in Link, SetLink(k, y),
         y.data = link[k].data, y.lost = link[k].lost, link[k].shut \subseteq y.shut
  PROVE  link' \in [Conns -> Link] /\ Unread /\ \A j \in Conns \ {k} : link'[j] = link[j]
<1>1. link \in [Conns -> Link]
  BY Zenon DEF TypeOK
<1>2. link' \in [Conns -> Link] /\ link'[k] = y /\ \A j \in Conns \ {k} : link'[j] = link[j]
  BY <1>1, Zenon DEF SetLink
<1>3. \A j \in Conns : link'[j].data = link[j].data /\ link'[j].lost = link[j].lost /\ link[j].shut \subseteq link'[j].shut
  BY <1>2, Zenon
<1>4. \A j \in Conns : Len(link[j].data) <= Len(link[j].data)
  <2>1. \A j \in Conns : link[j].data \in Seq(Unit)
    BY <1>1, Zenon DEF Link
  <2> QED
    BY <2>1
<1> QED
  BY <1>2, <1>3, <1>4, Zenon DEF Unread

\* Closing a connection leaves what is on it.
LEMMA ShutFacts ==
  ASSUME TypeOK, NEW e \in Ends, K(e) # 0, SetLink(K(e), Shut(e))
  PROVE  link' \in [Conns -> Link] /\ Unread /\ \A k \in Conns \ {K(e)} : link'[k] = link[k]
<1>1. K(e) \in Conns /\ Side(e) \in {"client", "server"}
  BY EndFacts, Zenon DEF Side
<1>2. link[K(e)] \in Link
  BY <1>1, Zenon DEF TypeOK
<1>3. /\ Shut(e) \in Link /\ Shut(e).data = link[K(e)].data /\ Shut(e).lost = link[K(e)].lost
      /\ link[K(e)].shut \subseteq Shut(e).shut
  BY <1>1, <1>2, Zenon DEF Link, Shut
<1> QED
  BY <1>1, <1>3, LinkFacts, Zenon

\* A process that goes somewhere.
LEMMA GotoFacts ==
  ASSUME TypeOK, NEW e \in Ends, NEW l, Goto(e, l)
  PROVE  DOMAIN pc' = Ends /\ pc'[e] = l /\ \A t \in Ends \ {e} : pc'[t] = pc[t]
BY Zenon DEF TypeOK, Goto

\* The same options, the same places.
LEMMA SameOptions ==
  ASSUME UNCHANGED opts
  PROVE  /\ Sending' = Sending /\ Resuming' = Resuming /\ Large' = Large
         /\ \A e \in Ends : Handling(e)' = Handling(e) /\ Pushes(e)' = Pushes(e)
BY Zenon DEF Sending, Resuming, Handling, Receiving, Pushes, recv_hdr, Large, Frames

\* Connections that do not change.
LEMMA SameLinks ==
  ASSUME TypeOK, UNCHANGED link
  PROVE  Unread
<1>1. \A k \in Conns : link[k].data \in Seq(Unit)
  BY Zenon DEF TypeOK, Link
<1>2. \A k \in Conns : Len(link[k].data) <= Len(link[k].data)
  BY <1>1
<1> QED
  BY <1>2, Zenon DEF Unread

\* The servers stay where they can be when e goes on.
LEMMA ServersStay ==
  ASSUME IInv, TypeOK', NEW e \in Ends, Quiet(e), UNCHANGED nconn, pc[e] # "none",
         \A k \in Conns \ {K(e)} : link'[k] = link[k],
         e # client => pc'[e] \in {"exit"} \cup Handling(e)
  PROVE  \A k \in Conns : ServerPlace(k)'
<1> SUFFICES ASSUME NEW k \in Conns
             PROVE  ServerPlace(k)'
  BY Zenon
<1>1. k \in Ends /\ k # client /\ K(e) \in {0, nconn} \cup (Conns \ {client})
  BY EndFacts, Zenon DEF IInv, TypeOK
<1>2. ServerPlace(k) /\ opts' = opts
  BY Zenon DEF IInv, Places, Quiet
<1>3. Handling(k)' = Handling(k)
  BY <1>2, Zenon DEF Handling, Sending, Receiving, Pushes, recv_hdr
<1>4. pc'[k] = pc[k] \/ (k = e /\ pc'[k] \in {"exit"} \cup Handling(k))
  BY <1>1, Zenon DEF Quiet
<1>5. pc[k] = "none" => pc'[k] = "none"
  BY <1>1, Zenon DEF Quiet
<1>6. pc'[k] \in {"none", "headers", "exit"} \cup Handling(k)'
  BY <1>2, <1>3, <1>4, Zenon DEF ServerPlace
<1>7. k > nconn => k # K(e)
  <2>1. nconn \in Nat /\ k \in Nat /\ k # 0
    BY EndFacts, Zenon DEF IInv, TypeOK
  <2>2. k > nconn => k # nconn
    BY <2>1
  <2>3. k > nconn => k # e
    BY <1>2, Zenon DEF ServerPlace
  <2>4. K(e) = e \/ K(e) \in {0, nconn}
    BY EndFacts, Zenon DEF IInv, TypeOK
  <2> QED
    BY <2>1, <2>2, <2>3, <2>4, Zenon
<1>8. k > nconn' => pc'[k] = "none" /\ link'[k] = NoLink
  BY <1>2, <1>5, <1>7, Zenon DEF ServerPlace
<1>9. pc'[k] = "headers" => link'[k].data = <<>> \/ opts'.push
  <2>1. "headers" \notin {"exit"} \cup Handling(k)
    BY Zenon DEF Handling, Sending, Receiving
  <2>2. pc'[k] = "headers" => link[k].data = <<>> \/ opts.push
    BY <1>2, <1>4, <2>1, Zenon DEF ServerPlace
  <2>3. link'[k].data \in Seq(Unit) /\ Len(link'[k].data) <= Len(link[k].data)
    BY Zenon DEF TypeOK, Link, Quiet, Unread
  <2>4. link[k].data = <<>> => link'[k].data = <<>>
    BY <2>3
  <2> QED
    BY <1>2, <2>2, <2>4, Zenon
<1> QED
  BY <1>6, <1>8, <1>9, Zenon DEF ServerPlace

\* A process ends.
LEMMA ExitStep ==
  ASSUME IInv, NEW e \in Ends, pc[e] \notin {"none", "exit", "spin"}, Exit(e),
         UNCHANGED <<opts, published, dest, nconn, sock, sig, chan, resume, buf, cap, cursor, net>>
  PROVE  IInv'
<1>1. TypeOK /\ Places
  BY Zenon DEF IInv
<1>2. pc' = [pc EXCEPT ![e] = "exit"] /\ DOMAIN pc = Ends
  BY <1>1, Zenon DEF Exit, Goto, TypeOK
<1>3. DOMAIN pc' = Ends /\ pc'[e] = "exit" /\ \A t \in Ends \ {e} : pc'[t] = pc[t]
  BY <1>2, Zenon
<1>4. link' \in [Conns -> Link] /\ Unread /\ \A k \in Conns \ {K(e)} : link'[k] = link[k]
  BY <1>1, ShutFacts, SameLinks, Zenon DEF Exit, TypeOK
<1>5. TypeOK'
  BY <1>1, <1>3, <1>4, Zenon DEF TypeOK
<1>6. "exit" \notin Sending /\ "exit" \notin Dialling /\ "exit" \notin Handling(client)
  BY Zenon DEF Sending, Dialling, Handling, Receiving
<1>7. published <= published /\ cursor[e] <= cursor[e]
  BY <1>1, NoLess, Zenon
<1>8. Quiet(e)
  BY <1>3, <1>4, <1>6, <1>7, Zenon DEF Quiet, Sends
<1>9. ClientPlace'
  <2>1. Handling(client)' = Handling(client) /\ Resuming' = Resuming
    BY Zenon DEF Handling, Sending, Receiving, Pushes, recv_hdr, Resuming
  <2>2. CASE e = client
    BY <1>3, <1>6, <2>1, <2>2, Zenon DEF ClientPlace
  <2>3. CASE e # client
    <3>1. pc'[client] = pc[client]
      BY <1>3, <2>3, EndFacts, Zenon
    <3> QED
      BY <1>1, <2>1, <3>1, Zenon DEF ClientPlace, Places
  <2> QED
    BY <2>2, <2>3, Zenon
<1>10. \A k \in Conns : ServerPlace(k)'
  BY <1>3, <1>4, <1>5, <1>8, ServersStay, Zenon
<1> QED
  BY <1>5, <1>8, <1>9, <1>10, QuietStep, Zenon DEF Places

\* A handler fails: it waits to connect again, or its process ends.
LEMMA FailStep ==
  ASSUME IInv, NEW e \in Ends, NEW l, Fail(e, l), pc[e] \in Handling(e),
         e = client => l \in Resuming /\ (opts.push /\ ~ opts.udp => Sends(client)),
         UNCHANGED <<opts, published, dest, nconn, sig, chan, buf, cap, cursor, net>>
  PROVE  IInv'
<1>1. TypeOK /\ Places
  BY Zenon DEF IInv
<1>2. pc[e] \notin {"none", "exit", "spin"}
  BY Zenon DEF Handling, Sending, Receiving
<1>3. CASE Exit(e) /\ UNCHANGED <<resume, sock, fd>>
  BY <1>2, <1>3, ExitStep, Zenon
<1>4. CASE /\ e = client /\ Goto(e, "sleep") /\ resume' = l
           /\ SetLink(sock, Shut(e)) /\ sock' = 0
  <2>1. DOMAIN pc = Ends /\ pc' = [pc EXCEPT ![client] = "sleep"]
    BY <1>1, <1>4, Zenon DEF Goto, TypeOK
  <2>2. DOMAIN pc' = Ends /\ pc'[client] = "sleep" /\ \A t \in Ends \ {client} : pc'[t] = pc[t]
    BY <2>1, EndFacts, Zenon
  <2>3. K(e) = sock /\ sock # 0 /\ chan
    BY <1>1, <1>4, EndFacts, Zenon DEF Places, ClientPlace
  <2>4. link' \in [Conns -> Link] /\ Unread /\ \A k \in Conns \ {K(e)} : link'[k] = link[k]
    BY <1>1, <1>4, <2>3, ShutFacts, Zenon
  <2>5. TypeOK'
    BY <1>1, <1>4, <2>2, <2>4, Zenon DEF TypeOK
  <2>6. "sleep" \notin Handling(client) /\ "sleep" \in Dialling
    BY Zenon DEF Sending, Dialling, Handling, Receiving
  <2>7. published <= published /\ cursor[e] <= cursor[e]
    BY <1>1, NoLess, Zenon
  <2>8. Sends(client)' => Sends(client)
    BY <1>4, <2>2, Zenon DEF Sends
  <2>9. Quiet(e)
    BY <1>2, <1>4, <2>2, <2>4, <2>7, <2>8, Zenon DEF Quiet
  <2>10. ClientPlace'
    <3>1. Handling(client)' = Handling(client) /\ Resuming' = Resuming
      BY Zenon DEF Handling, Sending, Receiving, Pushes, recv_hdr, Resuming
    <3> QED
      BY <1>4, <2>2, <2>3, <2>6, <3>1, Zenon DEF ClientPlace
  <2>11. \A k \in Conns : ServerPlace(k)'
    BY <1>2, <1>4, <2>4, <2>5, <2>9, ServersStay, Zenon
  <2> QED
    BY <1>4, <2>5, <2>9, <2>10, <2>11, QuietStep, Zenon DEF Places
<1> QED
  BY <1>3, <1>4, Zenon DEF Fail

\* A process goes on and nothing else changes, but for datagrams and signals.
LEMMA MoveStep ==
  ASSUME IInv, NEW e \in Ends, pc[e] # "none",
         DOMAIN pc' = Ends, \A t \in Ends \ {e} : pc'[t] = pc[t],
         \/ pc'[e] = pc[e]
         \/ /\ pc[e] \notin {"exit", "spin"} /\ pc'[e] \notin {"read data", "write data", "put"}
            /\ pc[e] \in {"read data", "write data"} => pc'[e] \in {"exit", "spin"},
         e # client => pc'[e] \in Handling(e) /\ (~ opts.udp /\ pc'[e] \in Sending => pc[e] \in Sending),
         Sends(e)' => Sends(e), ClientPlace',
         UNCHANGED <<opts, published, dest, nconn, sock, chan, resume, buf, cap, cursor, link>>,
         sig' \in BOOLEAN, net' \subseteq Nat \X Nat
  PROVE  IInv'
<1>1. TypeOK /\ Places
  BY Zenon DEF IInv
<1>2. TypeOK' /\ Unread
  BY <1>1, SameLinks, Zenon DEF TypeOK
<1>3. published <= published /\ cursor[e] <= cursor[e]
  BY <1>1, NoLess, Zenon
<1>4. Quiet(e)
  <2>1. pc[e] \in {"none", "exit", "spin"} => pc'[e] = pc[e]
    BY Zenon
  <2>2. pc'[e] \in {"read data", "write data", "put"} => pc'[e] = pc[e]
    BY Zenon
  <2>3. pc[e] \in {"read data", "write data"} => pc'[e] \in {pc[e], "exit", "spin"}
    BY Zenon
  <2>4. \A t \in Ends : cursor'[t] = cursor[t]
    BY Zenon
  <2> QED
    BY <1>2, <1>3, <2>1, <2>2, <2>3, <2>4, Zenon DEF Quiet
<1>5. \A k \in Conns : ServerPlace(k)'
  BY <1>2, <1>4, ServersStay, Zenon
<1> QED
  BY <1>2, <1>4, <1>5, QuietStep, Zenon DEF Places

\* An end goes on and leaves the other connections as they are.
LEMMA GoOn ==
  ASSUME IInv, TypeOK', NEW e \in Ends, Quiet(e), UNCHANGED <<dest, nconn>>, pc[e] # "none",
         \A k \in Conns \ {K(e)} : link'[k] = link[k],
         e # client => pc'[e] \in {"exit"} \cup Handling(e) /\ UNCHANGED resume,
         e = client => ClientPlace'
  PROVE  IInv'
<1>1. \A k \in Conns : ServerPlace(k)'
  BY ServersStay, Zenon
<1>2. e # client => pc'[client] = pc[client] /\ UNCHANGED <<opts, sock, chan, resume>>
  BY EndFacts, Zenon DEF Quiet
<1>3. e # client => Handling(client)' = Handling(client) /\ Resuming' = Resuming
  BY <1>2, EndFacts, SameOptions, Zenon
<1>4. ASSUME ClientPlace, e # client
      PROVE  ClientPlace'
  <2>1. /\ pc'[client] = pc[client] /\ sock' = sock /\ chan' = chan /\ resume' = resume
        /\ Handling(client)' = Handling(client) /\ Resuming' = Resuming
    BY <1>2, <1>3, <1>4, Zenon
  <2> QED
    BY <1>4, <2>1, Zenon DEF ClientPlace, Dialling
<1>5. ClientPlace'
  BY <1>4, Zenon DEF IInv, Places
<1> QED
  BY <1>1, <1>5, QuietStep, Zenon DEF Places

-----------------------------------------------------------------------------
(* Connecting. *)

\* achd_reconnect() waits, and tries again.
LEMMA SleepStep ==
  ASSUME IInv, Sleep
  PROVE  IInv'
<1>1. TypeOK /\ ClientPlace /\ client \in Ends
  BY EndFacts, Zenon DEF IInv, Places
<1>2. /\ DOMAIN pc' = Ends /\ \A t \in Ends \ {client} : pc'[t] = pc[t]
      /\ pc'[client] = "connect" /\ pc[client] = "sleep"
  BY <1>1, GotoFacts, Zenon DEF Sleep
<1>3. /\ UNCHANGED <<opts, published, dest, nconn, sock, chan, resume, buf, cap, cursor, link>>
      /\ sig' \in BOOLEAN /\ net' \subseteq Nat \X Nat
  BY <1>1, Zenon DEF Sleep, clientVars, netVars, TypeOK
<1>4. Sends(client)' => Sends(client)
  BY <1>2, <1>3, Zenon DEF Sends, Dialling
<1>5. ClientPlace'
  <2>1. Handling(client)' = Handling(client) /\ Resuming' = Resuming
    BY <1>1, <1>3, SameOptions, Zenon
  <2>2. "connect" \notin Handling(client)
    BY Zenon DEF Handling, Sending, Receiving
  <2> QED
    BY <1>1, <1>2, <1>3, <2>1, <2>2, Zenon DEF ClientPlace, Dialling
<1> QED
  BY <1>1, <1>2, <1>3, <1>4, <1>5, MoveStep, Zenon

\* No connection is made.
LEMMA ConnectRefusedStep ==
  ASSUME IInv, ConnectRefused
  PROVE  IInv'
<1>1. TypeOK /\ ClientPlace /\ client \in Ends
  BY EndFacts, Zenon DEF IInv, Places
<1>2. /\ DOMAIN pc' = Ends /\ \A t \in Ends \ {client} : pc'[t] = pc[t]
      /\ pc'[client] = (IF chan /\ ~ sig THEN "sleep" ELSE "exit") /\ pc[client] = "connect"
  BY <1>1, GotoFacts, Zenon DEF ConnectRefused, ConnectFailed
<1>3. /\ UNCHANGED <<opts, published, dest, nconn, sock, chan, resume, buf, cap, cursor, link>>
      /\ sig' \in BOOLEAN /\ net' \subseteq Nat \X Nat
  BY <1>1, Zenon DEF ConnectRefused, clientVars, netVars, TypeOK
<1>4. Sends(client)' => Sends(client)
  BY <1>2, <1>3, Zenon DEF Sends, Dialling
<1>5. ClientPlace'
  <2>1. Handling(client)' = Handling(client) /\ Resuming' = Resuming
    BY <1>1, <1>3, SameOptions, Zenon
  <2>2. "exit" \notin Handling(client) /\ "sleep" \notin Handling(client)
    BY Zenon DEF Handling, Sending, Receiving
  <2> QED
    BY <1>1, <1>2, <1>3, <2>1, <2>2, Zenon DEF ClientPlace, Dialling
<1> QED
  BY <1>1, <1>2, <1>3, <1>4, <1>5, MoveStep, Zenon

\* Headers are written or read.
LEMMA RequestStep ==
  ASSUME IInv, Request
  PROVE  IInv'
<1>1. TypeOK /\ ClientPlace /\ client \in Ends /\ K(client) = sock
  BY EndFacts, Zenon DEF IInv, Places
<1>2. /\ DOMAIN pc' = Ends /\ \A t \in Ends \ {client} : pc'[t] = pc[t]
      /\ pc'[client] = "response" /\ pc[client] = "request"
  BY <1>1, GotoFacts, Zenon DEF Request
<1>3. UNCHANGED <<opts, published, dest, nconn, sock, sig, chan, resume, buf, cap, cursor, net>>
  BY Zenon DEF Request
<1>4. sock \in Conns
  BY <1>1, <1>2, EndFacts, Zenon DEF ClientPlace
<1> DEFINE y == [link[sock] EXCEPT !.req = Printed(sock)]
<1>5. link[sock] \in Link /\ Printed(sock) \in BOOLEAN
  BY <1>1, <1>4, Zenon DEF TypeOK, Printed
<1>6. y \in Link /\ y.data = link[sock].data /\ y.lost = link[sock].lost /\ link[sock].shut \subseteq y.shut
  BY <1>5, Zenon DEF Link
<1>7. SetLink(sock, y)
  BY Zenon DEF Request, SetLink
<1> HIDE DEF y
<1>8. link' \in [Conns -> Link] /\ Unread /\ \A k \in Conns \ {sock} : link'[k] = link[k]
  BY <1>1, <1>4, <1>6, <1>7, LinkFacts, Zenon
<1>9. TypeOK'
  BY <1>1, <1>2, <1>3, <1>8, Zenon DEF TypeOK
<1>10. Sends(client)' => Sends(client)
  BY <1>2, <1>3, Zenon DEF Sends, Dialling
<1>11. published <= published /\ cursor[client] <= cursor[client]
  BY <1>1, NoLess, Zenon
<1>12. Quiet(client)
  BY <1>2, <1>3, <1>8, <1>10, <1>11, Zenon DEF Quiet
<1>13. ClientPlace'
  <2>1. Handling(client)' = Handling(client) /\ Resuming' = Resuming
    BY <1>1, <1>3, SameOptions, Zenon
  <2>2. "response" \notin Handling(client)
    BY Zenon DEF Handling, Sending, Receiving
  <2> QED
    BY <1>1, <1>2, <1>3, <2>1, <2>2, Zenon DEF ClientPlace, Dialling
<1> QED
  BY <1>1, <1>2, <1>3, <1>8, <1>9, <1>12, <1>13, GoOn, Zenon

\* The headers cannot be sent.
LEMMA RequestFailsStep ==
  ASSUME IInv, RequestFails
  PROVE  IInv'
<1>1. TypeOK /\ ClientPlace /\ client \in Ends /\ K(client) = sock /\ pc[client] = "request"
  BY EndFacts, Zenon DEF IInv, Places, RequestFails
<1>2. UNCHANGED <<opts, published, dest, nconn, sig, chan, resume, buf, cap, cursor, net>>
  BY Zenon DEF RequestFails
<1>3. CASE Exit(client) /\ UNCHANGED sock
  BY <1>1, <1>2, <1>3, ExitStep, Zenon
<1>4. CASE ConnectFailed /\ SetLink(sock, Shut(client)) /\ sock' = 0
  <2>1. /\ DOMAIN pc' = Ends /\ \A t \in Ends \ {client} : pc'[t] = pc[t]
        /\ pc'[client] = (IF chan /\ ~ sig THEN "sleep" ELSE "exit")
    BY <1>1, <1>4, GotoFacts, Zenon DEF ConnectFailed
  <2>2. K(client) # 0
    BY <1>1, Zenon DEF ClientPlace
  <2>3. link' \in [Conns -> Link] /\ Unread /\ \A k \in Conns \ {sock} : link'[k] = link[k]
    BY <1>1, <1>4, <2>2, ShutFacts, Zenon
  <2>4. TypeOK'
    BY <1>1, <1>2, <1>4, <2>1, <2>3, Zenon DEF TypeOK
  <2>5. Sends(client)' => Sends(client)
    BY <1>1, <1>2, <2>1, Zenon DEF Sends, Dialling
  <2>6. published <= published /\ cursor[client] <= cursor[client]
    BY <1>1, NoLess, Zenon
  <2>7. Quiet(client)
    BY <1>1, <1>2, <1>4, <2>1, <2>3, <2>5, <2>6, Zenon DEF Quiet
  <2>8. ClientPlace'
    <3>1. Handling(client)' = Handling(client) /\ Resuming' = Resuming
      BY <1>1, <1>2, SameOptions, Zenon
    <3>2. "exit" \notin Handling(client) /\ "sleep" \notin Handling(client)
      BY Zenon DEF Handling, Sending, Receiving
    <3> QED
      BY <1>1, <1>2, <1>4, <2>1, <3>1, <3>2, Zenon DEF ClientPlace, Dialling
  <2> QED
    BY <1>1, <1>2, <2>3, <2>4, <2>7, <2>8, GoOn, Zenon
<1> QED
  BY <1>3, <1>4, Zenon DEF RequestFails

\* The reply of the server: the handler goes on where it was.
LEMMA ResponseStep ==
  ASSUME IInv, Response
  PROVE  IInv'
<1>1. TypeOK /\ ClientPlace /\ client \in Ends /\ K(client) = sock /\ pc[client] = "response"
  BY EndFacts, Zenon DEF IInv, Places, Response
<1>2. UNCHANGED <<opts, published, dest, nconn, sock, sig, chan, resume, buf, cap, cursor, net>>
  BY Zenon DEF Response, clientVars
<1>3. CASE Exit(client)
  BY <1>1, <1>2, <1>3, ExitStep, Zenon
<1>4. CASE /\ link' = [link EXCEPT ![sock].resp = "none"]
           /\ Goto(client, IF chan THEN resume ELSE "channel")
  <2>1. /\ DOMAIN pc' = Ends /\ \A t \in Ends \ {client} : pc'[t] = pc[t]
        /\ pc'[client] = (IF chan THEN resume ELSE "channel")
    BY <1>1, <1>4, GotoFacts, Zenon
  <2>2. sock \in Conns /\ (chan => resume \in Resuming)
    BY <1>1, EndFacts, Zenon DEF ClientPlace, Dialling
  <2> DEFINE y == [link[sock] EXCEPT !.resp = "none"]
  <2>3. link[sock] \in Link
    BY <1>1, <2>2, Zenon DEF TypeOK
  <2>4. y \in Link /\ y.data = link[sock].data /\ y.lost = link[sock].lost /\ link[sock].shut \subseteq y.shut
    BY <2>3, Zenon DEF Link
  <2>5. SetLink(sock, y)
    BY <1>4, Zenon DEF SetLink
  <2> HIDE DEF y
  <2>6. link' \in [Conns -> Link] /\ Unread /\ \A k \in Conns \ {sock} : link'[k] = link[k]
    BY <1>1, <2>2, <2>4, <2>5, LinkFacts, Zenon
  <2>7. TypeOK'
    BY <1>1, <1>2, <2>1, <2>6, Zenon DEF TypeOK
  <2>8. /\ Resuming \subseteq Handling(client) \ {"read data", "write data", "put"}
        /\ "write hdr" \in Resuming => opts.push /\ ~ opts.udp
        /\ "channel" \notin Handling(client) /\ \A l \in Handling(client) : l \notin Dialling \cup {"channel"}
    BY <1>1, EndFacts, Zenon DEF Resuming, Handling, Sending, Receiving, Dialling
  <2>9. Sends(client)' => Sends(client)
    BY <1>1, <1>2, <2>1, <2>2, <2>8, Zenon DEF Sends, Dialling
  <2>10. published <= published /\ cursor[client] <= cursor[client]
    BY <1>1, NoLess, Zenon
  <2>11. pc'[client] \notin {"read data", "write data", "put"}
    BY <2>1, <2>2, <2>8, Zenon
  <2>12. Quiet(client)
    BY <1>1, <1>2, <2>1, <2>6, <2>9, <2>10, <2>11, Zenon DEF Quiet
  <2>13. ClientPlace'
    <3>1. Handling(client)' = Handling(client)
      BY <1>1, <1>2, SameOptions, Zenon
    <3>2. sock' # 0 /\ chan' = chan
      BY <1>1, <1>2, Zenon DEF ClientPlace
    <3>3. pc'[client] \notin Dialling
      BY <2>1, <2>2, <2>8, Zenon DEF Dialling
    <3> QED
      BY <2>1, <2>2, <2>8, <3>1, <3>2, <3>3, Zenon DEF ClientPlace, Dialling
  <2> QED
    BY <1>1, <1>2, <2>6, <2>7, <2>12, <2>13, GoOn, Zenon
<1> QED
  BY <1>3, <1>4, Zenon DEF Response

\* A client that ends.
LEMMA ClientEnds ==
  ASSUME IInv, OpenChannelFails \/ GetCanceled \/ ReadSignalled
  PROVE  IInv'
<1>1. client \in Ends /\ Exit(client) /\ pc[client] \notin {"none", "exit", "spin"}
  BY EndFacts, Zenon DEF OpenChannelFails, GetCanceled, ReadSignalled
<1>2. UNCHANGED <<opts, published, dest, nconn, sock, sig, chan, resume, buf, cap, cursor, net>>
  BY Zenon DEF OpenChannelFails, GetCanceled, ReadSignalled, clientVars
<1> QED
  BY <1>1, <1>2, ExitStep, Zenon

\* The handler starts with a handle that has seen what is published.
LEMMA OpenChannelStep ==
  ASSUME IInv, OpenChannel
  PROVE  IInv'
<1>1. TypeOK /\ ClientPlace /\ client \in Ends /\ K(client) = sock /\ pc[client] = "channel"
  BY EndFacts, Zenon DEF IInv, Places, OpenChannel
<1>2. /\ UNCHANGED <<opts, published, dest, nconn, sock, sig, resume, buf, cap, net>> /\ chan' = TRUE
      /\ cursor' = [cursor EXCEPT ![client] = IF opts.push THEN published ELSE 0]
  BY Zenon DEF OpenChannel
<1>3. /\ DOMAIN pc' = Ends /\ \A t \in Ends \ {client} : pc'[t] = pc[t]
      /\ pc'[client] \in {"exit", Handler(client)}
  BY <1>1, GotoFacts, Zenon DEF OpenChannel, Exit
<1>4. link' \in [Conns -> Link] /\ Unread /\ \A k \in Conns \ {sock} : link'[k] = link[k]
  <2>1. K(client) # 0
    BY <1>1, Zenon DEF ClientPlace
  <2>2. (K(client) # 0 /\ SetLink(K(client), Shut(client))) \/ UNCHANGED link
    BY Zenon DEF OpenChannel, Exit
  <2> QED
    BY <1>1, <2>1, <2>2, ShutFacts, SameLinks, Zenon DEF TypeOK
<1>5. Handler(client) \in Handling(client) \ {"read data", "write data", "put", "write hdr"}
  BY Zenon DEF Handler, Handling, Sending, Receiving, recv_hdr
<1>6. /\ cursor \in [Ends -> Nat] /\ published \in Nat /\ cursor[client] <= published
      /\ \A e \in Ends : cursor[e] <= published
  BY <1>1, Zenon DEF TypeOK
<1>7. /\ cursor' \in [Ends -> Nat] /\ (\A t \in Ends \ {client} : cursor'[t] = cursor[t])
      /\ cursor'[client] = (IF opts.push THEN published ELSE 0)
  <2>1. 0 \in Nat
    BY Zenon
  <2> QED
    BY <1>1, <1>2, <1>6, <2>1, Zenon
<1>8. published <= published /\ 0 <= published
  BY <1>6
<1>9. TypeOK'
  <2>1. \A e \in Ends : cursor'[e] <= published'
    BY <1>2, <1>6, <1>7, <1>8, Zenon
  <2> QED
    BY <1>1, <1>2, <1>3, <1>4, <1>7, <2>1, Zenon DEF TypeOK
<1>10. ~ Sends(client)'
  <2>1. pc'[client] \notin Dialling \cup {"write hdr", "write data"}
    BY <1>3, Zenon DEF Handler, Dialling
  <2> QED
    BY <2>1, Zenon DEF Sends, Dialling
<1>11. /\ pc[client] \notin {"none", "exit", "spin", "read data", "write data"}
       /\ pc'[client] \notin {"read data", "write data", "put"}
  BY <1>1, <1>3, <1>5, Zenon
<1>12. Quiet(client)
  BY <1>1, <1>2, <1>3, <1>4, <1>6, <1>7, <1>8, <1>10, <1>11, Zenon DEF Quiet
<1>13. ClientPlace'
  <2>1. Handling(client)' = Handling(client) /\ "exit" \notin Handling(client)
    BY <1>1, <1>2, SameOptions, Zenon DEF Handling, Sending, Receiving
  <2>2. sock' # 0
    BY <1>1, <1>2, Zenon DEF ClientPlace
  <2>3. pc'[client] \notin Dialling \cup {"channel"}
    BY <1>3, Zenon DEF Handler, Dialling
  <2> QED
    BY <1>2, <1>3, <1>5, <2>1, <2>2, <2>3, Zenon DEF ClientPlace, Dialling
<1> QED
  BY <1>1, <1>2, <1>4, <1>9, <1>12, <1>13, GoOn, Zenon

\* A signal in achd_write().
LEMMA WriteSpinsStep ==
  ASSUME IInv, WriteSpins
  PROVE  IInv'
<1>1. /\ TypeOK /\ ClientPlace /\ client \in Ends
      /\ pc[client] \in {"request", "write hdr", "write data"}
  BY EndFacts, Zenon DEF IInv, Places, WriteSpins
<1>2. /\ UNCHANGED <<opts, published, dest, nconn, sock, chan, sig, resume, buf, cap, cursor, net>>
      /\ sig' \in BOOLEAN /\ net' \subseteq Nat \X Nat
  BY <1>1, Zenon DEF WriteSpins, clientVars, TypeOK
<1>3. CASE Exit(client)
  BY <1>1, <1>2, <1>3, ExitStep, Zenon
<1>4. CASE Goto(client, "spin") /\ UNCHANGED link
  <2>1. DOMAIN pc' = Ends /\ (\A t \in Ends \ {client} : pc'[t] = pc[t]) /\ pc'[client] = "spin"
    BY <1>1, <1>4, GotoFacts, Zenon
  <2>2. ~ Sends(client)'
    BY <2>1, Zenon DEF Sends, Dialling
  <2>3. ClientPlace'
    <3>1. Handling(client)' = Handling(client) /\ "spin" \notin Handling(client)
      BY <1>1, <1>2, SameOptions, Zenon DEF Handling, Sending, Receiving
    <3> QED
      BY <2>1, <3>1, Zenon DEF ClientPlace, Dialling
  <2> QED
    BY <1>1, <1>2, <1>4, <2>1, <2>2, <2>3, MoveStep, Zenon
<1> QED
  BY <1>3, <1>4, Zenon DEF WriteSpins

-----------------------------------------------------------------------------
(* The server, the network and SIGTERM. *)

\* A server ends before it has served, or is killed.
LEMMA ServerEnds ==
  ASSUME IInv, NEW k \in Conns, ServeNothing(k) \/ ServerDies(k)
  PROVE  IInv'
<1>1. k \in Ends /\ ServerPlace(k)
  BY EndFacts, Zenon DEF IInv, Places
<1>2. Exit(k) /\ pc[k] \notin {"none", "exit", "spin"}
  <2>1. pc[k] # "spin"
    BY <1>1, Zenon DEF ServerPlace, Handling, Sending, Receiving
  <2> QED
    BY <2>1, Zenon DEF ServeNothing, ServerDies
<1>3. UNCHANGED <<opts, published, dest, nconn, sock, sig, chan, resume, buf, cap, cursor, net>>
  BY Zenon DEF ServeNothing, ServerDies, clientVars
<1> QED
  BY <1>1, <1>2, <1>3, ExitStep, Zenon

\* A server flushes its channel and starts its handler, or says why not.
LEMMA ServeStep ==
  ASSUME IInv, NEW k \in Conns, Serve(k)
  PROVE  IInv'
<1>1. /\ TypeOK /\ ServerPlace(k) /\ k \in Ends /\ k # client /\ K(k) = k /\ pc[k] = "headers"
      /\ Pushes(k) = ~ opts.push
  BY EndFacts, Zenon DEF IInv, Places, Serve
<1>2. UNCHANGED <<opts, published, dest, nconn, sock, sig, chan, resume, buf, cap, net>>
  BY Zenon DEF Serve, clientVars
<1>3. link \in [Conns -> Link] /\ link[k] \in Link /\ Printed(k) \in BOOLEAN
  BY <1>1, Zenon DEF TypeOK, Printed
<1>4. Handler(k) \in Handling(k) /\ Handler(k) \notin {"exit", "read data", "write data", "put", "write hdr"}
  BY Zenon DEF Handler, Handling, Sending, Receiving, recv_hdr
<1>5. cursor \in [Ends -> Nat] /\ published \in Nat /\ \A e \in Ends : cursor[e] <= published
  BY <1>1, Zenon DEF TypeOK
<1>6. published <= published /\ 0 <= published /\ 0 \in Nat
  BY <1>5
<1> DEFINE served == [link[k] EXCEPT !.req = FALSE, !.resp = IF Printed(k) THEN "ok" ELSE "none"]
           refused == [link[k] EXCEPT !.req = FALSE, !.resp = IF Printed(k) THEN "error" ELSE "none",
                                      !.shut = @ \cup {"server"}]
<1>7. \A y \in {served, refused} :
        y \in Link /\ y.data = link[k].data /\ y.lost = link[k].lost /\ link[k].shut \subseteq y.shut
  <2>1. /\ served \in Link /\ served.data = link[k].data /\ served.lost = link[k].lost
        /\ link[k].shut \subseteq served.shut
    BY <1>3, Zenon DEF Link
  <2>2. /\ refused \in Link /\ refused.data = link[k].data /\ refused.lost = link[k].lost
        /\ link[k].shut \subseteq refused.shut
    BY <1>3, Zenon DEF Link
  <2> HIDE DEF served, refused
  <2> QED
    BY <2>1, <2>2, Zenon
<1>8. (SetLink(k, served) /\ pc' = [pc EXCEPT ![k] = Handler(k)]) \/ (SetLink(k, refused) /\ pc' = [pc EXCEPT ![k] = "exit"])
  BY <1>3, Zenon DEF Serve, achd_error_header, SetLink, Goto
<1> HIDE DEF served, refused
<1>9. link' \in [Conns -> Link] /\ Unread /\ \A j \in Conns \ {k} : link'[j] = link[j]
  BY <1>1, <1>7, <1>8, LinkFacts, Zenon
<1>10. /\ DOMAIN pc' = Ends /\ \A t \in Ends \ {k} : pc'[t] = pc[t]
       /\ pc'[k] \in {"exit", Handler(k)}
  BY <1>1, <1>8, Zenon DEF TypeOK
<1>11. /\ cursor' \in [Ends -> Nat] /\ (\A t \in Ends \ {k} : cursor'[t] = cursor[t])
       /\ cursor'[k] \in {cursor[k], 0, published}
       /\ pc'[k] # "exit" => cursor'[k] = (IF opts.push THEN 0 ELSE published)
  <2>1. CASE cursor' = [cursor EXCEPT ![k] = IF opts.push THEN 0 ELSE published]
    BY <1>1, <1>5, <1>6, <2>1, Zenon
  <2>2. CASE achd_error_header(k) /\ UNCHANGED cursor
    <3>1. pc'[k] = "exit"
      BY <1>1, <2>2, Zenon DEF achd_error_header, Goto, TypeOK
    <3> QED
      BY <1>5, <2>2, <3>1, Zenon
  <2> QED
    BY <2>1, <2>2, Zenon DEF Serve
<1>12. TypeOK'
  <2>1. \A e \in Ends : cursor'[e] <= published'
    BY <1>2, <1>5, <1>6, <1>11, Zenon
  <2> QED
    BY <1>1, <1>2, <1>9, <1>10, <1>11, <2>1, Zenon DEF TypeOK
<1>13. ~ Sends(k)'
  BY <1>1, <1>4, <1>10, Zenon DEF Sends
<1>14. /\ pc[k] \notin {"none", "exit", "spin", "read data", "write data"}
       /\ pc'[k] \notin {"read data", "write data", "put"}
  BY <1>1, <1>4, <1>10, Zenon
<1>15. ~ opts.udp /\ pc'[k] \in Sending => cursor'[k] = published /\ pc'[k] = "get"
  BY <1>1, <1>10, <1>11, Zenon DEF Handler, Sending, recv_hdr, Pushes
<1>16. Quiet(k)
  BY <1>1, <1>2, <1>6, <1>9, <1>10, <1>11, <1>13, <1>14, <1>15, Zenon DEF Quiet
<1>17. pc'[k] \in {"exit"} \cup Handling(k)
  BY <1>4, <1>10, Zenon
<1> QED
  BY <1>1, <1>2, <1>9, <1>12, <1>16, <1>17, GoOn, Zenon

\* A new frame in the source channel is newer than all that are on their way.
LEMMA PublishStep ==
  ASSUME IInv, Publish
  PROVE  IInv'
<1>1. TypeOK /\ Places /\ client \in Ends
  BY EndFacts, Zenon DEF IInv
<1>2. UNCHANGED <<opts, dest, nconn, sock, sig, chan, resume, pc, buf, cap, cursor, link, net>>
  BY Zenon DEF Publish, clientVars, procVars, netVars
<1>3. published \in Nat /\ Len(opts.frames) \in Nat /\ published' = published + 1 /\ published < Len(opts.frames)
  BY <1>1, OptionFacts, Zenon DEF TypeOK, Publish
<1>4. /\ published' \in Nat /\ published <= published' /\ published' <= Len(opts.frames)
      /\ \A c \in Nat : c <= published => c <= published'
  BY <1>3
<1>5. TypeOK'
  BY <1>1, <1>2, <1>4, Zenon DEF TypeOK
<1>6. Unread /\ cursor[client] <= cursor[client]
  BY <1>1, <1>2, SameLinks, NoLess, Zenon
<1>7. Sends(client)' => Sends(client)
  BY <1>2, Zenon DEF Sends
<1>8. Quiet(client)
  BY <1>1, <1>2, <1>4, <1>6, <1>7, Zenon DEF Quiet
<1>9. Places'
  <2>1. Handling(client)' = Handling(client) /\ Resuming' = Resuming /\ \A k \in Conns : Handling(k)' = Handling(k)
    BY <1>1, <1>2, SameOptions, EndFacts, Zenon
  <2>2. ClientPlace'
    BY <1>1, <1>2, <2>1, Zenon DEF Places, ClientPlace
  <2>3. \A k \in Conns : ServerPlace(k)'
    BY <1>1, <1>2, <2>1, Zenon DEF Places, ServerPlace
  <2> QED
    BY <2>2, <2>3, Zenon DEF Places
<1> QED
  BY <1>1, <1>2, <1>5, <1>8, <1>9, QuietStep, Zenon

\* What a lost connection still carries is the front of what was on it.
LEMMA BreakStep ==
  ASSUME IInv, NEW k \in Conns, Break(k)
  PROVE  IInv'
<1>1. TypeOK /\ Places /\ client \in Ends /\ link \in [Conns -> Link] /\ link[k] \in Link
  BY EndFacts, Zenon DEF IInv, TypeOK
<1>2. UNCHANGED <<opts, published, dest, nconn, sock, sig, chan, resume, pc, buf, cap, cursor, net>>
  BY Zenon DEF Break, clientVars, procVars
<1>3. PICK n \in 0 .. Len(link[k].data), q \in {FALSE, link[k].req}, r \in {"none", link[k].resp} :
        SetLink(k, [link[k] EXCEPT !.lost = TRUE, !.data = SubSeq(@, 1, n), !.req = q, !.resp = r])
  BY Zenon DEF Break
<1> DEFINE d == link[k].data
           c == SubSeq(d, 1, n)
           y == [link[k] EXCEPT !.lost = TRUE, !.data = c, !.req = q, !.resp = r]
<1>4. d \in Seq(Unit) /\ Len(d) \in Nat /\ n \in 0 .. Len(d)
  BY <1>1, <1>3 DEF Link
<1>5. c \in Seq(Unit) /\ Len(c) = n /\ Len(c) <= Len(d) /\ \A i \in 1 .. Len(c) : c[i] = d[i]
  BY <1>4, CutAt
<1> HIDE DEF c, d
<1>6. y \in Link /\ y.data = c /\ y.lost /\ y.shut = link[k].shut
  BY <1>1, <1>5, Zenon DEF Link
<1>7. link' = [link EXCEPT ![k] = y]
  BY <1>3, Zenon DEF SetLink, c, d
<1> HIDE DEF y
<1>8. link' \in [Conns -> Link] /\ link'[k] = y /\ \A j \in Conns \ {k} : link'[j] = link[j]
  BY <1>1, <1>6, <1>7, Zenon
<1>9. Unread
  <2>1. \A j \in Conns : link[j].data \in Seq(Unit)
    BY <1>1, Zenon DEF Link
  <2>2. \A j \in Conns : Len(link[j].data) <= Len(link[j].data)
    BY <2>1
  <2> QED
    BY <1>5, <1>6, <1>8, <2>2, Zenon DEF Unread, d
<1>10. TypeOK'
  BY <1>1, <1>2, <1>8, Zenon DEF TypeOK
<1>11. published <= published /\ cursor[client] <= cursor[client]
  BY <1>1, NoLess, Zenon
<1>12. Sends(client)' => Sends(client)
  BY <1>2, Zenon DEF Sends
<1>13. Quiet(client)
  BY <1>1, <1>2, <1>9, <1>11, <1>12, Zenon DEF Quiet
<1>14. Places'
  <2>1. Handling(client)' = Handling(client) /\ Resuming' = Resuming /\ \A j \in Conns : Handling(j)' = Handling(j)
    BY <1>1, <1>2, SameOptions, EndFacts, Zenon
  <2>2. ClientPlace'
    BY <1>1, <1>2, <2>1, Zenon DEF Places, ClientPlace
  <2>3. \A j \in Conns : j > nconn => j # k
    <3>1. nconn \in Nat /\ k \in Nat /\ k <= nconn
      BY <1>1, EndFacts, Zenon DEF TypeOK, Break
    <3> QED
      BY <3>1
  <2>4. d = <<>> => c = <<>>
    BY <1>4, <1>5
  <2>5. \A j \in Conns : ServerPlace(j)'
    BY <1>1, <1>2, <1>6, <1>8, <2>1, <2>3, <2>4, Zenon DEF Places, ServerPlace, d
  <2> QED
    BY <2>2, <2>5, Zenon DEF Places
<1> QED
  BY <1>1, <1>2, <1>10, <1>13, <1>14, QuietStep, Zenon

\* A datagram, or a signal.
LEMMA DatagramTermStep ==
  ASSUME IInv, Datagram \/ Term
  PROVE  IInv'
<1>1. TypeOK /\ ClientPlace /\ client \in Ends
  BY EndFacts, Zenon DEF IInv, Places
<1>2. /\ UNCHANGED <<opts, published, dest, nconn, sock, chan, resume, pc, buf, cap, cursor, link>>
      /\ sig' \in BOOLEAN
  BY <1>1, Zenon DEF Datagram, Term, clientVars, procVars, netVars, TypeOK
<1>3. net' \subseteq Nat \X Nat
  <2>1. net \subseteq Nat \X Nat /\ <<0, sock>> \in Nat \X Nat
    BY <1>1 DEF TypeOK
  <2> QED
    BY <2>1, Zenon DEF Datagram, Lose, Stray, Term, netVars
<1>4. (Sends(client)' => Sends(client)) /\ pc[client] # "none"
  BY <1>1, <1>2, Zenon DEF Sends, ClientPlace, Dialling, Handling, Sending, Receiving
<1>5. ClientPlace'
  <2>1. Handling(client)' = Handling(client) /\ Resuming' = Resuming
    BY <1>1, <1>2, SameOptions, Zenon
  <2> QED
    BY <1>1, <1>2, <2>1, Zenon DEF ClientPlace
<1> QED
  BY <1>1, <1>2, <1>3, <1>4, <1>5, MoveStep, Zenon DEF TypeOK

-----------------------------------------------------------------------------
(* The handlers: steps that move no frame over TCP. *)

\* What the place of a handler says of its direction and transport.
LEMMA HandlerFacts ==
  ASSUME IInv, NEW e \in Ends,
         pc[e] \in {"get", "write hdr", "write data", "poll", "send", "read", "read data", "recv", "put"}
  PROVE  /\ TypeOK /\ pc[e] \in Handling(e) /\ K(e) \in Conns /\ (e = client => ClientPlace /\ chan)
         /\ pc[e] \in {"get", "write hdr", "write data", "send"} => Pushes(e)
         /\ pc[e] \in {"read", "read data", "recv", "put"} => ~ Pushes(e)
         /\ pc[e] \in {"write hdr", "write data", "read", "read data"} => ~ opts.udp
         /\ pc[e] \in {"poll", "send", "recv"} => opts.udp
<1>1. TypeOK /\ ClientPlace /\ (e \in Conns => ServerPlace(e))
  BY Zenon DEF IInv, Places
<1>2. pc[e] \in Handling(e)
  BY <1>1, EndFacts, Zenon DEF ClientPlace, ServerPlace, Dialling
<1>3. K(e) \in Conns /\ (e = client => chan)
  BY <1>1, <1>2, EndFacts, Zenon DEF ClientPlace
<1>4. /\ pc[e] \in {"get", "write hdr", "write data", "send"} => Pushes(e)
      /\ pc[e] \in {"read", "read data", "recv", "put"} => ~ Pushes(e)
  BY <1>2, Zenon DEF Handling, Sending, Receiving
<1>5. /\ pc[e] \in {"write hdr", "write data", "read", "read data"} => ~ opts.udp
      /\ pc[e] \in {"poll", "send", "recv"} => opts.udp
  BY <1>2, Zenon DEF Handling, Sending, Receiving
<1> QED
  BY <1>1, <1>2, <1>3, <1>4, <1>5, Zenon

\* The client is where it can be after a step of its handler.
LEMMA ClientHandles ==
  ASSUME IInv, pc[client] \in Handling(client), pc'[client] \in Handling(client),
         UNCHANGED <<opts, sock, chan>>
  PROVE  ClientPlace'
<1>1. ClientPlace
  BY Zenon DEF IInv, Places
<1>2. Handling(client)' = Handling(client)
  BY EndFacts, SameOptions, Zenon
<1>3. \A l \in Handling(client) : l \notin Dialling \cup {"channel"}
  BY Zenon DEF Handling, Sending, Receiving, Dialling
<1>4. chan' /\ sock' # 0
  BY <1>1, Zenon DEF ClientPlace
<1> QED
  BY <1>2, <1>3, <1>4, Zenon DEF ClientPlace, Dialling

\* A handler goes on, and may send or take a datagram.
LEMMA HandlerMoves ==
  ASSUME IInv, NEW e \in Ends, pc[e] \in Handling(e) \ {"read data", "write data"},
         NEW l \in Handling(e) \ {"read data", "write data", "write hdr", "put"}, Goto(e, l),
         UNCHANGED <<opts, published, dest, nconn, sock, sig, chan, resume, buf, cap, cursor, link>>,
         net' \subseteq Nat \X Nat
  PROVE  IInv'
<1>1. TypeOK
  BY Zenon DEF IInv
<1>2. DOMAIN pc' = Ends /\ pc'[e] = l /\ \A t \in Ends \ {e} : pc'[t] = pc[t]
  BY <1>1, GotoFacts, Zenon
<1>3. pc[e] \notin {"none", "exit", "spin"} /\ l \notin Dialling /\ (~ opts.udp /\ l \in Sending => pc[e] \in Sending)
  BY Zenon DEF Handling, Sending, Receiving, Dialling
<1>4. ~ Sends(e)'
  BY <1>2, <1>3, Zenon DEF Sends, Dialling
<1>5. ClientPlace'
  <2>1. CASE e = client
    BY <1>2, <2>1, ClientHandles, Zenon
  <2>2. CASE e # client
    <3>1. pc'[client] = pc[client]
      BY <1>2, <2>2, EndFacts, Zenon
    <3>2. Handling(client)' = Handling(client) /\ Resuming' = Resuming
      BY EndFacts, SameOptions, Zenon
    <3>3. ClientPlace
      BY Zenon DEF IInv, Places
    <3> QED
      BY <3>1, <3>2, <3>3, Zenon DEF ClientPlace, Dialling
  <2> QED
    BY <2>1, <2>2, Zenon
<1>6. sig' \in BOOLEAN
  BY <1>1, Zenon DEF TypeOK
<1> QED
  BY <1>2, <1>3, <1>4, <1>5, <1>6, MoveStep, Zenon

\* A frame that was not written is sent again, with both of its units.
LEMMA WriteFailsStep ==
  ASSUME IInv, NEW e \in Ends, WriteFails(e)
  PROVE  IInv'
<1>1. /\ pc[e] \in {"write hdr", "write data"} /\ Fail(e, "write hdr")
      /\ UNCHANGED <<opts, published, dest, nconn, sig, chan, buf, cap, cursor, net>>
  BY Zenon DEF WriteFails
<1>2. pc[e] \in Handling(e) /\ Pushes(e) /\ ~ opts.udp
  BY <1>1, HandlerFacts, Zenon
<1>3. e = client => "write hdr" \in Resuming /\ Sends(client)
  BY <1>1, <1>2, EndFacts, Zenon DEF Resuming, Sends
<1> QED
  BY <1>1, <1>2, <1>3, FailStep, Zenon

\* What is left of a frame whose connection ended is forgotten.
LEMMA ReadFailsStep ==
  ASSUME IInv, NEW e \in Ends, ReadFails(e)
  PROVE  IInv'
<1>1. /\ pc[e] \in {"read", "read data"} /\ Fail(e, "read")
      /\ UNCHANGED <<opts, published, dest, nconn, sig, chan, buf, cap, cursor, net>>
  BY Zenon DEF ReadFails
<1>2. pc[e] \in Handling(e) /\ ~ Pushes(e) /\ ~ opts.udp
  BY <1>1, HandlerFacts, Zenon
<1>3. e = client => "read" \in Resuming /\ ~ opts.push
  BY <1>2, EndFacts, Zenon DEF Resuming
<1> QED
  BY <1>1, <1>2, <1>3, FailStep, Zenon

\* The UDP handlers wait.
LEMMA PollStep ==
  ASSUME IInv, NEW e \in Ends, PollSend(e) \/ PollRecv(e)
  PROVE  IInv'
<1>1. /\ pc[e] = "poll"
      /\ UNCHANGED <<opts, published, dest, nconn, sig, chan, buf, cap, cursor, net>>
  BY Zenon DEF PollSend, PollRecv
<1>2. TypeOK /\ pc[e] \in Handling(e) /\ opts.udp
  BY <1>1, HandlerFacts, Zenon
<1>3. CASE Exit(e) /\ UNCHANGED <<resume, sock, fd>>
  BY <1>1, <1>3, ExitStep, Zenon
<1>4. ASSUME NEW l, Fail(e, l), e = client => l \in Resuming
      PROVE  IInv'
  BY <1>1, <1>2, <1>4, FailStep, Zenon
<1>5. ASSUME NEW l \in Handling(e) \ {"read data", "write data", "write hdr", "put"}, Goto(e, l),
             UNCHANGED <<link, resume, sock, fd>>
      PROVE  IInv'
  <2>1. net' \subseteq Nat \X Nat
    BY <1>1, <1>2, Zenon DEF TypeOK
  <2> QED
    BY <1>1, <1>2, <1>5, <2>1, HandlerMoves, Zenon
<1>6. CASE PollSend(e)
  <2>1. Pushes(e) /\ (e = client => "send" \in Resuming) /\ "send" \in Handling(e)
    BY <1>2, <1>6, EndFacts, Zenon DEF PollSend, Resuming, Handling, Sending
  <2> QED
    BY <1>3, <1>4, <1>5, <1>6, <2>1, Zenon DEF PollSend
<1>7. CASE PollRecv(e)
  <2>1. ~ Pushes(e) /\ (e = client => {"recv", "poll"} \subseteq Resuming) /\ "recv" \in Handling(e)
    BY <1>2, <1>7, EndFacts, Zenon DEF PollRecv, Resuming, Handling, Receiving
  <2>2. (IF Waiting(e) # {} THEN "recv" ELSE "poll") \in {"recv", "poll"}
    BY Zenon
  <2> QED
    BY <1>3, <1>4, <1>5, <1>7, <2>1, <2>2, Zenon DEF PollRecv
<1> QED
  BY <1>6, <1>7, Zenon

\* A datagram is sent.
LEMMA SendToStep ==
  ASSUME IInv, NEW e \in Ends, SendTo(e)
  PROVE  IInv'
<1>1. /\ pc[e] = "send"
      /\ UNCHANGED <<opts, published, dest, nconn, sock, sig, chan, resume, buf, cap, cursor>>
  BY Zenon DEF SendTo, clientVars
<1>2. TypeOK /\ pc[e] \in Handling(e) /\ opts.udp /\ Pushes(e) /\ K(e) \in Conns
  BY <1>1, HandlerFacts, Zenon
<1>3. CASE Exit(e) /\ UNCHANGED net
  BY <1>1, <1>3, ExitStep, Zenon
<1>4. CASE /\ net' = IF Cardinality(net) < WireCap THEN net \cup {<<buf[e][2], udp_peer(e)>>} ELSE net
           /\ Goto(e, "get") /\ UNCHANGED link
  <2>1. buf[e] \in Nat \X Nat /\ K(e) \in Nat
    BY <1>2, EndFacts, Zenon DEF TypeOK
  <2>2. <<buf[e][2], udp_peer(e)>> \in Nat \X Nat
    BY <2>1, Zenon DEF udp_peer
  <2>3. net' \subseteq Nat \X Nat
    BY <1>2, <1>4, <2>2, Zenon DEF TypeOK
  <2>4. "get" \in Handling(e)
    BY <1>2, Zenon DEF Handling, Sending
  <2> QED
    BY <1>1, <1>2, <1>4, <2>3, <2>4, HandlerMoves, Zenon
<1> QED
  BY <1>3, <1>4, Zenon DEF SendTo

\* The destination refuses a frame.
LEMMA PutFailsStep ==
  ASSUME IInv, NEW e \in Ends, PutFails(e)
  PROVE  IInv'
<1>1. /\ pc[e] = "put" /\ Exit(e)
      /\ UNCHANGED <<opts, published, dest, nconn, sock, sig, chan, resume, buf, cap, cursor, net>>
  BY Zenon DEF PutFails, clientVars
<1> QED
  BY <1>1, ExitStep, Zenon

\* A get returns a frame that is newer than all the handle has seen.
LEMMA GetFrameStep ==
  ASSUME IInv, NEW e \in Ends, GetFrame(e)
  PROVE  IInv'
<1> DEFINE n == NextFrame(cursor[e])
<1>1. /\ pc[e] = "get" /\ cursor[e] < published
      /\ UNCHANGED <<opts, published, dest, nconn, sock, sig, chan, resume, link, net>>
  BY Zenon DEF GetFrame, clientVars, netVars
<1>2. /\ TypeOK /\ pc[e] \in Handling(e) /\ Pushes(e) /\ cursor[e] \in Nat /\ published \in Nat
      /\ cursor \in [Ends -> Nat] /\ buf \in [Ends -> Nat \X Nat] /\ cap \in [Ends -> BOOLEAN]
      /\ \A t \in Ends : cursor[t] <= published
  BY <1>1, HandlerFacts, Zenon DEF TypeOK
<1>3. n \in Nat /\ cursor[e] < n /\ n <= published
  BY <1>1, <1>2, NextFrameNew, Zenon
<1>4. cursor[e] <= n /\ published <= published /\ cursor[e] <= cursor[e] /\ <<n, n>> \in Nat \X Nat
  BY <1>2, <1>3
<1>5. Unread
  BY <1>1, <1>2, SameLinks, Zenon
<1> HIDE DEF n
<1>6. CASE cap' = [cap EXCEPT ![e] = TRUE] /\ UNCHANGED <<pc, buf, cursor>>
  <2>1. cap' \in [Ends -> BOOLEAN] /\ \A t \in Ends : cap[t] => cap'[t]
    BY <1>2, <1>6, Zenon
  <2>2. TypeOK'
    BY <1>1, <1>2, <1>6, <2>1, Zenon DEF TypeOK
  <2>3. Sends(e)' => Sends(e)
    BY <1>1, <1>6, Zenon DEF Sends
  <2>4. Quiet(e)
    BY <1>1, <1>2, <1>4, <1>5, <1>6, <2>1, <2>3, Zenon DEF Quiet
  <2>5. e = client => ClientPlace'
    BY <1>1, <1>2, <1>6, ClientHandles, Zenon
  <2> QED
    BY <1>1, <1>2, <1>6, <2>2, <2>4, <2>5, GoOn, Zenon
<1>7. CASE /\ cursor' = [cursor EXCEPT ![e] = n] /\ buf' = [buf EXCEPT ![e] = <<n, n>>]
           /\ Goto(e, IF ~ opts.udp THEN "write hdr"
                      ELSE IF opts.frames[n] = "huge" THEN "get" ELSE "poll")
           /\ UNCHANGED cap
  <2>1. /\ DOMAIN pc' = Ends /\ \A t \in Ends \ {e} : pc'[t] = pc[t]
        /\ pc'[e] \in IF opts.udp THEN {"get", "poll"} ELSE {"write hdr"}
    BY <1>2, <1>7, GotoFacts, Zenon
  <2>2. /\ cursor' \in [Ends -> Nat] /\ cursor'[e] = n /\ \A t \in Ends \ {e} : cursor'[t] = cursor[t]
    BY <1>2, <1>3, <1>7, Zenon
  <2>3. buf' \in [Ends -> Nat \X Nat] /\ buf'[e] = <<n, n>> /\ \A t \in Ends \ {e} : buf'[t] = buf[t]
    BY <1>2, <1>4, <1>7, Zenon
  <2>4. TypeOK'
    <3>1. \A t \in Ends : cursor'[t] <= published'
      BY <1>1, <1>2, <1>3, <2>2, Zenon
    <3> QED
      BY <1>1, <1>2, <1>7, <2>1, <2>2, <2>3, <3>1, Zenon DEF TypeOK
  <2>5. pc[e] \in Sending /\ pc'[e] \in Handling(e) /\ pc'[e] \notin {"read data", "write data", "put"}
    BY <1>1, <1>2, <2>1, Zenon DEF Handling, Sending
  <2>6. Quiet(e)
    BY <1>1, <1>2, <1>3, <1>4, <1>5, <1>7, <2>1, <2>2, <2>3, <2>5, Zenon DEF Quiet
  <2>7. e = client => ClientPlace'
    BY <1>1, <1>2, <2>5, ClientHandles, Zenon
  <2>8. pc[e] # "none"
    BY <1>1, Zenon
  <2> QED
    BY <1>1, <2>4, <2>5, <2>6, <2>7, <2>8, GoOn, Zenon
<1> QED
  BY <1>6, <1>7, Zenon DEF GetFrame, n

\* A datagram fills the buffer of its receiver.
LEMMA RecvFromStep ==
  ASSUME IInv, NEW e \in Ends, RecvFrom(e)
  PROVE  IInv'
<1>1. /\ pc[e] = "recv"
      /\ UNCHANGED <<opts, published, dest, nconn, sock, sig, chan, resume, cap, cursor, link>>
  BY Zenon DEF RecvFrom, clientVars
<1>2. /\ IInv /\ TypeOK /\ Places /\ Buffers /\ WholeFrames /\ pc[e] \in Handling(e) /\ opts.udp /\ ~ Pushes(e)
      /\ net \subseteq Nat \X Nat /\ buf \in [Ends -> Nat \X Nat]
  BY <1>1, HandlerFacts, Zenon DEF IInv, TypeOK
<1>3. PICK m \in net :
        /\ net' = net \ {m}
        /\ \/ Goto(e, "poll") /\ UNCHANGED buf
           \/ Goto(e, "put") /\ buf' = [buf EXCEPT ![e] = <<m[1], m[1]>>]
  BY Zenon DEF RecvFrom
<1>4. net' \subseteq Nat \X Nat /\ m \in Nat \X Nat
  BY <1>2, <1>3, Zenon
<1>5. CASE Goto(e, "poll") /\ UNCHANGED buf
  <2>1. "poll" \in Handling(e)
    BY <1>2, Zenon DEF Handling, Receiving
  <2> QED
    BY <1>1, <1>2, <1>4, <1>5, <2>1, HandlerMoves, Zenon
<1>6. CASE Goto(e, "put") /\ buf' = [buf EXCEPT ![e] = <<m[1], m[1]>>]
  <2>1. DOMAIN pc' = Ends /\ pc'[e] = "put" /\ \A t \in Ends \ {e} : pc'[t] = pc[t]
    BY <1>2, <1>6, GotoFacts, Zenon
  <2>2. <<m[1], m[1]>> \in Nat \X Nat /\ <<m[1], m[1]>>[1] = <<m[1], m[1]>>[2]
    BY <1>4, Zenon
  <2>3. buf' \in [Ends -> Nat \X Nat] /\ buf'[e] = <<m[1], m[1]>> /\ \A t \in Ends \ {e} : buf'[t] = buf[t]
    BY <1>2, <1>6, <2>2, Zenon
  <2>4. TypeOK'
    BY <1>1, <1>2, <1>4, <2>1, <2>3, Zenon DEF TypeOK
  <2>5. /\ Resuming' = Resuming /\ Large' = Large
        /\ \A t \in Ends : Handling(t)' = Handling(t)
    BY <1>1, SameOptions, Zenon
  <2>6. "put" \in Handling(e)
    BY <1>2, Zenon DEF Handling, Receiving
  <2>7. ClientPlace'
    <3>1. CASE e = client
      BY <1>1, <1>2, <2>1, <2>6, <3>1, ClientHandles, Zenon
    <3>2. CASE e # client
      <4>1. pc'[client] = pc[client] /\ Handling(client)' = Handling(client) /\ ClientPlace
        BY <1>2, <2>1, <2>5, <3>2, EndFacts, Zenon DEF Places
      <4> QED
        BY <1>1, <2>5, <4>1, Zenon DEF ClientPlace, Dialling
    <3> QED
      BY <3>1, <3>2, Zenon
  <2>8. ASSUME NEW k \in Conns
        PROVE  ServerPlace(k)'
    <3>1. k \in Ends /\ ServerPlace(k) /\ Handling(k)' = Handling(k)
      BY <1>2, <2>5, EndFacts, Zenon DEF Places
    <3>2. CASE k = e
      <4>1. ~ (k > nconn)
        BY <1>1, <3>1, <3>2, Zenon DEF ServerPlace
      <4> QED
        BY <1>1, <2>1, <2>6, <3>1, <3>2, <4>1, Zenon DEF ServerPlace
    <3>3. CASE k # e
      BY <1>1, <2>1, <3>1, <3>3, Zenon DEF ServerPlace
    <3> QED
      BY <3>2, <3>3, Zenon
  <2>9. Buffers'
    <3>1. ASSUME NEW t \in Ends, Sends(t)'
          PROVE  t # e /\ Sends(t)
      <4>1. t # e
        BY <2>1, <3>1, Zenon DEF Sends, Dialling
      <4>2. pc'[t] = pc[t]
        BY <2>1, <4>1, Zenon
      <4> QED
        BY <1>1, <3>1, <4>1, <4>2, Zenon DEF Sends
    <3>2. \A t \in Ends : Sends(t)' => buf'[t] = <<cursor'[t], cursor'[t]>>
      BY <1>1, <1>2, <2>3, <3>1, Zenon DEF Buffers
    <3>3. \A t \in Ends : pc'[t] = "put" => buf'[t][1] = buf'[t][2]
      BY <1>2, <2>1, <2>2, <2>3, ZenonT(60) DEF Buffers
    <3> QED
      BY <1>1, <1>2, <3>2, <3>3, Zenon DEF Buffers
  <2>10. Stream' /\ PushOnce' /\ PullOrder'
    BY <1>1, <1>2, Zenon DEF Stream, On, PushOnce, PullOrder
  <2>11. WholeFrames'
    BY <1>1, <1>2, <2>5, Zenon DEF WholeFrames
  <2> QED
    BY <2>4, <2>7, <2>8, <2>9, <2>10, <2>11, Zenon DEF IInv, Places
<1> QED
  BY <1>3, <1>5, <1>6, Zenon

-----------------------------------------------------------------------------
(* Steps that move frames. *)

\* A frame that is put is a whole one.
LEMMA PutWhole ==
  ASSUME IInv, NEW e \in Ends, pc[e] = "put", ~ Sig(e), PutFrame(e)
  PROVE  /\ dest' \in Seq(Put) /\ WholeFrames' /\ Len(dest) \in Nat
         /\ Len(dest') = Len(dest) + 1 /\ dest'[Len(dest) + 1].data = buf[e][2]
         /\ \A i \in 1 .. Len(dest) : dest'[i] = dest[i]
         /\ \A n : Arrived(n)' <=> Arrived(n) \/ n = buf[e][2]
<1> DEFINE p == [hdr |-> buf[e][1], data |-> buf[e][2], conn |-> K(e), cut |-> buf[e][1] \in Large /\ ~ cap[e]]
<1>1. dest' = Append(dest, p) /\ UNCHANGED opts
  BY Zenon DEF PutFrame
<1>2. TypeOK /\ K(e) \in Nat /\ buf[e] \in Nat \X Nat /\ buf[e][1] = buf[e][2] /\ dest \in Seq(Put) /\ cap[e] \in BOOLEAN
  <2>1. K(e) \in Conns
    BY HandlerFacts, Zenon
  <2> QED
    BY <2>1, EndFacts, Zenon DEF IInv, TypeOK, Buffers
<1>3. p \in Put
  <2>1. (buf[e][1] \in Large /\ ~ cap[e]) \in BOOLEAN
    BY Zenon
  <2> QED
    BY <1>2, <2>1, Zenon DEF Put
<1>4. p.data = buf[e][2] /\ p.hdr = p.data /\ (p.cut => opts.udp /\ p.hdr \in Large)
  <2>1. p.data = buf[e][2] /\ p.hdr = buf[e][1] /\ p.cut = (buf[e][1] \in Large /\ ~ cap[e])
    BY Zenon
  <2>2. ~ opts.udp /\ buf[e][1] \in Large => cap[e]
    BY Zenon DEF IInv, Buffers
  <2> HIDE DEF p
  <2> QED
    BY <1>2, <2>1, <2>2, Zenon
<1> HIDE DEF p
<1>5. /\ dest' \in Seq(Put) /\ Len(dest) \in Nat /\ Len(dest') = Len(dest) + 1 /\ dest'[Len(dest) + 1] = p
      /\ \A i \in 1 .. Len(dest) : dest'[i] = dest[i]
  BY <1>1, <1>2, <1>3
<1>6. 1 .. Len(dest') = (1 .. Len(dest)) \cup {Len(dest) + 1}
  BY <1>5
<1>7. WholeFrames'
  <2>1. Large' = Large
    BY <1>1, SameOptions, Zenon
  <2> QED
    BY <1>1, <1>4, <1>5, <1>6, <2>1, ZenonT(60) DEF IInv, WholeFrames
<1>8. \A n : Arrived(n)' <=> Arrived(n) \/ n = buf[e][2]
  BY <1>4, <1>5, <1>6, Zenon DEF Arrived
<1> QED
  BY <1>4, <1>5, <1>7, <1>8, Zenon

\* After a put, what comes next is on the connection, and newer.
LEMMA PutOrder ==
  ASSUME IInv, NEW e \in Ends, Quiet(e), TypeOK', pc[e] = "put", pc'[e] # "put",
         NEW k \in Conns, Taker(k) = e, InTurn(k), UNCHANGED link
  PROVE  /\ Coming(k, buf[e][2])
         /\ \A n \in Nat : Coming(k, n)' => Coming(k, n) /\ buf[e][2] < n
<1>1. Taker(k)' = e /\ UNCHANGED opts
  BY Zenon DEF Taker, Quiet
<1>2. link[k].data \in Seq(Unit)
  BY Zenon DEF IInv, TypeOK, Link
<1>3. Coming(k, buf[e][2])
  BY Zenon DEF Coming
<1>4. ASSUME NEW n \in Nat, Coming(k, n)'
      PROVE  Coming(k, n) /\ buf[e][2] < n
  <2>1. PICK i \in 1 .. Len(link[k].data) : link[k].data[i] = <<"data", n>>
    BY <1>1, <1>4, Zenon DEF Coming
  <2>2. link[k].data[i][1] = "data" /\ link[k].data[i][2] = n
    BY <2>1
  <2> QED
    BY <2>1, <2>2, Zenon DEF InTurn, Coming
<1> QED
  BY <1>3, <1>4, Zenon

\* A frame is put in the destination.
LEMMA PutFrameStep ==
  ASSUME IInv, NEW e \in Ends, PutFrame(e)
  PROVE  IInv'
<1>1. /\ pc[e] = "put"
      /\ UNCHANGED <<opts, published, nconn, sock, sig, chan, resume, buf, cap, cursor, net>>
  BY Zenon DEF PutFrame, clientVars
<1>2. /\ TypeOK /\ pc[e] \in Handling(e) /\ ~ Pushes(e) /\ K(e) \in Conns
  BY <1>1, HandlerFacts, Zenon
<1>3. CASE Sig(e)
  BY <1>1, <1>3, ExitStep, Zenon DEF PutFrame
<1>4. CASE ~ Sig(e)
  <2> DEFINE b == buf[e][2]
  <2>1. Goto(e, Handler(e)) /\ UNCHANGED link
    BY <1>4, Zenon DEF PutFrame
  <2>2. /\ DOMAIN pc' = Ends /\ pc'[e] = Handler(e) /\ \A t \in Ends \ {e} : pc'[t] = pc[t]
        /\ pc'[e] \in {"poll", "read"} /\ pc'[e] \in Handling(e)
    BY <1>2, <2>1, GotoFacts, Zenon DEF Handler, Handling, Receiving, recv_hdr
  <2>3. /\ dest' \in Seq(Put) /\ WholeFrames' /\ Len(dest) \in Nat
        /\ Len(dest') = Len(dest) + 1 /\ dest'[Len(dest) + 1].data = b
        /\ \A i \in 1 .. Len(dest) : dest'[i] = dest[i]
        /\ \A n : Arrived(n)' <=> Arrived(n) \/ n = b
    BY <1>1, <1>4, PutWhole, Zenon
  <2>4. TypeOK' /\ b \in Nat
    <3>1. buf[e] \in Nat \X Nat
      BY <1>2, Zenon DEF TypeOK
    <3>2. b \in Nat
      BY <3>1, Zenon
    <3> QED
      BY <1>1, <1>2, <2>1, <2>2, <2>3, <3>2, Zenon DEF TypeOK
  <2>5. /\ published <= published /\ cursor[e] <= cursor[e] /\ Unread
        /\ (Sends(e)' => Sends(e)) /\ (~ opts.udp => pc'[e] \notin Sending)
    <3>1. pc'[e] \notin Dialling
      BY <2>2, Zenon DEF Dialling
    <3>2. ~ Sends(e)'
      BY <2>2, <3>1, Zenon DEF Sends, Dialling
    <3>3. ~ opts.udp => pc'[e] \notin Sending
      BY <2>2, Zenon DEF Sending
    <3> QED
      BY <1>2, <2>1, <3>2, <3>3, SameLinks, NoLess, Zenon
  <2>6. Quiet(e)
    BY <1>1, <2>2, <2>5, Zenon DEF Quiet
  <2>7. Places'
    <3>1. \A k \in Conns \ {K(e)} : link'[k] = link[k]
      BY <2>1, Zenon
    <3>2. \A k \in Conns : ServerPlace(k)'
      BY <1>1, <2>2, <2>4, <2>6, <3>1, ServersStay, Zenon
    <3>3. CASE e = client
      BY <1>1, <1>2, <2>2, <3>2, <3>3, ClientHandles, Zenon DEF Places
    <3>4. CASE e # client
      <4>1. pc'[client] = pc[client] /\ Handling(client)' = Handling(client) /\ Resuming' = Resuming /\ ClientPlace
        BY <1>1, <2>2, <3>4, EndFacts, SameOptions, Zenon DEF IInv, Places
      <4>2. ClientPlace'
        BY <1>1, <4>1, Zenon DEF ClientPlace, Dialling
      <4> QED
        BY <3>2, <4>2, Zenon DEF Places
    <3> QED
      BY <3>3, <3>4, Zenon
  <2>8. pc'[e] # "put" /\ \A i, j \in 1 .. Len(dest') : i < j => i \in 1 .. Len(dest) /\ (j \in 1 .. Len(dest) \/ j = Len(dest) + 1)
    BY <2>2, <2>3
  <2>9. ASSUME ~ opts.udp, opts.push
        PROVE  PushOnce'
    <3>1. e \in Conns /\ Taker(e) = e
      BY <1>2, <2>9, EndFacts, Zenon DEF Taker
    <3>2. /\ DeliveredOnce
          /\ \A n \in Nat : Arrived(n) => Before(n, client)
          /\ \A k \in Conns, n \in Nat : Coming(k, n) => Before(n, client) /\ ~ Arrived(n)
          /\ \A k, l \in Conns, n \in Nat : Coming(k, n) /\ Coming(l, n) => k = l
          /\ \A k \in Conns : InTurn(k)
      BY <2>9, Zenon DEF IInv, PushOnce
    <3>3. Coming(e, b) /\ \A n \in Nat : Coming(e, n)' => Coming(e, n) /\ b < n
      BY <1>1, <2>1, <2>4, <2>6, <2>8, <3>1, <3>2, PutOrder, Zenon
    <3>4. \A k \in Conns, n \in Nat : Coming(k, n)' => Coming(k, n)
      BY <2>4, <2>6, QuietFrames, Zenon
    <3>5. \A n \in Nat : Before(n, client) => Before(n, client)'
      BY <1>2, <2>4, <2>5, <2>6, <1>1, EndFacts, QuietBefore, Zenon
    <3>6. ASSUME NEW k \in Conns, NEW n \in Nat, Coming(k, n)'
          PROVE  n # b
      <4>1. SUFFICES ASSUME n = b PROVE FALSE
        BY Zenon
      <4>2. k = e
        BY <2>4, <3>1, <3>2, <3>3, <3>4, <3>6, <4>1, ZenonT(60)
      <4>3. b < b
        BY <2>4, <3>3, <3>6, <4>1, <4>2, Zenon
      <4> QED
        BY <2>4, <4>3
    <3>7. DeliveredOnce'
      <4>1. \A i \in 1 .. Len(dest) : dest[i].data # b
        BY <2>4, <3>1, <3>2, <3>3, Zenon DEF Arrived
      <4>2. \A i, j \in 1 .. Len(dest') : i < j => dest'[i].data # dest'[j].data
        <5>1. \A i, j \in 1 .. Len(dest) : i < j => dest[i].data # dest[j].data
          BY <2>3, <2>9, <3>2 DEF DeliveredOnce
        <5>2. ASSUME NEW i \in 1 .. Len(dest'), NEW j \in 1 .. Len(dest'), i < j
              PROVE  dest'[i].data # dest'[j].data
          <6>1. i \in 1 .. Len(dest) /\ dest'[i] = dest[i] /\ (j \in 1 .. Len(dest) \/ j = Len(dest) + 1)
            BY <2>3, <2>8, <5>2, Zenon
          <6>2. j \in 1 .. Len(dest) => dest'[j] = dest[j]
            BY <2>3, Zenon
          <6> QED
            BY <2>3, <4>1, <5>1, <5>2, <6>1, <6>2, ZenonT(60)
        <5> QED
          BY <5>2, Zenon
      <4>3. \A i, j \in 1 .. Len(dest') : i # j => i < j \/ j < i
        BY <2>3
      <4> QED
        BY <4>2, <4>3, Zenon DEF DeliveredOnce
    <3>8. \A k \in Conns : InTurn(k)'
      BY <2>4, <2>6, <3>2, QuietFrames, Zenon
    <3>9. \A n \in Nat : Arrived(n)' => Before(n, client)'
      BY <2>3, <3>1, <3>2, <3>3, <3>5, Zenon
    <3>10. \A k \in Conns, n \in Nat : Coming(k, n)' => Before(n, client)' /\ ~ Arrived(n)'
      BY <2>3, <3>2, <3>4, <3>5, <3>6, ZenonT(60)
    <3>11. \A k, l \in Conns, n \in Nat : Coming(k, n)' /\ Coming(l, n)' => k = l
      BY <3>2, <3>4, Zenon
    <3> QED
      BY <3>7, <3>8, <3>9, <3>10, <3>11, Zenon DEF PushOnce
  <2>10. ASSUME ~ opts.udp, ~ opts.push
         PROVE  PullOrder'
    <3>1. e = client /\ sock \in Conns /\ Taker(sock) = e
      BY <1>2, <2>10, EndFacts, Zenon DEF Taker
    <3>2. /\ PullInOrder
          /\ \A n \in Nat : Arrived(n) => n <= published
          /\ InTurn(sock)
          /\ \A n \in Nat : Coming(sock, n) => n <= published /\ \A m \in Nat : Arrived(m) => m < n
          /\ pc[sock] \in Sending => \A n \in Nat : Arrived(n) \/ Coming(sock, n) => Before(n, sock)
      BY <2>10, <3>1, Zenon DEF IInv, PullOrder
    <3>3. Coming(sock, b) /\ \A k \in Conns : k = sock => \A n \in Nat : Coming(k, n)' => Coming(k, n) /\ b < n
      BY <1>1, <2>1, <2>4, <2>6, <2>8, <3>1, <3>2, PutOrder, Zenon
    <3>4. PullInOrder'
      <4>1. \A i \in 1 .. Len(dest) : dest[i].data < b
        <5>1. \A i \in 1 .. Len(dest) : dest[i].data \in Nat
          <6>1. dest \in Seq(Put)
            BY <1>2, Zenon DEF TypeOK
          <6>2. \A i \in 1 .. Len(dest) : dest[i] \in Put
            BY <6>1
          <6> QED
            BY <6>2, Zenon DEF Put
        <5> QED
          BY <2>4, <3>2, <3>3, <5>1, Zenon DEF Arrived
      <4>2. \A i, j \in 1 .. Len(dest) : i < j => dest[i].data < dest[j].data
        BY <2>10, <3>2, Zenon DEF PullInOrder
      <4> QED
        BY <2>3, <2>8, <4>1, <4>2, Zenon DEF PullInOrder
    <3>5. ASSUME NEW k \in Conns, k = sock'
          PROVE  /\ InTurn(k)'
                 /\ \A n \in Nat : Coming(k, n)' =>
                      n <= published' /\ \A m \in Nat : Arrived(m)' => m < n
                 /\ pc'[k] \in Sending' => \A n \in Nat : Arrived(n)' \/ Coming(k, n)' => Before(n, k)'
      <4>1. k = sock /\ k # e /\ k \in Ends
        BY <1>1, <3>1, <3>5, EndFacts, Zenon
      <4>2. InTurn(k)'
        BY <2>4, <2>6, <3>2, <4>1, QuietFrames, Zenon
      <4>3. \A n \in Nat : Coming(k, n)' => n <= published' /\ \A m \in Nat : Arrived(m)' => m < n
        BY <1>1, <2>3, <3>2, <3>3, <4>1, Zenon
      <4>4. pc'[k] = pc[k] /\ Sending' = Sending
        BY <1>1, <2>2, <4>1, SameOptions, Zenon
      <4>5. pc[k] \in Sending => \A n \in Nat : Arrived(n)' \/ Coming(k, n)' => Before(n, k)
        BY <2>3, <3>2, <3>3, <4>1, Zenon
      <4>6. \A n \in Nat : Before(n, k) => Before(n, k)'
        BY <1>2, <2>4, <2>6, <4>1, QuietBefore, Zenon
      <4> QED
        BY <4>2, <4>3, <4>4, <4>5, <4>6, Zenon
    <3> QED
      BY <1>1, <2>3, <2>4, <3>2, <3>3, <3>4, <3>5, Zenon DEF PullOrder
  <2>11. PushOnce' /\ PullOrder'
    BY <1>1, <2>9, <2>10, Zenon DEF PushOnce, PullOrder
  <2> QED
    BY <2>3, <2>4, <2>6, <2>7, <2>11, QuietBuffers, QuietStream, Zenon DEF IInv
<1> QED
  BY <1>3, <1>4, Zenon

\* A connection has one sender and one receiver.
LEMMA OneSender ==
  ASSUME NEW e \in Ends, NEW t \in Ends, NEW k \in Conns, K(e) = k, K(t) = k, Pushes(e) = Pushes(t), opts.push \in BOOLEAN
  PROVE  e = t
BY EndFacts, Zenon

\* Written to a connection that is gone, a unit is lost.
LEMMA WrittenGone ==
  ASSUME IInv, NEW e \in Ends, Written(e), Gone(e)
  PROVE  IInv'
<1>1. /\ pc[e] \in {"write hdr", "write data"}
      /\ UNCHANGED <<opts, published, dest, nconn, sock, sig, chan, resume, buf, cap, cursor, link, net>>
  BY Zenon DEF Written, clientVars
<1>2. TypeOK /\ pc[e] \in Handling(e) /\ Pushes(e) /\ ~ opts.udp
  BY <1>1, HandlerFacts, Zenon
<1>3. /\ DOMAIN pc' = Ends /\ pc'[e] \in {"write data", "get"} /\ \A t \in Ends \ {e} : pc'[t] = pc[t]
  BY <1>2, GotoFacts, Zenon DEF Written
<1>4. TypeOK' /\ Unread /\ published <= published /\ cursor[e] <= cursor[e]
  BY <1>1, <1>2, <1>3, SameLinks, NoLess, Zenon DEF TypeOK
<1>5. Sends(e) /\ pc[e] \in Sending /\ pc'[e] \in Handling(e)
  BY <1>1, <1>2, <1>3, Zenon DEF Sends, Sending, Handling
<1>6. Quiet(e)
  BY <1>1, <1>3, <1>4, <1>5, Zenon DEF Quiet
<1>7. e = client => ClientPlace'
  BY <1>1, <1>2, <1>5, ClientHandles, Zenon
<1>8. pc[e] # "none"
  BY <1>1, Zenon
<1> QED
  BY <1>1, <1>4, <1>5, <1>6, <1>7, <1>8, GoOn, Zenon

\* What a write changes.
Appended(e, u) ==
  LET k == K(e)
  IN /\ pc[e] \in {"write hdr", "write data"}
     /\ UNCHANGED <<opts, published, dest, nconn, sock, sig, chan, resume, buf, cap, cursor, net>>
     /\ ~ opts.udp /\ Pushes(e) /\ ~ Gone(e) /\ k \in Conns
     /\ buf[e] = <<cursor[e], cursor[e]>> /\ cursor[e] \in Nat
     /\ u = <<IF pc[e] = "write hdr" THEN "hdr" ELSE "data", cursor[e]>> /\ u \in Unit
     /\ link' \in [Conns -> Link] /\ link'[k].data = Append(link[k].data, u)
     /\ link'[k].lost = link[k].lost /\ link'[k].shut = link[k].shut
     /\ \A j \in Conns \ {k} : link'[j] = link[j]
     /\ DOMAIN pc' = Ends /\ pc'[e] = (IF pc[e] = "write hdr" THEN "write data" ELSE "get")
     /\ \A t \in Ends \ {e} : pc'[t] = pc[t]

\* achd_write() to an end that is there appends one unit.
LEMMA WrittenAppends ==
  ASSUME IInv, NEW e \in Ends, Written(e), ~ Gone(e)
  PROVE  \E u \in Unit : Appended(e, u)
<1> DEFINE k == K(e)
           u == <<IF pc[e] = "write hdr" THEN "hdr" ELSE "data", cursor[e]>>
           y == [link[k] EXCEPT !.data = Append(@, u)]
<1>1. /\ pc[e] \in {"write hdr", "write data"}
      /\ UNCHANGED <<opts, published, dest, nconn, sock, sig, chan, resume, buf, cap, cursor, net>>
  BY Zenon DEF Written, clientVars
<1>2. TypeOK /\ Pushes(e) /\ ~ opts.udp /\ k \in Conns
  BY <1>1, HandlerFacts, Zenon
<1>3. buf[e] = <<cursor[e], cursor[e]>> /\ cursor[e] \in Nat /\ link \in [Conns -> Link]
  BY <1>1, <1>2, Zenon DEF IInv, Buffers, Sends, TypeOK
<1>4. u \in Unit
  BY <1>3, Zenon DEF Unit
<1>5. link' = [link EXCEPT ![k] = y]
  <2>1. u = IF pc[e] = "write hdr" THEN <<"hdr", buf[e][1]>> ELSE <<"data", buf[e][2]>>
    <3>1. buf[e][1] = cursor[e] /\ buf[e][2] = cursor[e]
      BY <1>3
    <3> QED
      BY <3>1, Zenon
  <2> HIDE DEF u
  <2> QED
    BY <1>1, <2>1, Zenon DEF Written
<1> HIDE DEF u
<1>6. /\ y \in Link /\ y.data = Append(link[k].data, u) /\ y.lost = link[k].lost /\ y.shut = link[k].shut
  <2>1. link[k] \in Link
    BY <1>2, <1>3, Zenon
  <2>2. link[k].data \in Seq(Unit)
    BY <2>1, Zenon DEF Link
  <2>3. Append(link[k].data, u) \in Seq(Unit)
    BY <1>4, <2>2
  <2> QED
    BY <2>1, <2>3, Zenon DEF Link
<1> HIDE DEF y
<1>7. link' \in [Conns -> Link] /\ link'[k] = y /\ \A j \in Conns \ {k} : link'[j] = link[j]
  BY <1>2, <1>3, <1>5, <1>6, Zenon
<1>8. /\ DOMAIN pc' = Ends /\ pc'[e] = (IF pc[e] = "write hdr" THEN "write data" ELSE "get")
      /\ \A t \in Ends \ {e} : pc'[t] = pc[t]
  BY <1>2, GotoFacts, Zenon DEF Written
<1>9. Appended(e, u)
  BY <1>1, <1>2, <1>3, <1>4, <1>6, <1>7, <1>8, Zenon DEF Appended, u
<1> QED
  BY <1>4, <1>9, Zenon

\* The unit that is written continues what the receiver read or will read.
LEMMA AppendStream ==
  ASSUME IInv, NEW e \in Ends, NEW u \in Unit, Appended(e, u)
  PROVE  Stream'
<1>1. /\ ~ opts.udp /\ opts' = opts /\ buf' = buf /\ sock' = sock /\ Pushes(e) /\ K(e) \in Conns
      /\ TypeOK /\ opts.push \in BOOLEAN
      /\ pc'[e] = (IF pc[e] = "write hdr" THEN "write data" ELSE "get")
      /\ pc[e] \in {"write hdr", "write data"} /\ \A t \in Ends \ {e} : pc'[t] = pc[t]
  BY OptionFacts, Zenon DEF Appended, IInv
<1>2. \A t \in Ends : K(t)' = K(t) /\ Pushes(t)' = Pushes(t)
  BY <1>1, SameOptions, Zenon DEF K
<1>3. \A t \in Ends, k \in Conns : On(t, k)' = On(t, k)
  <2>1. \A t \in Ends : pc'[t] \in {"none", "exit", "spin"} <=> pc[t] \in {"none", "exit", "spin"}
    BY <1>1, Zenon
  <2> QED
    BY <1>1, <1>2, <2>1, Zenon DEF On
<1> SUFFICES ASSUME NEW k \in Conns, NEW r \in Ends, On(r, k), ~ Pushes(r)
             PROVE  LET d == link'[k].data
                    IN /\ d # <<>> => IF pc'[r] = "read data" THEN d[1] = <<"data", buf'[r][1]>>
                                      ELSE d[1][1] = "hdr"
                       /\ \A i \in 1 .. Len(d) - 1 :
                            IF d[i][1] = "hdr" THEN d[i + 1] = <<"data", d[i][2]>>
                            ELSE d[i + 1][1] = "hdr"
                       /\ \A t \in Ends : On(t, k)' /\ Pushes(t)' /\ ~ Gone(t)' =>
                            IF pc'[t] = "write data" THEN LastUnit(r)' = <<"hdr", buf'[t][2]>>
                            ELSE LastUnit(r)'[1] = "data"
  BY <1>2, <1>3, Zenon DEF Stream
<1> DEFINE d == link[k].data
           c == link'[k].data
<1>4. r # e /\ pc'[r] = pc[r] /\ K(r) = k /\ K(r)' = k
  BY <1>1, <1>2, Zenon DEF On
<1>5. /\ d # <<>> => IF pc[r] = "read data" THEN d[1] = <<"data", buf[r][1]>> ELSE d[1][1] = "hdr"
      /\ \A i \in 1 .. Len(d) - 1 :
           IF d[i][1] = "hdr" THEN d[i + 1] = <<"data", d[i][2]>> ELSE d[i + 1][1] = "hdr"
      /\ \A t \in Ends : On(t, k) /\ Pushes(t) /\ ~ Gone(t) =>
           IF pc[t] = "write data" THEN LastUnit(r) = <<"hdr", buf[t][2]>>
           ELSE LastUnit(r)[1] = "data"
  BY Zenon DEF IInv, Stream
<1>6. CASE K(e) # k
  <2>1. link'[k] = link[k]
    BY <1>6, Zenon DEF Appended
  <2>2. \A t \in Ends : On(t, k) => t # e /\ pc'[t] = pc[t] /\ Gone(t)' = Gone(t)
    BY <1>1, <1>2, <1>6, <2>1, Zenon DEF On, Gone
  <2>3. LastUnit(r)' = LastUnit(r)
    BY <1>1, <1>4, <2>1, Zenon DEF LastUnit
  <2>4. ASSUME NEW t \in Ends, On(t, k)', Pushes(t)', ~ Gone(t)'
        PROVE  IF pc'[t] = "write data" THEN LastUnit(r)' = <<"hdr", buf'[t][2]>>
               ELSE LastUnit(r)'[1] = "data"
    <3>1. On(t, k) /\ Pushes(t) /\ ~ Gone(t) /\ pc'[t] = pc[t]
      BY <1>2, <1>3, <2>2, <2>4, Zenon
    <3> QED
      BY <1>1, <1>5, <2>3, <3>1, Zenon
  <2> QED
    BY <1>1, <1>4, <1>5, <2>1, <2>4, ZenonT(60)
<1>7. CASE K(e) = k
  <2>1. d \in Seq(Unit) /\ c = Append(d, u)
    BY <1>1, <1>7, Zenon DEF Appended, TypeOK, Link
  <2>2. /\ Len(d) \in Nat /\ c # <<>> /\ Len(c) = Len(d) + 1 /\ c[Len(c)] = u
        /\ \A i \in 1 .. Len(d) : c[i] = d[i]
    BY <2>1
  <2> HIDE DEF c, d
  <2>3. On(e, k) /\ ~ Gone(e) /\ buf[e][2] = cursor[e]
    <3>1. buf[e] = <<cursor[e], cursor[e]>> /\ cursor[e] \in Nat
      BY Zenon DEF Appended
    <3>2. buf[e][2] = cursor[e]
      BY <3>1
    <3> QED
      BY <1>1, <1>7, <3>2, Zenon DEF Appended, On
  <2>4. u = IF pc[e] = "write hdr" THEN <<"hdr", cursor[e]>> ELSE <<"data", cursor[e]>>
    BY Zenon DEF Appended
  <2>5. IF pc[e] = "write data" THEN LastUnit(r) = <<"hdr", cursor[e]>> /\ u = <<"data", cursor[e]>>
        ELSE LastUnit(r)[1] = "data" /\ u[1] = "hdr"
    <3>1. pc[e] = "write hdr" => u[1] = "hdr"
      BY <2>4, Zenon
    <3> QED
      BY <1>1, <1>5, <2>3, <2>4, <3>1, Zenon
  <2>6. LastUnit(r) = IF d # <<>> THEN d[Len(d)] ELSE <<IF pc[r] = "read data" THEN "hdr" ELSE "data", buf[r][1]>>
    BY <1>4, Zenon DEF LastUnit, d
  <2>7. IF pc'[r] = "read data" THEN c[1] = <<"data", buf'[r][1]>> ELSE c[1][1] = "hdr"
    <3>1. CASE d # <<>>
      <4>1. c[1] = d[1]
        BY <2>1, <2>2, <3>1
      <4> QED
        BY <1>1, <1>4, <1>5, <3>1, <4>1, Zenon DEF d
    <3>2. CASE d = <<>>
      <4>1. c[1] = u
        BY <2>2, <3>2
      <4>2. LastUnit(r) = <<IF pc[r] = "read data" THEN "hdr" ELSE "data", buf[r][1]>>
        BY <2>6, <3>2, Zenon
      <4>3. /\ LastUnit(r)[1] = (IF pc[r] = "read data" THEN "hdr" ELSE "data")
            /\ LastUnit(r) = <<"hdr", cursor[e]>> => pc[r] = "read data" /\ buf[r][1] = cursor[e]
        <5>1. LastUnit(r)[1] = (IF pc[r] = "read data" THEN "hdr" ELSE "data") /\ LastUnit(r)[2] = buf[r][1]
          <6>1. ASSUME NEW h, NEW b, LastUnit(r) = <<h, b>>
                PROVE  LastUnit(r)[1] = h /\ LastUnit(r)[2] = b
            BY <6>1, Pairs, Zenon
          <6> QED
            BY <4>2, <6>1, Zenon
        <5>2. LastUnit(r) = <<"hdr", cursor[e]>> => LastUnit(r)[1] = "hdr" /\ LastUnit(r)[2] = cursor[e]
          BY Pairs, Zenon
        <5> QED
          BY <5>1, <5>2, Zenon
      <4> QED
        BY <1>1, <1>4, <2>5, <4>1, <4>3, Zenon
    <3> QED
      BY <3>1, <3>2, Zenon
  <2>8. ASSUME NEW i \in 1 .. Len(c) - 1
        PROVE  IF c[i][1] = "hdr" THEN c[i + 1] = <<"data", c[i][2]>> ELSE c[i + 1][1] = "hdr"
    <3>1. CASE i \in 1 .. Len(d) - 1
      <4>1. c[i] = d[i] /\ c[i + 1] = d[i + 1]
        BY <2>2, <3>1
      <4> QED
        BY <1>5, <3>1, <4>1, Zenon DEF d
    <3>2. CASE i = Len(d)
      <4>1. c[i] = d[Len(d)] /\ c[i + 1] = u /\ d # <<>>
        BY <2>1, <2>2, <3>2
      <4>2. LastUnit(r) = c[i]
        BY <2>6, <4>1, Zenon
      <4>3. LastUnit(r) = <<"hdr", cursor[e]>> => LastUnit(r)[1] = "hdr" /\ LastUnit(r)[2] = cursor[e]
        OBVIOUS
      <4>4. "hdr" # "data"
        BY Zenon
      <4> QED
        BY <2>5, <4>1, <4>2, <4>3, <4>4, Zenon
    <3> QED
      BY <2>2, <3>1, <3>2
  <2>9. ASSUME NEW t \in Ends, On(t, k)', Pushes(t)', ~ Gone(t)'
        PROVE  IF pc'[t] = "write data" THEN LastUnit(r)' = <<"hdr", buf'[t][2]>>
               ELSE LastUnit(r)'[1] = "data"
    <3>1. t = e
      <4>1. K(t) = k /\ Pushes(t)
        BY <1>2, <2>9, Zenon DEF On
      <4>2. Pushes(t) = Pushes(e)
        BY <1>1, <4>1, EndFacts, Zenon
      <4> QED
        BY <1>1, <1>7, <4>1, <4>2, OneSender, Zenon
    <3>2. LastUnit(r)' = u
      BY <1>4, <2>2, Zenon DEF LastUnit, c
    <3>3. u[1] = (IF pc[e] = "write hdr" THEN "hdr" ELSE "data")
      BY <2>4, Zenon
    <3> QED
      BY <1>1, <2>3, <2>4, <3>1, <3>2, <3>3, Zenon
  <2> QED
    BY <2>7, <2>8, <2>9, Zenon DEF c
<1> QED
  BY <1>6, <1>7, Zenon

\* The frame that is written is newer than all that came before it on k.
LEMMA AppendOrder ==
  ASSUME IInv, NEW e \in Ends, NEW u \in Unit, Appended(e, u), NEW k \in Conns,
         NEW c \in Nat, c = cursor[e], InTurn(k), k = K(e) => \A n \in Nat : Coming(k, n) => n < c
  PROVE  /\ InTurn(k)'
         /\ \A n : Coming(k, n)' => Coming(k, n) \/ (k = K(e) /\ n = c /\ pc[e] = "write data")
<1> DEFINE r == Taker(k)
           d == link[k].data
           f == link'[k].data
<1>1. Taker(k)' = r /\ r \in Ends /\ buf' = buf /\ TypeOK
  BY EndFacts, Zenon DEF Taker, Appended, IInv
<1>2. pc'[r] = "put" <=> pc[r] = "put"
  BY <1>1, Zenon DEF Appended
<1>3. CASE k # K(e)
  <2>1. link'[k] = link[k]
    BY <1>3, Zenon DEF Appended
  <2> QED
    BY <1>1, <1>2, <2>1, Zenon DEF InTurn, Coming
<1>4. CASE k = K(e)
  <2>1. d \in Seq(Unit) /\ f = Append(d, u)
    BY <1>1, <1>4, Zenon DEF Appended, TypeOK, Link
  <2> HIDE DEF d, f
  <2>2. /\ Len(d) \in Nat /\ Len(f) = Len(d) + 1 /\ f[Len(d) + 1] = u
        /\ \A i \in 1 .. Len(d) : f[i] = d[i] /\ d[i] \in Unit
    BY <2>1
  <2>3. pc[e] \in {"write hdr", "write data"}
    BY Zenon DEF Appended
  <2>4. (u[1] = "data" => pc[e] = "write data") /\ u[2] = c
    <3>1. u = <<IF pc[e] = "write hdr" THEN "hdr" ELSE "data", c>>
      BY Zenon DEF Appended
    <3>2. u[1] = (IF pc[e] = "write hdr" THEN "hdr" ELSE "data") /\ u[2] = c
      BY <3>1, Pairs, Zenon
    <3> QED
      BY <2>3, <3>2, Zenon
  <2>5. \A i \in 1 .. Len(f) : i \in 1 .. Len(d) \/ i = Len(d) + 1
    BY <2>2
  <2>6. \A i \in 1 .. Len(f) : \A j \in 1 .. i - 1 : j \in 1 .. Len(d)
    BY <2>2
  <2>7. \A i \in 1 .. Len(d) : d[i][1] = "data" => d[i][2] < c
    <3>1. ASSUME NEW i \in 1 .. Len(d), d[i][1] = "data"
          PROVE  d[i][2] < c
      <4>1. d[i] = <<"data", d[i][2]>> /\ d[i][2] \in Nat
        BY <2>2, <3>1 DEF Unit
      <4> QED
        BY <1>4, <4>1, Zenon DEF Coming, d
    <3> QED
      BY <3>1, Zenon
  <2>8. pc[r] = "put" => buf[r][2] < c
    <3>1. buf[r] \in Nat \X Nat
      BY <1>1, Zenon DEF TypeOK
    <3>2. buf[r][2] \in Nat
      BY <3>1, Zenon
    <3> QED
      BY <1>4, <3>2, Zenon DEF Coming
  <2>9. ASSUME NEW i \in 1 .. Len(f), f[i][1] = "data"
        PROVE  /\ pc'[r] = "put" => buf[r][2] < f[i][2]
               /\ \A j \in 1 .. i - 1 : f[j][1] = "data" => f[j][2] < f[i][2]
    <3>1. CASE i \in 1 .. Len(d)
      BY <1>2, <2>2, <2>6, <2>9, <3>1, Zenon DEF InTurn, d
    <3>2. CASE i = Len(d) + 1
      <4>1. f[i][2] = c
        BY <2>2, <2>4, <3>2, Zenon
      <4> QED
        BY <1>2, <2>2, <2>6, <2>7, <2>8, <4>1, Zenon
    <3> QED
      BY <2>5, <3>1, <3>2, Zenon
  <2>10. InTurn(k)'
    BY <1>1, <2>9, Zenon DEF InTurn, f
  <2>11. ASSUME NEW n, Coming(k, n)'
         PROVE  Coming(k, n) \/ (n = c /\ pc[e] = "write data")
    <3>1. CASE pc'[r] = "put" /\ n = buf[r][2]
      BY <1>2, <3>1, Zenon DEF Coming
    <3>2. ASSUME NEW i \in 1 .. Len(f), f[i] = <<"data", n>>
          PROVE  Coming(k, n) \/ (n = c /\ pc[e] = "write data")
      <4>1. CASE i \in 1 .. Len(d)
        BY <2>2, <3>2, <4>1, Zenon DEF Coming, d
      <4>2. CASE i = Len(d) + 1
        <5>1. u = <<"data", n>>
          BY <2>2, <3>2, <4>2, Zenon
        <5>2. u[1] = "data" /\ u[2] = n
          BY <5>1, Zenon
        <5> QED
          BY <2>4, <5>2, Zenon
      <4> QED
        BY <2>5, <4>1, <4>2, Zenon
    <3> QED
      BY <1>1, <2>11, <3>1, <3>2, Zenon DEF Coming, f
  <2> QED
    BY <1>4, <2>10, <2>11, Zenon
<1> QED
  BY <1>3, <1>4, Zenon

\* A frame is complete on its way when the data is written; then the sender has none
\* to write.
LEMMA WrittenStep ==
  ASSUME IInv, NEW e \in Ends, NEW u \in Unit, Appended(e, u)
  PROVE  IInv'
<1> DEFINE c == cursor[e]
           l == IF pc[e] = "write hdr" THEN "write data" ELSE "get"
<1>1. /\ pc[e] \in {"write hdr", "write data"} /\ TypeOK /\ Places /\ Buffers /\ WholeFrames
      /\ UNCHANGED <<opts, published, dest, nconn, sock, sig, chan, resume, buf, cap, cursor, net>>
      /\ c \in Nat /\ ~ opts.udp /\ Pushes(e)
      /\ DOMAIN pc' = Ends /\ pc'[e] = l /\ \A t \in Ends \ {e} : pc'[t] = pc[t]
  BY Zenon DEF Appended, IInv
<1>2. pc[e] \in Handling(e) /\ l \in Handling(e) /\ K(e) \in Conns /\ l \in {"write data", "get"}
  BY <1>1, HandlerFacts, Zenon DEF Handling, Sending
<1>3. TypeOK'
  BY <1>1, Zenon DEF TypeOK, Appended
<1>4. /\ Resuming' = Resuming /\ Large' = Large /\ Sending' = Sending
      /\ \A t \in Ends : Handling(t)' = Handling(t) /\ Pushes(t)' = Pushes(t)
  BY <1>1, SameOptions, Zenon
<1>5. ClientPlace'
  <2>1. CASE e = client
    BY <1>1, <1>2, <2>1, ClientHandles, Zenon
  <2>2. CASE e # client
    <3>1. pc'[client] = pc[client] /\ Handling(client)' = Handling(client) /\ ClientPlace
      BY <1>1, <1>4, <2>2, EndFacts, Zenon DEF Places
    <3> QED
      BY <1>1, <1>4, <3>1, Zenon DEF ClientPlace, Dialling
  <2> QED
    BY <2>1, <2>2, Zenon
<1>6. ASSUME NEW k \in Conns
      PROVE  ServerPlace(k)'
  <2>1. k \in Ends /\ ServerPlace(k) /\ Handling(k)' = Handling(k)
    BY <1>1, <1>4, EndFacts, Zenon DEF Places
  <2>2. k > nconn => k # e /\ k # K(e)
    <3>1. k > nconn => k # e
      BY <1>1, <2>1, Zenon DEF ServerPlace
    <3>2. nconn \in Nat /\ k \in Nat /\ k # 0 /\ (K(e) = e \/ K(e) \in {0, nconn})
      BY <1>1, EndFacts, Zenon DEF TypeOK
    <3>3. k > nconn => k # nconn
      BY <3>2
    <3> QED
      BY <3>1, <3>2, <3>3, Zenon
  <2>3. k > nconn' => pc'[k] = "none" /\ link'[k] = NoLink
    BY <1>1, <2>1, <2>2, Zenon DEF ServerPlace, Appended
  <2>4. pc'[k] \in {"none", "headers", "exit"} \cup Handling(k)'
    BY <1>1, <1>2, <2>1, Zenon DEF ServerPlace
  <2>5. ASSUME pc'[k] = "headers"
        PROVE  link'[k].data = <<>> \/ opts'.push
    <3>1. k # e /\ pc[k] = "headers"
      BY <1>1, <1>2, <2>1, <2>5, Zenon
    <3>2. e = client => opts.push
      BY <1>1, EndFacts, Zenon
    <3>3. e # client => K(e) # k
      BY <3>1, EndFacts, Zenon
    <3> QED
      BY <1>1, <2>1, <3>1, <3>2, <3>3, Zenon DEF ServerPlace, Appended
  <2> QED
    BY <2>3, <2>4, <2>5, Zenon DEF ServerPlace
<1>7. /\ Sends(e) /\ (pc[e] = "write data" => ~ Sends(e)')
      /\ \A t \in Ends : Sends(t)' => Sends(t)
  <2>1. Sends(e) /\ (pc[e] = "write data" => ~ Sends(e)')
    BY <1>1, Zenon DEF Sends, Dialling
  <2>2. ASSUME NEW t \in Ends, Sends(t)', t # e
        PROVE  Sends(t)
    <3>1. pc'[t] = pc[t]
      BY <1>1, <2>2, Zenon
    <3> QED
      BY <1>1, <2>2, <3>1, Zenon DEF Sends
  <2> QED
    BY <2>1, <2>2, Zenon
<1>8. Buffers'
  <2>1. \A t \in Ends : pc'[t] \in {"put", "read data"} => pc'[t] = pc[t]
    BY <1>1, Zenon
  <2> QED
    BY <1>1, <1>4, <1>7, <2>1, Zenon DEF Buffers
<1>9. WholeFrames'
  BY <1>1, <1>4, Zenon DEF WholeFrames
<1>10. Stream'
  BY AppendStream, Zenon
<1>11. \A n : Arrived(n)' = Arrived(n)
  BY <1>1, Zenon DEF Arrived
<1>12. \A t \in Ends, n \in Nat : Before(n, t) => Before(n, t)'
  BY <1>1, <1>7, Zenon DEF Before
<1>13. /\ \A t \in Ends, n \in Nat : t = e /\ n = c /\ pc[e] = "write data" => Before(n, t)'
       /\ \A n \in Nat : Before(n, e) => n < c
  <2>1. c <= c
    BY <1>1, NoLess, Zenon
  <2> QED
    BY <1>1, <1>7, <2>1, Zenon DEF Before
<1>14. ~ (c < c) /\ c <= published
  <2>1. c \in Nat /\ c <= published
    BY <1>1, Zenon DEF TypeOK
  <2> HIDE DEF c
  <2> QED
    BY <2>1
<1>15. ASSUME opts.push
       PROVE  PushOnce'
  <2>1. /\ DeliveredOnce
        /\ \A n \in Nat : Arrived(n) => Before(n, client)
        /\ \A k \in Conns, n \in Nat : Coming(k, n) => Before(n, client) /\ ~ Arrived(n)
        /\ \A k, j \in Conns, n \in Nat : Coming(k, n) /\ Coming(j, n) => k = j
        /\ \A k \in Conns : InTurn(k)
    BY <1>1, <1>15, Zenon DEF IInv, PushOnce
  <2>2. e = client
    BY <1>1, <1>15, EndFacts, Zenon
  <2>3. /\ \A k \in Conns : InTurn(k)'
        /\ \A k \in Conns, n \in Nat :
             Coming(k, n)' => Coming(k, n) \/ (k = K(e) /\ n = c /\ pc[e] = "write data")
    <3>1. \A n \in Nat : Before(n, client) => n < c
      BY <1>13, <2>2, Zenon
    <3>2. \A k \in Conns, n \in Nat : Coming(k, n) => n < c
      BY <2>1, <3>1, Zenon
    <3> QED
      BY <1>1, <2>1, <3>2, AppendOrder, Zenon
  <2>4. \A k \in Conns : ~ Coming(k, c) /\ ~ Arrived(c)
    BY <1>1, <1>13, <1>14, <2>1, <2>2, Zenon
  <2>5. DeliveredOnce'
    BY <1>1, <2>1, Zenon DEF DeliveredOnce
  <2>6. \A n \in Nat : Arrived(n)' => Before(n, client)'
    BY <1>11, <1>12, <2>1, EndFacts, Zenon
  <2>7. \A k \in Conns, n \in Nat : Coming(k, n)' => Before(n, client)' /\ ~ Arrived(n)'
    <3>1. ASSUME NEW k \in Conns, NEW n \in Nat, Coming(k, n)'
          PROVE  Before(n, client)' /\ ~ Arrived(n)
      <4>1. CASE Coming(k, n)
        <5>1. Before(n, client) /\ ~ Arrived(n)
          BY <2>1, <4>1, Zenon
        <5> QED
          BY <1>12, <5>1, EndFacts, Zenon
      <4>2. CASE n = c /\ pc[e] = "write data"
        <5>1. Before(n, client)'
          BY <1>13, <2>2, <4>2, EndFacts, Zenon
        <5>2. ~ Arrived(n)
          BY <2>4, <4>2, Zenon
        <5> QED
          BY <5>1, <5>2, Zenon
      <4>3. Coming(k, n) \/ (n = c /\ pc[e] = "write data")
        BY <2>3, <3>1, Zenon
      <4> QED
        BY <4>1, <4>2, <4>3, Zenon
    <3> QED
      BY <1>11, <3>1, Zenon
  <2>8. \A k, j \in Conns, n \in Nat : Coming(k, n)' /\ Coming(j, n)' => k = j
    BY <2>1, <2>3, <2>4, Zenon
  <2> QED
    BY <2>3, <2>5, <2>6, <2>7, <2>8, Zenon DEF PushOnce
<1>16. ASSUME ~ opts.push
       PROVE  PullOrder'
  <2>1. /\ PullInOrder
        /\ \A n \in Nat : Arrived(n) => n <= published
        /\ \A k \in Conns : k = sock =>
             /\ InTurn(k)
             /\ \A n \in Nat : Coming(k, n) => n <= published /\ \A m \in Nat : Arrived(m) => m < n
             /\ pc[k] \in Sending => \A n \in Nat : Arrived(n) \/ Coming(k, n) => Before(n, k)
    BY <1>1, <1>16, Zenon DEF IInv, PullOrder
  <2>2. e \in Conns /\ K(e) = e /\ pc[e] \in Sending
    BY <1>1, <1>2, <1>16, EndFacts, Zenon DEF Handling
  <2>3. ASSUME NEW k \in Conns, k = sock'
        PROVE  /\ InTurn(k)'
               /\ \A n \in Nat : Coming(k, n)' =>
                    n <= published' /\ \A m \in Nat : Arrived(m)' => m < n
               /\ pc'[k] \in Sending' => \A n \in Nat : Arrived(n)' \/ Coming(k, n)' => Before(n, k)'
    <3>1. k = sock /\ k \in Ends
      BY <1>1, <2>3, EndFacts, Zenon
    <3>2. k = K(e) => \A n \in Nat : Arrived(n) \/ Coming(k, n) => n < c
      BY <1>13, <2>1, <2>2, <3>1, Zenon
    <3>3. InTurn(k)' /\ \A n : Coming(k, n)' => Coming(k, n) \/ (k = e /\ n = c /\ pc[e] = "write data")
      BY <1>1, <2>1, <2>2, <3>1, <3>2, AppendOrder, ZenonT(60)
    <3>4. \A n \in Nat : Coming(k, n)' => n <= published' /\ \A m \in Nat : Arrived(m)' => m < n
      BY <1>1, <1>11, <1>14, <2>1, <2>2, <3>1, <3>2, <3>3, Zenon
    <3>5. pc'[k] \in Sending => pc[k] \in Sending
      BY <1>1, <2>2, <3>1, Zenon
    <3>6. pc'[k] \in Sending => \A n \in Nat : Arrived(n)' \/ Coming(k, n)' => Before(n, k)'
      <4>1. ASSUME pc'[k] \in Sending, NEW n \in Nat, Arrived(n)' \/ Coming(k, n)'
            PROVE  Before(n, k)'
        <5>1. CASE Arrived(n) \/ Coming(k, n)
          BY <1>12, <2>1, <3>1, <3>5, <4>1, <5>1, Zenon
        <5>2. CASE k = e /\ n = c /\ pc[e] = "write data"
          BY <1>13, <3>1, <5>2, Zenon
        <5> QED
          BY <1>11, <3>3, <4>1, <5>1, <5>2, Zenon
      <4> QED
        BY <4>1, Zenon
    <3> QED
      BY <1>4, <3>3, <3>4, <3>6, Zenon
  <2>4. PullInOrder'
    BY <1>1, <2>1, Zenon DEF PullInOrder
  <2> QED
    BY <1>1, <1>11, <2>1, <2>3, <2>4, Zenon DEF PullOrder
<1>17. PushOnce' /\ PullOrder'
  BY <1>1, <1>15, <1>16, Zenon DEF PushOnce, PullOrder
<1> QED
  BY <1>3, <1>5, <1>6, <1>8, <1>9, <1>10, <1>17, Zenon DEF IInv, Places

\* What a read changes.
Taken(e) ==
  LET k == K(e)
      u == link[k].data[1]
  IN /\ pc[e] \in {"read", "read data"}
     /\ UNCHANGED <<opts, published, dest, nconn, sock, sig, chan, resume, cursor, net>>
     /\ ~ opts.udp /\ ~ Pushes(e) /\ k \in Conns
     /\ link[k].data # <<>> /\ link'[k].data = Tail(link[k].data) /\ u \in Unit
     /\ link' \in [Conns -> Link] /\ link'[k].lost = link[k].lost /\ link'[k].shut = link[k].shut
     /\ \A j \in Conns \ {k} : link'[j] = link[j]
     /\ DOMAIN pc' = Ends /\ pc'[e] = (IF pc[e] = "read" THEN "read data" ELSE "put")
     /\ \A t \in Ends \ {e} : pc'[t] = pc[t] /\ buf'[t] = buf[t] /\ cap'[t] = cap[t]
     /\ buf' \in [Ends -> Nat \X Nat] /\ cap' \in [Ends -> BOOLEAN] /\ (cap[e] => cap'[e])
     /\ IF pc[e] = "read"
        THEN u[1] = "hdr" /\ buf'[e] = <<u[2], buf[e][2]>> /\ (u[2] \in Large => cap'[e])
        ELSE buf'[e] = <<buf[e][1], u[2]>>

\* achd_read() takes one unit, the one that belongs to what was read before.
LEMMA ReadTakes ==
  ASSUME IInv, NEW e \in Ends, Read(e)
  PROVE  Taken(e)
<1> DEFINE k == K(e)
           x == link[k]
           u == x.data[1]
           y == [x EXCEPT !.data = Tail(@)]
<1>1. /\ pc[e] \in {"read", "read data"} /\ x.data # <<>>
      /\ UNCHANGED <<opts, published, dest, nconn, sig, chan, cursor, net>>
  BY Zenon DEF Read
<1>2. TypeOK /\ ~ Pushes(e) /\ ~ opts.udp /\ k \in Conns
  BY <1>1, HandlerFacts, Zenon
<1>3. /\ link \in [Conns -> Link] /\ x \in Link /\ x.data \in Seq(Unit)
      /\ buf \in [Ends -> Nat \X Nat] /\ cap \in [Ends -> BOOLEAN] /\ buf[e] \in Nat \X Nat
  BY <1>2, Zenon DEF TypeOK, Link
<1>4. Head(x.data) = u /\ u \in Unit /\ Tail(x.data) \in Seq(Unit)
  BY <1>1, <1>3, TailAt, Zenon
<1>5. u[2] \in Nat /\ buf[e][1] \in Nat /\ buf[e][2] \in Nat
  BY <1>3, <1>4, Zenon DEF Unit
<1>6. y \in Link /\ y.data = Tail(x.data) /\ y.lost = x.lost /\ y.shut = x.shut
  BY <1>3, <1>4, Zenon DEF Link
<1>7. pc[e] = "read" => u[1] = "hdr"
  <2>1. pc[e] = "read" => On(e, k)
    BY <1>2, Zenon DEF On
  <2> QED
    BY <1>1, <1>2, <2>1, Zenon DEF IInv, Stream
<1>8. /\ SetLink(k, y) /\ UNCHANGED <<resume, sock>>
      /\ \/ /\ pc[e] = "read" /\ buf' = [buf EXCEPT ![e] = <<u[2], buf[e][2]>>]
            /\ cap' = [cap EXCEPT ![e] = @ \/ u[2] \in Large] /\ Goto(e, "read data")
         \/ /\ pc[e] = "read data" /\ buf' = [buf EXCEPT ![e] = <<buf[e][1], u[2]>>]
            /\ cap' = cap /\ Goto(e, "put")
  BY <1>1, <1>4, <1>7, Zenon DEF Read
<1> HIDE DEF y
<1>9. link' \in [Conns -> Link] /\ link'[k] = y /\ \A j \in Conns \ {k} : link'[j] = link[j]
  BY <1>2, <1>3, <1>6, <1>8, Zenon DEF SetLink
<1>10. /\ DOMAIN pc' = Ends /\ pc'[e] = (IF pc[e] = "read" THEN "read data" ELSE "put")
       /\ \A t \in Ends \ {e} : pc'[t] = pc[t]
  <2>1. "read" # "read data"
    BY Zenon
  <2> QED
    BY <1>2, <1>8, <2>1, GotoFacts, Zenon
<1>11. <<u[2], buf[e][2]>> \in Nat \X Nat /\ <<buf[e][1], u[2]>> \in Nat \X Nat
  BY <1>5, Zenon
<1>12. /\ buf' \in [Ends -> Nat \X Nat] /\ cap' \in [Ends -> BOOLEAN] /\ (cap[e] => cap'[e])
       /\ \A t \in Ends \ {e} : buf'[t] = buf[t] /\ cap'[t] = cap[t]
  BY <1>3, <1>8, <1>11, ZenonT(60)
<1>13. IF pc[e] = "read" THEN buf'[e] = <<u[2], buf[e][2]>> /\ (u[2] \in Large => cap'[e])
       ELSE buf'[e] = <<buf[e][1], u[2]>>
  BY <1>3, <1>8, Zenon
<1>14. link'[k].data = Tail(link[k].data) /\ link'[k].lost = link[k].lost /\ link'[k].shut = link[k].shut
  BY <1>6, <1>9, Zenon
<1> QED
  BY <1>1, <1>2, <1>4, <1>7, <1>8, <1>9, <1>10, <1>12, <1>13, <1>14, Zenon DEF Taken

\* What is left begins with what the receiver reads next.
LEMMA TakenStream ==
  ASSUME IInv, NEW e \in Ends, Taken(e)
  PROVE  Stream'
<1>1. /\ ~ opts.udp /\ opts' = opts /\ sock' = sock /\ ~ Pushes(e) /\ K(e) \in Conns
      /\ TypeOK /\ opts.push \in BOOLEAN
      /\ pc'[e] = (IF pc[e] = "read" THEN "read data" ELSE "put")
      /\ pc[e] \in {"read", "read data"} /\ \A t \in Ends \ {e} : pc'[t] = pc[t] /\ buf'[t] = buf[t]
  BY OptionFacts, Zenon DEF Taken, IInv
<1>2. \A t \in Ends : K(t)' = K(t) /\ Pushes(t)' = Pushes(t)
  BY <1>1, SameOptions, Zenon DEF K
<1>3. \A t \in Ends, k \in Conns : On(t, k)' = On(t, k)
  <2>1. \A t \in Ends : pc'[t] \in {"none", "exit", "spin"} <=> pc[t] \in {"none", "exit", "spin"}
    BY <1>1, Zenon
  <2> QED
    BY <1>1, <1>2, <2>1, Zenon DEF On
<1> SUFFICES ASSUME NEW k \in Conns, NEW r \in Ends, On(r, k), ~ Pushes(r)
             PROVE  LET d == link'[k].data
                    IN /\ d # <<>> => IF pc'[r] = "read data" THEN d[1] = <<"data", buf'[r][1]>>
                                      ELSE d[1][1] = "hdr"
                       /\ \A i \in 1 .. Len(d) - 1 :
                            IF d[i][1] = "hdr" THEN d[i + 1] = <<"data", d[i][2]>>
                            ELSE d[i + 1][1] = "hdr"
                       /\ \A t \in Ends : On(t, k)' /\ Pushes(t)' /\ ~ Gone(t)' =>
                            IF pc'[t] = "write data" THEN LastUnit(r)' = <<"hdr", buf'[t][2]>>
                            ELSE LastUnit(r)'[1] = "data"
  BY <1>2, <1>3, Zenon DEF Stream
<1> DEFINE d == link[k].data
           c == link'[k].data
<1>4. K(r) = k /\ K(r)' = k
  BY <1>2, Zenon DEF On
<1>5. /\ d # <<>> => IF pc[r] = "read data" THEN d[1] = <<"data", buf[r][1]>> ELSE d[1][1] = "hdr"
      /\ \A i \in 1 .. Len(d) - 1 :
           IF d[i][1] = "hdr" THEN d[i + 1] = <<"data", d[i][2]>> ELSE d[i + 1][1] = "hdr"
      /\ \A t \in Ends : On(t, k) /\ Pushes(t) /\ ~ Gone(t) =>
           IF pc[t] = "write data" THEN LastUnit(r) = <<"hdr", buf[t][2]>>
           ELSE LastUnit(r)[1] = "data"
  BY Zenon DEF IInv, Stream
<1>6. \A t \in Ends : Pushes(t) => t # e
  BY <1>1, Zenon
<1>7. \A t \in Ends : On(t, k) => Gone(t)' = Gone(t)
  <2>1. link'[k].lost = link[k].lost /\ link'[k].shut = link[k].shut
    <3>1. CASE k = K(e)
      BY <3>1, Zenon DEF Taken
    <3>2. CASE k # K(e)
      BY <3>2, Zenon DEF Taken
    <3> QED
      BY <3>1, <3>2, Zenon
  <2>2. \A t \in Ends : On(t, k) => K(t) = k /\ K(t)' = k
    BY <1>2, Zenon DEF On
  <2> QED
    BY <2>1, <2>2, Zenon DEF Gone
<1>8. SUFFICES /\ LastUnit(r)' = LastUnit(r)
               /\ c # <<>> => IF pc'[r] = "read data" THEN c[1] = <<"data", buf'[r][1]>> ELSE c[1][1] = "hdr"
               /\ \A i \in 1 .. Len(c) - 1 :
                    IF c[i][1] = "hdr" THEN c[i + 1] = <<"data", c[i][2]>> ELSE c[i + 1][1] = "hdr"
  <2>1. ASSUME NEW t \in Ends, On(t, k)', Pushes(t)', ~ Gone(t)'
        PROVE  IF pc'[t] = "write data" THEN LastUnit(r)' = <<"hdr", buf'[t][2]>>
               ELSE LastUnit(r)'[1] = "data"
    <3>1. On(t, k) /\ Pushes(t) /\ ~ Gone(t) /\ pc'[t] = pc[t] /\ buf'[t] = buf[t]
      BY <1>1, <1>2, <1>3, <1>6, <1>7, <2>1, ZenonT(60)
    <3> QED
      BY <1>5, <1>8, <3>1, Zenon
  <2> QED
    BY <1>8, <2>1, Zenon
<1>9. CASE K(e) # k
  <2>1. link'[k] = link[k] /\ r # e
    BY <1>4, <1>9, Zenon DEF Taken
  <2>2. pc'[r] = pc[r] /\ buf'[r] = buf[r]
    BY <1>1, <2>1, Zenon
  <2>3. LastUnit(r)' = LastUnit(r)
    BY <1>4, <2>1, <2>2, Zenon DEF LastUnit
  <2> QED
    BY <1>5, <2>1, <2>2, <2>3, Zenon
<1>10. CASE K(e) = k
  <2>1. r = e
    <3>1. Pushes(r) = Pushes(e)
      BY <1>1, EndFacts, Zenon
    <3> QED
      BY <1>1, <1>4, <1>10, <3>1, OneSender, Zenon
  <2>2. d \in Seq(Unit) /\ d # <<>> /\ c = Tail(d) /\ d[1] \in Unit
    BY <1>1, <1>10, Zenon DEF Taken, TypeOK, Link
  <2>3. /\ IF pc[e] = "read" THEN d[1][1] = "hdr" /\ buf'[e] = <<d[1][2], buf[e][2]>>
           ELSE buf'[e] = <<buf[e][1], d[1][2]>>
    BY <1>10, Zenon DEF Taken
  <2> HIDE DEF c, d
  <2>4. /\ Len(d) \in Nat /\ Len(d) > 0 /\ Len(c) = Len(d) - 1 /\ (c # <<>> => Len(d) > 1)
        /\ \A i \in 1 .. Len(c) : c[i] = d[i + 1]
        /\ d[1] = <<d[1][1], d[1][2]>>
    BY <2>2 DEF Unit
  <2>5. c # <<>> => c[1] = d[2] /\ 1 \in 1 .. Len(d) - 1 /\ c[Len(c)] = d[Len(d)]
    BY <2>4
  <2>6. c = <<>> => d[Len(d)] = d[1]
    <3>1. c = <<>> => Len(c) = 0
      OBVIOUS
    <3>2. c = <<>> => Len(d) = 1
      BY <2>4, <3>1
    <3> QED
      BY <3>2, Zenon
  <2>7. \A i \in 1 .. Len(c) - 1 : c[i] = d[i + 1] /\ c[i + 1] = d[i + 1 + 1] /\ i + 1 \in 1 .. Len(d) - 1
    BY <2>4
  <2>8. \A i \in 1 .. Len(c) - 1 :
          IF c[i][1] = "hdr" THEN c[i + 1] = <<"data", c[i][2]>> ELSE c[i + 1][1] = "hdr"
    BY <1>5, <2>7, ZenonT(60) DEF d
  <2>9. 1 + 1 = 2
    OBVIOUS
  <2>10. c # <<>> => IF d[1][1] = "hdr" THEN c[1] = <<"data", d[1][2]>> ELSE c[1][1] = "hdr"
    BY <1>5, <2>5, <2>9, Zenon DEF d
  <2>11. LastUnit(r) = d[Len(d)]
    BY <1>4, <2>2, Zenon DEF LastUnit, d
  <2>12. CASE pc[e] = "read"
    <3>1. pc'[e] = "read data" /\ d[1][1] = "hdr" /\ buf'[e][1] = d[1][2]
      <4>1. pc'[e] = "read data" /\ d[1][1] = "hdr" /\ buf'[e] = <<d[1][2], buf[e][2]>>
        BY <1>1, <2>3, <2>12, Zenon
      <4> QED
        BY <4>1, Pairs, Zenon
    <3>2. LastUnit(r)' = IF c # <<>> THEN c[Len(c)] ELSE <<"hdr", d[1][2]>>
      BY <1>4, <2>1, <3>1, Zenon DEF LastUnit, c
    <3> QED
      BY <2>1, <2>4, <2>5, <2>6, <2>8, <2>10, <2>11, <3>1, <3>2, Zenon DEF c
  <2>13. CASE pc[e] = "read data"
    <3>1. pc[e] # "read"
      BY <2>13, Zenon
    <3>2. pc'[e] = "put" /\ buf'[e][1] = buf[e][1] /\ d[1] = <<"data", buf[e][1]>>
      <4>1. pc'[e] = "put" /\ buf'[e] = <<buf[e][1], d[1][2]>>
        BY <1>1, <2>3, <3>1, Zenon
      <4>2. d[1] = <<"data", buf[e][1]>>
        BY <1>5, <2>1, <2>2, <2>13, ZenonT(60) DEF d
      <4>3. buf'[e][1] = buf[e][1]
        BY <4>1
      <4> QED
        BY <4>1, <4>2, <4>3, Zenon
    <3>3. d[1][1] = "data"
      BY <3>2, Pairs, ZenonT(60)
    <3>4. LastUnit(r)' = IF c # <<>> THEN c[Len(c)] ELSE <<"data", buf[e][1]>>
      BY <1>4, <2>1, <3>2, Zenon DEF LastUnit, c
    <3> QED
      BY <2>1, <2>5, <2>6, <2>8, <2>10, <2>11, <3>2, <3>3, <3>4, ZenonT(60) DEF c
  <2> QED
    BY <1>1, <2>12, <2>13, Zenon
<1> QED
  BY <1>9, <1>10, Zenon

\* What the receiver has in its buffer was the first that came.
LEMMA TakenOrder ==
  ASSUME IInv, NEW e \in Ends, Taken(e), NEW k \in Conns, opts.push \/ k = sock
  PROVE  /\ \A n \in Nat : Coming(k, n)' => Coming(k, n)
         /\ InTurn(k) => InTurn(k)'
<1> DEFINE r == Taker(k)
           d == link[k].data
           c == link'[k].data
<1>1. /\ Taker(k)' = r /\ r \in Ends /\ TypeOK /\ opts' = opts /\ ~ Pushes(e)
      /\ pc'[e] = (IF pc[e] = "read" THEN "read data" ELSE "put") /\ pc[e] \in {"read", "read data"}
      /\ \A t \in Ends \ {e} : pc'[t] = pc[t] /\ buf'[t] = buf[t]
  BY EndFacts, Zenon DEF Taker, Taken, IInv
<1>2. CASE K(e) # k
  <2>1. link'[k] = link[k]
    BY <1>2, Zenon DEF Taken
  <2>2. r # e
    BY <1>1, <1>2, EndFacts, Zenon DEF Taker
  <2>3. pc'[r] = pc[r] /\ buf'[r] = buf[r]
    BY <1>1, <2>2, Zenon
  <2> QED
    BY <1>1, <2>1, <2>3, ZenonT(60) DEF Coming, InTurn
<1>3. CASE K(e) = k
  <2>1. r = e
    BY <1>1, <1>3, EndFacts, Zenon DEF Taker
  <2>2. d \in Seq(Unit) /\ d # <<>> /\ c = Tail(d) /\ d[1] \in Unit
    BY <1>1, <1>3, Zenon DEF Taken, TypeOK, Link
  <2>3. pc[e] = "read data" => buf'[e][2] = d[1][2] /\ d[1][1] = "data"
    <3>1. SUFFICES ASSUME pc[e] = "read data" PROVE buf'[e][2] = d[1][2] /\ d[1][1] = "data"
      BY Zenon
    <3>2. pc[e] # "read"
      BY <3>1, Zenon
    <3>3. buf'[e] = <<buf[e][1], d[1][2]>> /\ ~ opts.udp
      BY <1>3, <3>2, Zenon DEF Taken
    <3>4. On(e, k)
      BY <1>3, <3>1, <3>3, Zenon DEF On
    <3>5. d[1] = <<"data", buf[e][1]>>
      BY <1>1, <2>2, <3>1, <3>4, ZenonT(60) DEF IInv, Stream
    <3>6. buf'[e][2] = d[1][2]
      BY <3>3
    <3>7. d[1][1] = "data"
      <4> HIDE DEF d
      <4> QED
        BY <3>5
    <3> QED
      BY <3>6, <3>7, Zenon
  <2> HIDE DEF c, d
  <2>4. /\ Len(d) \in Nat /\ Len(d) > 0 /\ Len(c) = Len(d) - 1
        /\ \A i \in 1 .. Len(c) : c[i] = d[i + 1]
        /\ d[1] = <<d[1][1], d[1][2]>>
    BY <2>2 DEF Unit
  <2>5. /\ \A i \in 1 .. Len(c) : i + 1 \in 1 .. Len(d) /\ 1 \in 1 .. i + 1 - 1
        /\ 1 \in 1 .. Len(d)
        /\ \A i \in 1 .. Len(c) : \A j \in 1 .. i - 1 : j \in 1 .. Len(c) /\ j + 1 \in 1 .. i + 1 - 1
    BY <2>4
  <2>6. pc'[e] = "put" => pc[e] = "read data"
    BY <1>1, Zenon
  <2>7. ASSUME NEW n \in Nat, Coming(k, n)'
        PROVE  Coming(k, n)
    <3>1. CASE pc'[e] = "put" /\ n = buf'[e][2]
      <4>1. d[1] = <<"data", n>>
        BY <2>3, <2>4, <2>6, <3>1, Zenon
      <4> QED
        BY <2>5, <4>1, Zenon DEF Coming, d
    <3>2. ASSUME NEW i \in 1 .. Len(c), c[i] = <<"data", n>>
          PROVE  Coming(k, n)
      BY <2>4, <2>5, <3>2, Zenon DEF Coming, d
    <3> QED
      BY <1>1, <2>1, <2>7, <3>1, <3>2, Zenon DEF Coming, c
  <2>8. ASSUME InTurn(k)
        PROVE  InTurn(k)'
    <3>1. \A i \in 1 .. Len(d) : d[i][1] = "data" => \A j \in 1 .. i - 1 : d[j][1] = "data" => d[j][2] < d[i][2]
      BY <2>8, Zenon DEF InTurn, d
    <3>2. ASSUME NEW i \in 1 .. Len(c), c[i][1] = "data"
          PROVE  /\ pc'[e] = "put" => buf'[e][2] < c[i][2]
                 /\ \A j \in 1 .. i - 1 : c[j][1] = "data" => c[j][2] < c[i][2]
      <4>1. c[i] = d[i + 1] /\ i + 1 \in 1 .. Len(d) /\ 1 \in 1 .. i + 1 - 1
        BY <2>4, <2>5, Zenon
      <4>4. \A j \in 1 .. i + 1 - 1 : d[j][1] = "data" => d[j][2] < c[i][2]
        <5>1. d[i + 1][1] = "data" /\ d[i + 1][2] = c[i][2]
          BY <3>2, <4>1, Zenon
        <5>2. \A j \in 1 .. i + 1 - 1 : d[j][1] = "data" => d[j][2] < d[i + 1][2]
          <6>1. i + 1 \in 1 .. Len(d)
            BY <4>1, Zenon
          <6>2. d[i + 1][1] = "data"
            BY <5>1, Zenon
          <6> QED
            BY <3>1, <6>1, <6>2
        <5> QED
          BY <5>1, <5>2, Zenon
      <4>2. pc'[e] = "put" => buf'[e][2] < c[i][2]
        BY <2>3, <2>6, <4>1, <4>4, Zenon
      <4>3. ASSUME NEW j \in 1 .. i - 1, c[j][1] = "data"
            PROVE  c[j][2] < c[i][2]
        <5>1. c[j] = d[j + 1] /\ j + 1 \in 1 .. i + 1 - 1
          BY <2>4, <2>5, Zenon
        <5> QED
          BY <4>3, <4>4, <5>1, Zenon
      <4> QED
        BY <4>2, <4>3, Zenon
    <3> QED
      BY <1>1, <2>1, <3>2, Zenon DEF InTurn, c
  <2> QED
    BY <2>7, <2>8, Zenon
<1> QED
  BY <1>2, <1>3, Zenon

\* A unit that is read.
LEMMA ReadStep ==
  ASSUME IInv, NEW e \in Ends, Taken(e)
  PROVE  IInv'
<1> DEFINE l == IF pc[e] = "read" THEN "read data" ELSE "put"
<1>1. /\ pc[e] \in {"read", "read data"} /\ TypeOK /\ Places /\ Buffers /\ WholeFrames
      /\ UNCHANGED <<opts, published, dest, nconn, sock, sig, chan, resume, cursor, net>>
      /\ ~ opts.udp /\ ~ Pushes(e) /\ K(e) \in Conns
      /\ DOMAIN pc' = Ends /\ pc'[e] = l
      /\ \A t \in Ends \ {e} : pc'[t] = pc[t] /\ buf'[t] = buf[t] /\ cap'[t] = cap[t]
      /\ cap[e] => cap'[e]
  BY Zenon DEF Taken, IInv
<1>2. pc[e] \in Handling(e) /\ l \in Handling(e) /\ l \in {"read data", "put"}
  BY <1>1, HandlerFacts, Zenon DEF Handling, Receiving
<1>3. TypeOK'
  BY <1>1, Zenon DEF TypeOK, Taken
<1>4. /\ Resuming' = Resuming /\ Large' = Large /\ Sending' = Sending
      /\ \A t \in Ends : Handling(t)' = Handling(t) /\ Pushes(t)' = Pushes(t)
  BY <1>1, SameOptions, Zenon
<1>5. ClientPlace'
  <2>1. CASE e = client
    BY <1>1, <1>2, <2>1, ClientHandles, ZenonT(60)
  <2>2. CASE e # client
    <3>1. pc'[client] = pc[client] /\ Handling(client)' = Handling(client) /\ ClientPlace
      BY <1>1, <1>4, <2>2, EndFacts, Zenon DEF Places
    <3> QED
      BY <1>1, <1>4, <3>1, Zenon DEF ClientPlace, Dialling
  <2> QED
    BY <2>1, <2>2, Zenon
<1>6. ASSUME NEW k \in Conns
      PROVE  ServerPlace(k)'
  <2>1. k \in Ends /\ ServerPlace(k) /\ Handling(k)' = Handling(k)
    BY <1>1, <1>4, EndFacts, Zenon DEF Places
  <2>2. k > nconn => k # e /\ k # K(e)
    <3>1. k > nconn => k # e
      BY <1>1, <2>1, Zenon DEF ServerPlace
    <3>2. nconn \in Nat /\ k \in Nat /\ k # 0 /\ (K(e) = e \/ K(e) \in {0, nconn})
      BY <1>1, EndFacts, Zenon DEF TypeOK
    <3>3. k > nconn => k # nconn
      BY <3>2
    <3> QED
      BY <3>1, <3>2, <3>3, Zenon
  <2>3. k > nconn' => pc'[k] = "none" /\ link'[k] = NoLink
    BY <1>1, <2>1, <2>2, Zenon DEF ServerPlace, Taken
  <2>4. pc'[k] \in {"none", "headers", "exit"} \cup Handling(k)'
    BY <1>1, <1>2, <2>1, Zenon DEF ServerPlace
  <2>5. ASSUME pc'[k] = "headers"
        PROVE  link'[k].data = <<>> \/ opts'.push
    <3>1. k # e /\ pc[k] = "headers"
      BY <1>1, <1>2, <2>1, <2>5, Zenon
    <3>2. link[k].data = <<>> \/ opts.push
      BY <2>1, <3>1, Zenon DEF ServerPlace
    <3>3. CASE K(e) = k
      BY <1>1, <3>2, <3>3, Zenon DEF Taken
    <3>4. CASE K(e) # k
      BY <1>1, <3>2, <3>4, Zenon DEF Taken
    <3> QED
      BY <3>3, <3>4, Zenon
  <2> QED
    BY <2>3, <2>4, <2>5, Zenon DEF ServerPlace
<1>7. \A t \in Ends : Sends(t)' => t # e /\ Sends(t)
  <2>1. ~ Sends(e)'
    BY <1>1, <1>2, Zenon DEF Sends, Dialling
  <2>2. ASSUME NEW t \in Ends, Sends(t)', t # e
        PROVE  Sends(t)
    <3>1. pc'[t] = pc[t]
      BY <1>1, <2>2, Zenon
    <3> QED
      BY <1>1, <2>2, <3>1, Zenon DEF Sends
  <2> QED
    BY <2>1, <2>2, Zenon
<1>8. Buffers'
  <2>1. \A t \in Ends : Sends(t)' => buf'[t] = <<cursor'[t], cursor'[t]>>
    BY <1>1, <1>7, Zenon DEF Buffers
  <2>2. \A t \in Ends \ {e} : pc'[t] = "put" => buf'[t][1] = buf'[t][2]
    BY <1>1, ZenonT(60) DEF Buffers
  <2>3. \A t \in Ends \ {e} : pc'[t] \in {"read data", "put"} /\ buf'[t][1] \in Large => cap'[t]
    BY <1>1, Zenon DEF Buffers
  <2> DEFINE u == link[K(e)].data[1]
  <2>4. CASE pc[e] = "read"
    <3>1. pc'[e] = "read data" /\ buf'[e] = <<u[2], buf[e][2]>> /\ (u[2] \in Large => cap'[e])
      BY <1>1, <2>4, Zenon DEF Taken
    <3>4. buf'[e] = <<u[2], buf[e][2]>>
      BY <3>1, Zenon
    <3>2. buf'[e][1] = u[2]
      BY <3>4
    <3>3. pc'[e] # "put" /\ (buf'[e][1] \in Large => cap'[e])
      BY <3>1, <3>2, Zenon
    <3> QED
      BY <1>1, <1>4, <2>1, <2>2, <2>3, <3>3, Zenon DEF Buffers
  <2>5. CASE pc[e] = "read data"
    <3>1. pc[e] # "read"
      BY <2>5, Zenon
    <3>2. buf'[e] = <<buf[e][1], u[2]>>
      BY <3>1, Zenon DEF Taken
    <3>3. buf'[e][1] = buf[e][1] /\ buf'[e][2] = u[2]
      BY <3>2
    <3>4. u = <<"data", buf[e][1]>>
      <4>1. On(e, K(e)) /\ link[K(e)].data # <<>>
        BY <1>1, <2>5, Zenon DEF On, Taken
      <4> QED
        BY <1>1, <2>5, <4>1, ZenonT(60) DEF IInv, Stream
    <3>5. u[2] = buf[e][1]
      BY <3>4, Pairs, Zenon
    <3>6. buf'[e][1] = buf'[e][2] /\ (buf'[e][1] \in Large => cap'[e])
      BY <1>1, <2>5, <3>3, <3>5, Zenon DEF Buffers
    <3> QED
      BY <1>1, <1>4, <2>1, <2>2, <2>3, <3>6, ZenonT(60) DEF Buffers
  <2> QED
    BY <1>1, <2>4, <2>5, Zenon
<1>9. WholeFrames'
  BY <1>1, <1>4, Zenon DEF WholeFrames
<1>10. Stream'
  BY TakenStream, Zenon
<1>11. \A n : Arrived(n)' = Arrived(n)
  BY <1>1, Zenon DEF Arrived
<1>12. \A t \in Ends, n \in Nat : Before(n, t) => Before(n, t)'
  BY <1>1, <1>7, Zenon DEF Before
<1>13. ASSUME opts.push
       PROVE  PushOnce'
  <2>1. /\ DeliveredOnce
        /\ \A n \in Nat : Arrived(n) => Before(n, client)
        /\ \A k \in Conns, n \in Nat : Coming(k, n) => Before(n, client) /\ ~ Arrived(n)
        /\ \A k, j \in Conns, n \in Nat : Coming(k, n) /\ Coming(j, n) => k = j
        /\ \A k \in Conns : InTurn(k)
    BY <1>1, <1>13, Zenon DEF IInv, PushOnce
  <2>2. /\ \A k \in Conns : InTurn(k)'
        /\ \A k \in Conns, n \in Nat : Coming(k, n)' => Coming(k, n)
    BY <1>13, <2>1, TakenOrder, Zenon
  <2>3. DeliveredOnce'
    BY <1>1, <2>1, Zenon DEF DeliveredOnce
  <2>4. \A n \in Nat : Before(n, client) => Before(n, client)'
    BY <1>12, EndFacts, Zenon
  <2>5. \A n \in Nat : Arrived(n)' => Before(n, client)'
    BY <1>11, <2>1, <2>4, Zenon
  <2>6. \A k \in Conns, n \in Nat : Coming(k, n)' => Before(n, client)' /\ ~ Arrived(n)'
    BY <1>11, <2>1, <2>2, <2>4, Zenon
  <2>7. \A k, j \in Conns, n \in Nat : Coming(k, n)' /\ Coming(j, n)' => k = j
    BY <2>1, <2>2, Zenon
  <2> QED
    BY <2>2, <2>3, <2>5, <2>6, <2>7, Zenon DEF PushOnce
<1>14. ASSUME ~ opts.push
       PROVE  PullOrder'
  <2>1. /\ PullInOrder
        /\ \A n \in Nat : Arrived(n) => n <= published
        /\ \A k \in Conns : k = sock =>
             /\ InTurn(k)
             /\ \A n \in Nat : Coming(k, n) => n <= published /\ \A m \in Nat : Arrived(m) => m < n
             /\ pc[k] \in Sending => \A n \in Nat : Arrived(n) \/ Coming(k, n) => Before(n, k)
    BY <1>1, <1>14, Zenon DEF IInv, PullOrder
  <2>2. ASSUME NEW k \in Conns, k = sock'
        PROVE  /\ InTurn(k)'
               /\ \A n \in Nat : Coming(k, n)' =>
                    n <= published' /\ \A m \in Nat : Arrived(m)' => m < n
               /\ pc'[k] \in Sending' => \A n \in Nat : Arrived(n)' \/ Coming(k, n)' => Before(n, k)'
    <3>1. k = sock /\ k \in Ends /\ k # e
      BY <1>1, <1>14, <2>2, EndFacts, Zenon
    <3>2. InTurn(k)' /\ \A n \in Nat : Coming(k, n)' => Coming(k, n)
      BY <2>1, <3>1, TakenOrder, Zenon
    <3>3. \A n \in Nat : Coming(k, n)' => n <= published' /\ \A m \in Nat : Arrived(m)' => m < n
      BY <1>1, <1>11, <2>1, <3>1, <3>2, Zenon
    <3>4. pc'[k] = pc[k]
      BY <1>1, <3>1, Zenon
    <3>5. \A n \in Nat : Before(n, k) => Before(n, k)'
      BY <1>12, <3>1, Zenon
    <3>6. pc'[k] \in Sending => \A n \in Nat : Arrived(n)' \/ Coming(k, n)' => Before(n, k)'
      BY <1>11, <2>1, <3>1, <3>2, <3>4, <3>5, Zenon
    <3> QED
      BY <1>4, <3>2, <3>3, <3>6, Zenon
  <2>3. PullInOrder'
    BY <1>1, <2>1, Zenon DEF PullInOrder
  <2> QED
    BY <1>1, <1>11, <2>1, <2>2, <2>3, Zenon DEF PullOrder
<1>15. PushOnce' /\ PullOrder'
  BY <1>1, <1>13, <1>14, Zenon DEF PushOnce, PullOrder
<1> QED
  BY <1>3, <1>5, <1>6, <1>8, <1>9, <1>10, <1>15, ZenonT(60) DEF IInv, Places

-----------------------------------------------------------------------------
(* A new connection, the first state, and all steps. *)

\* Nothing is on its way over a new connection.
LEMMA ConnectStep ==
  ASSUME IInv, Connect
  PROVE  IInv'
<1> DEFINE s == nconn + 1
<1>1. /\ TypeOK /\ ClientPlace /\ Buffers /\ WholeFrames /\ client \in Ends /\ pc[client] = "connect"
      /\ \A k \in Conns : ServerPlace(k)
  BY EndFacts, Zenon DEF IInv, Places, Connect
<1>2. /\ UNCHANGED <<opts, published, dest, sig, chan, resume, buf, cap, cursor, link, net>>
      /\ nconn' = s /\ sock' = s /\ pc' = [pc EXCEPT ![client] = "request", ![s] = "headers"]
  BY Zenon DEF Connect, netVars
<1>3. nconn \in Nat /\ nconn < MaxConns /\ MaxConns \in Nat /\ sock = 0
  BY <1>1, BoundAssumption, Zenon DEF TypeOK, ClientPlace, Connect
<1>4. s \in Nat /\ s <= MaxConns /\ s \in Conns /\ s > nconn /\ (\A k \in Conns : k > s => k > nconn)
  BY <1>3 DEF Conns
<1> HIDE DEF s
<1>5. s \in Ends /\ s # client /\ s # 0 /\ pc[s] = "none" /\ link[s] = NoLink
  BY <1>1, <1>4, EndFacts, Zenon DEF ServerPlace
<1>6. /\ DOMAIN pc' = Ends /\ pc'[client] = "request" /\ pc'[s] = "headers"
      /\ \A t \in Ends \ {client, s} : pc'[t] = pc[t]
  BY <1>1, <1>2, <1>5, Zenon DEF TypeOK
<1>7. TypeOK'
  BY <1>1, <1>2, <1>4, <1>6, Zenon DEF TypeOK
<1>8. /\ Resuming' = Resuming /\ Large' = Large /\ Sending' = Sending
      /\ \A t \in Ends : Handling(t)' = Handling(t) /\ Pushes(t)' = Pushes(t)
  BY <1>2, SameOptions, Zenon
<1>9. ClientPlace'
  <2>1. "request" \notin Handling(client)
    BY Zenon DEF Handling, Sending, Receiving
  <2> QED
    BY <1>1, <1>2, <1>5, <1>6, <1>8, <2>1, ZenonT(60) DEF ClientPlace, Dialling
<1>10. ASSUME NEW k \in Conns
       PROVE  ServerPlace(k)'
  <2>1. ServerPlace(k) /\ k \in Ends /\ k # client
    BY <1>1, EndFacts, Zenon
  <2>2. CASE k = s
    <3>1. link'[k].data = <<>>
      BY <1>2, <1>5, <2>2 DEF NoLink
    <3>2. ~ (k > nconn')
      BY <1>2, <1>4, <2>2
    <3> QED
      BY <1>6, <2>2, <3>1, <3>2, Zenon DEF ServerPlace
  <2>3. CASE k # s
    BY <1>2, <1>4, <1>6, <1>8, <2>1, <2>3, Zenon DEF ServerPlace
  <2> QED
    BY <2>2, <2>3, Zenon
<1>11. \A t \in Ends : Sends(t)' <=> Sends(t)
  <2>1. \A t \in Ends : t = s => ~ Sends(t)' /\ ~ Sends(t)
    BY <1>5, <1>6, Zenon DEF Sends
  <2>2. Sends(client)' <=> Sends(client)
    BY <1>1, <1>2, <1>6, Zenon DEF Sends, Dialling
  <2>3. ASSUME NEW t \in Ends, t # client, t # s
        PROVE  Sends(t)' <=> Sends(t)
    <3>1. pc'[t] = pc[t]
      BY <1>6, <2>3, Zenon
    <3> QED
      BY <2>3, <3>1, Zenon DEF Sends
  <2> QED
    BY <2>1, <2>2, <2>3, Zenon
<1>12. \A t \in Ends, l \in {"put", "read data"} : pc'[t] = l <=> pc[t] = l
  BY <1>1, <1>5, <1>6, Zenon
<1>13. Buffers'
  <2>1. \A t \in Ends : Sends(t)' => buf'[t] = <<cursor'[t], cursor'[t]>>
    BY <1>1, <1>2, <1>11, Zenon DEF Buffers
  <2>2. \A t \in Ends : pc'[t] \in {"read data", "put"} => pc[t] = pc'[t]
    BY <1>12, Zenon
  <2> QED
    BY <1>1, <1>2, <1>8, <2>1, <2>2, ZenonT(60) DEF Buffers
<1>14. WholeFrames'
  BY <1>1, <1>2, <1>8, Zenon DEF WholeFrames
<1>15. Stream'
  <2> SUFFICES ASSUME NEW k \in Conns, NEW r \in Ends, On(r, k)', ~ Pushes(r)'
               PROVE  LET d == link'[k].data
                      IN /\ d # <<>> => IF pc'[r] = "read data" THEN d[1] = <<"data", buf'[r][1]>>
                                        ELSE d[1][1] = "hdr"
                         /\ \A i \in 1 .. Len(d) - 1 :
                              IF d[i][1] = "hdr" THEN d[i + 1] = <<"data", d[i][2]>>
                              ELSE d[i + 1][1] = "hdr"
                         /\ \A t \in Ends : On(t, k)' /\ Pushes(t)' /\ ~ Gone(t)' =>
                              IF pc'[t] = "write data" THEN LastUnit(r)' = <<"hdr", buf'[t][2]>>
                              ELSE LastUnit(r)'[1] = "data"
    BY Zenon DEF Stream
  <2>1. K(client)' = s /\ \A t \in Conns : K(t)' = t /\ K(t) = t
    BY <1>2, EndFacts, Zenon DEF K, client
  <2>2. CASE k = s
    <3>1. link'[k].data = <<>> /\ Len(link'[k].data) - 1 = -1
      BY <1>2, <1>5, <2>2 DEF NoLink
    <3>2. \A t \in Ends : On(t, k)' => pc'[t] \in {"request", "headers"} /\ K(t)' = k
      BY <1>6, <2>1, <2>2, EndFacts, Zenon DEF On
    <3>3. LastUnit(r)' = <<"data", buf'[r][1]>>
      BY <3>1, <3>2, Zenon DEF LastUnit
    <3>4. LastUnit(r)'[1] = "data"
      BY <3>3
    <3>5. \A i \in 1 .. Len(link'[k].data) - 1 : FALSE
      BY <3>1
    <3> QED
      BY <3>1, <3>2, <3>4, <3>5, Zenon
  <2>3. CASE k # s
    <3>1. r = k /\ r # client /\ K(r) = k /\ K(r)' = k /\ pc'[r] = pc[r]
      BY <1>6, <2>1, <2>3, EndFacts, Zenon DEF On
    <3>2. On(r, k) /\ ~ Pushes(r)
      BY <1>2, <1>8, <3>1, Zenon DEF On
    <3>3. \A t \in Ends : On(t, k)' /\ Pushes(t)' => FALSE
      <4>1. ASSUME NEW t \in Ends, On(t, k)', Pushes(t)'
            PROVE  FALSE
        <5>1. t = k
          BY <2>1, <2>3, <4>1, EndFacts, Zenon DEF On
        <5> QED
          BY <3>1, <4>1, <5>1, Zenon
      <4> QED
        BY <4>1, Zenon
    <3>4. LET d == link[k].data
          IN /\ d # <<>> => IF pc[r] = "read data" THEN d[1] = <<"data", buf[r][1]>> ELSE d[1][1] = "hdr"
             /\ \A i \in 1 .. Len(d) - 1 :
                  IF d[i][1] = "hdr" THEN d[i + 1] = <<"data", d[i][2]>> ELSE d[i + 1][1] = "hdr"
      BY <3>2, Zenon DEF IInv, Stream
    <3> QED
      BY <1>2, <3>1, <3>3, <3>4, Zenon
  <2> QED
    BY <2>2, <2>3, Zenon
<1>16. \A n : Arrived(n)' = Arrived(n)
  BY <1>2, Zenon DEF Arrived
<1>17. \A t \in Ends, n \in Nat : Before(n, t) => Before(n, t)'
  BY <1>2, <1>11, Zenon DEF Before
<1>18. \A k \in Conns : /\ InTurn(k) => InTurn(k)'
                        /\ \A n \in Nat : Coming(k, n)' => Coming(k, n)
  <2>1. \A k \in Conns : Taker(k)' = Taker(k) /\ Taker(k) \in Ends
    BY <1>2, EndFacts, Zenon DEF Taker
  <2>2. \A k \in Conns : pc'[Taker(k)] = "put" <=> pc[Taker(k)] = "put"
    BY <1>12, <2>1, Zenon
  <2> QED
    BY <1>2, <2>1, <2>2, ZenonT(60) DEF InTurn, Coming
<1>19. ASSUME ~ opts.udp, opts.push
       PROVE  PushOnce'
  <2>1. /\ DeliveredOnce
        /\ \A n \in Nat : Arrived(n) => Before(n, client)
        /\ \A k \in Conns, n \in Nat : Coming(k, n) => Before(n, client) /\ ~ Arrived(n)
        /\ \A k, j \in Conns, n \in Nat : Coming(k, n) /\ Coming(j, n) => k = j
        /\ \A k \in Conns : InTurn(k)
    BY <1>19, Zenon DEF IInv, PushOnce
  <2>2. /\ \A k \in Conns : InTurn(k)'
        /\ \A k \in Conns, n \in Nat : Coming(k, n)' => Coming(k, n)
    BY <1>18, <2>1, Zenon
  <2>3. DeliveredOnce'
    BY <1>2, <2>1, Zenon DEF DeliveredOnce
  <2>4. \A n \in Nat : Before(n, client) => Before(n, client)'
    BY <1>17, EndFacts, Zenon
  <2>5. \A n \in Nat : Arrived(n)' => Before(n, client)'
    BY <1>16, <2>1, <2>4, Zenon
  <2>6. \A k \in Conns, n \in Nat : Coming(k, n)' => Before(n, client)' /\ ~ Arrived(n)'
    BY <1>16, <2>1, <2>2, <2>4, Zenon
  <2>7. \A k, j \in Conns, n \in Nat : Coming(k, n)' /\ Coming(j, n)' => k = j
    BY <2>1, <2>2, Zenon
  <2> QED
    BY <2>2, <2>3, <2>5, <2>6, <2>7, Zenon DEF PushOnce
<1>20. ASSUME ~ opts.udp, ~ opts.push
       PROVE  PullOrder'
  <2>1. PullInOrder /\ \A n \in Nat : Arrived(n) => n <= published
    BY <1>20, Zenon DEF IInv, PullOrder
  <2>2. PullInOrder'
    BY <1>2, <2>1, Zenon DEF PullInOrder
  <2>3. ASSUME NEW k \in Conns, k = sock'
        PROVE  /\ InTurn(k)'
               /\ \A n \in Nat : ~ Coming(k, n)'
               /\ pc'[k] \notin Sending'
    <3>1. k = s /\ Taker(k)' = client
      BY <1>2, <1>20, <2>3, Zenon DEF Taker
    <3>2. link'[k].data = <<>>
      BY <1>2, <1>5, <3>1 DEF NoLink
    <3>3. \A i \in 1 .. Len(link'[k].data) : FALSE
      BY <3>2
    <3>4. pc'[client] # "put" /\ pc'[k] = "headers"
      BY <1>6, <3>1, Zenon
    <3>5. "headers" \notin Sending
      BY Zenon DEF Sending
    <3> QED
      BY <1>8, <3>1, <3>3, <3>4, <3>5, Zenon DEF InTurn, Coming
  <2> QED
    BY <1>2, <1>16, <2>1, <2>2, <2>3, Zenon DEF PullOrder
<1>21. PushOnce' /\ PullOrder'
  BY <1>2, <1>19, <1>20, Zenon DEF PushOnce, PullOrder
<1> QED
  BY <1>7, <1>9, <1>10, <1>13, <1>14, <1>15, <1>21, ZenonT(60) DEF IInv, Places

\* The invariant in the first state.
LEMMA InitIInv ==
  ASSUME Init
  PROVE  IInv
<1>1. /\ opts \in Options /\ published = 0 /\ dest = <<>> /\ nconn = 0 /\ sock = 0 /\ sig = FALSE /\ chan = FALSE
      /\ pc = [e \in Ends |-> IF e = client THEN "connect" ELSE "none"]
      /\ link = [k \in Conns |-> NoLink] /\ net = {}
      /\ buf = [e \in Ends |-> <<0, 0>>] /\ cap = [e \in Ends |-> FALSE] /\ cursor = [e \in Ends |-> 0]
  BY Zenon DEF Init, InitOptions, InitClient
<1>2. NoLink \in Link /\ NoLink.data = <<>>
  BY DEF NoLink, Link
<1>3. 0 \in Nat /\ 0 <= 0 /\ <<0, 0>> \in Nat \X Nat /\ 0 <= MaxConns /\ dest \in Seq(Put) /\ Len(dest) = 0
  BY <1>1, BoundAssumption
<1>4. 0 <= Len(opts.frames)
  BY <1>1, OptionsAssumption
<1>5. /\ pc[client] = "connect" /\ \A k \in Conns : pc[k] = "none" /\ link[k] = NoLink
  BY <1>1, EndFacts, Zenon
<1>6. TypeOK
  BY <1>1, <1>2, <1>3, <1>4, Zenon DEF TypeOK
<1>7. Places
  <2>1. "connect" \notin Handling(client)
    BY Zenon DEF Handling, Sending, Receiving
  <2> QED
    BY <1>1, <1>2, <1>5, <2>1, Zenon DEF Places, ClientPlace, ServerPlace, Dialling
<1>8. Buffers
  <2>1. \A e \in Ends : pc[e] \in {"connect", "none"} /\ ~ chan
    BY <1>1, Zenon
  <2> QED
    BY <2>1, Zenon DEF Buffers, Sends
<1>9. Stream
  <2>1. \A e \in Ends, k \in Conns : ~ On(e, k)
    <3>1. \A k \in Conns : k # 0
      BY EndFacts, Zenon
    <3> QED
      BY <1>1, <1>5, <3>1, EndFacts, ZenonT(60) DEF On
  <2> QED
    BY <2>1, Zenon DEF Stream
<1>10. \A i \in 1 .. Len(dest) : FALSE
  BY <1>3
<1>11. WholeFrames /\ DeliveredOnce /\ PullInOrder /\ \A n : ~ Arrived(n)
  BY <1>10, Zenon DEF WholeFrames, DeliveredOnce, PullInOrder, Arrived
<1>12. ASSUME NEW k \in Conns
       PROVE  InTurn(k) /\ k # sock /\ \A n : ~ Coming(k, n)
  <2>1. \A i \in 1 .. Len(link[k].data) : FALSE
    BY <1>2, <1>5
  <2>2. pc[Taker(k)] # "put" /\ k # sock
    BY <1>1, <1>5, EndFacts, Zenon DEF Taker
  <2> QED
    BY <2>1, <2>2, Zenon DEF InTurn, Coming
<1>13. PushOnce /\ PullOrder
  BY <1>11, <1>12, Zenon DEF PushOnce, PullOrder
<1> QED
  BY <1>6, <1>7, <1>8, <1>9, <1>11, <1>13, Zenon DEF IInv

\* Every step of a handler.
LEMMA HandleIInv ==
  ASSUME IInv, NEW e \in Ends, GetFrame(e) \/ Handle(e)
  PROVE  IInv'
<1>1. CASE Written(e)
  BY <1>1, WrittenGone, WrittenAppends, WrittenStep, Zenon
<1>2. CASE Read(e)
  BY <1>2, ReadTakes, ReadStep, Zenon
<1> QED
  BY <1>1, <1>2, GetFrameStep, WriteFailsStep, PollStep, SendToStep, ReadFailsStep, RecvFromStep,
     PutFrameStep, PutFailsStep, ZenonT(60) DEF Handle

\* Every step.
LEMMA NextIInv ==
  ASSUME IInv, [Next]_vars
  PROVE  IInv'
<1>1. CASE Client
  <2>1. CASE Handle(client)
    BY <2>1, EndFacts, HandleIInv, Zenon
  <2> QED
    BY <1>1, <2>1, SleepStep, ConnectStep, ConnectRefusedStep, RequestStep, RequestFailsStep, ResponseStep,
       OpenChannelStep, ClientEnds, WriteSpinsStep, ZenonT(60) DEF Client
<1>2. CASE Publish \/ Datagram \/ Term
  BY <1>2, PublishStep, DatagramTermStep, Zenon
<1>3. ASSUME NEW k \in Conns, Server(k) \/ ServerDies(k) \/ Break(k)
      PROVE  IInv'
  <2>1. CASE Handle(k)
    BY <2>1, EndFacts, HandleIInv, Zenon
  <2> QED
    BY <1>3, <2>1, ServeStep, ServerEnds, BreakStep, Zenon DEF Server
<1>4. CASE UNCHANGED vars
  <2>1. TypeOK /\ ClientPlace /\ client \in Ends
    BY EndFacts, Zenon DEF IInv, Places
  <2>2. UNCHANGED <<opts, published, dest, nconn, sock, sig, chan, resume, pc, buf, cap, cursor, link, net>>
    BY <1>4, Zenon DEF vars, clientVars, procVars, netVars
  <2>3. (Sends(client)' => Sends(client)) /\ pc[client] # "none"
    BY <2>1, <2>2, Zenon DEF Sends, ClientPlace, Dialling, Handling, Sending, Receiving
  <2>4. ClientPlace'
    <3>1. Handling(client)' = Handling(client) /\ Resuming' = Resuming
      BY <2>1, <2>2, SameOptions, Zenon
    <3> QED
      BY <2>1, <2>2, <3>1, Zenon DEF ClientPlace
  <2>5. sig' \in BOOLEAN /\ net' \subseteq Nat \X Nat /\ DOMAIN pc' = Ends
    BY <2>1, <2>2, Zenon DEF TypeOK
  <2> QED
    BY <2>1, <2>2, <2>3, <2>4, <2>5, MoveStep, ZenonT(60)
<1>5. ASSUME NEW e \in Ends, GetFrame(e)
      PROVE  IInv'
  BY <1>5, HandleIInv, Zenon
<1> QED
  BY <1>1, <1>2, <1>3, <1>4, <1>5, Zenon DEF Next

\* The invariant holds in every state, for any command lines, depth and number of
\* connections, whatever is lost or killed.
THEOREM Invariant == Spec => []IInv
<1>1. Init => IInv
  BY InitIInv, Zenon
<1>2. IInv /\ [Next]_vars => IInv'
  BY NextIInv, Zenon
<1> QED
  BY <1>1, <1>2, PTL DEF Spec

\* Every frame in the destination is one frame of the source and whole, unless it was
\* a datagram longer than the buffer: what achd_write() of one end tears apart, the
\* other end never puts together wrongly.
THEOREM FramesStayWhole == Spec => []WholeFrames
<1>1. IInv => WholeFrames
  BY Zenon DEF IInv
<1> QED
  BY <1>1, Invariant, PTL

\* Over TCP a pulling client puts the frames in the order of the source across all of
\* its connections.
THEOREM PullsInOrder == Spec => []PullInOrder
<1>1. IInv => PullInOrder
  BY Zenon DEF IInv, PullOrder, PullInOrder
<1> QED
  BY <1>1, Invariant, PTL

\* Over TCP no frame is delivered twice, however often the client reconnects and sends
\* a frame again.
THEOREM DeliversOnce == Spec => []DeliveredOnce
<1>1. IInv => DeliveredOnce
  <2> SUFFICES ASSUME IInv, ~ opts.udp
               PROVE  DeliveredOnce
    BY Zenon DEF DeliveredOnce
  <2>1. CASE opts.push
    BY <2>1, Zenon DEF IInv, PushOnce
  <2>2. CASE ~ opts.push
    <3>1. \A i, j \in 1 .. Len(dest) : i < j => dest[i].data < dest[j].data
      BY <2>2, Zenon DEF IInv, PullOrder, PullInOrder
    <3>2. \A i \in 1 .. Len(dest) : dest[i].data \in Nat
      <4>1. dest \in Seq(Put)
        BY Zenon DEF IInv, TypeOK
      <4>2. \A i \in 1 .. Len(dest) : dest[i] \in Put
        BY <4>1
      <4>3. \A d \in Put : d.data \in Nat
        BY Zenon DEF Put
      <4> QED
        BY <4>2, <4>3, Zenon
    <3>3. \A i, j \in 1 .. Len(dest) : i # j => dest[i].data # dest[j].data
      <4> SUFFICES ASSUME NEW i \in 1 .. Len(dest), NEW j \in 1 .. Len(dest), i # j
                   PROVE  dest[i].data # dest[j].data
        BY Zenon
      <4>1. i < j \/ j < i
        OBVIOUS
      <4>2. dest[i].data < dest[j].data \/ dest[j].data < dest[i].data
        BY <3>1, <4>1, Zenon
      <4> QED
        BY <3>2, <4>2
    <3> QED
      BY <3>3, Zenon DEF DeliveredOnce
  <2> QED
    BY <2>1, <2>2, Zenon
<1> QED
  BY <1>1, Invariant, PTL

-----------------------------------------------------------------------------
(* The descriptors. *)

\* The lowest free descriptor is the one below which all are in use.
LEMMA LowestIs ==
  ASSUME NEW open \in SUBSET Nat, NEW n \in Nat \ {0}, n = 1 \/ n - 1 \in open,
         n \notin open, \A m \in 1 .. n - 1 : m \in open
  PROVE  Lowest(open) = n
<1> DEFINE S == {1} \cup {m + 1 : m \in open}
           P(c) == c \notin open /\ \A m \in 1 .. c - 1 : m \in open
<1>1. n \in S /\ P(n)
  OBVIOUS
<1>2. ASSUME NEW c \in S, P(c)
      PROVE  c = n
  <2>1. c \in Nat \ {0}
    OBVIOUS
  <2>2. ~ (c < n)
    BY <1>2, <2>1
  <2>3. ~ (n < c)
    BY <1>2, <2>1
  <2> QED
    BY <2>1, <2>2, <2>3
<1>3. Lowest(open) = CHOOSE c \in S : P(c)
  BY Zenon DEF Lowest
<1> HIDE DEF S, P
<1> QED
  BY <1>1, <1>2, <1>3, Zenon

\* The descriptors that the sockets and the channel get.
LEMMA LowestFacts ==
  /\ Lowest({}) = 1 /\ Lowest({3}) = 1 /\ Lowest({1}) = 2 /\ Lowest({3} \cup {1}) = 2
<1>1. Lowest({}) = 1
  BY LowestIs
<1>2. Lowest({3}) = 1
  BY LowestIs
<1>3. Lowest({1}) = 2
  BY LowestIs
<1>4. Lowest({3} \cup {1}) = 2
  BY LowestIs
<1> QED
  BY <1>1, <1>2, <1>3, <1>4, Zenon

\* What a step can do to the client's descriptors: nothing, while it stays at its stage
\* or ends; or achd_reconnect() closes the sockets.
Kept ==
  /\ fd' = fd /\ chan' = chan /\ opts' = opts
  /\ \/ pc'[client] = pc[client] \/ pc'[client] \in {"exit", "spin"}
     \/ pc'[client] \in {"sleep", "connect"} /\ pc[client] \in {"sleep", "connect"}
     \/ /\ pc'[client] \in {"response", "channel"} \cup Handling(client)
        /\ pc[client] \in {"response", "channel"} \cup Handling(client)
Closed ==
  /\ fd' = [fd EXCEPT !.open = @ \ {fd.in, fd.aux}, !.in = 0, !.aux = 0]
  /\ chan' = chan /\ opts' = opts /\ pc[client] \in Handling(client) /\ pc'[client] = "sleep"

\* A handler keeps the descriptors, or loses the connection.
LEMMA HandlerKeeps ==
  ASSUME IInv, NEW e \in Ends, GetFrame(e) \/ Handle(e)
  PROVE  Kept \/ Closed
<1>1. pc[e] \in {"get", "write hdr", "write data", "poll", "send", "read", "read data", "recv", "put"}
  BY Zenon DEF Handle, GetFrame, Written, WriteFails, PollSend, SendTo, Read, ReadFails, PollRecv, RecvFrom,
               PutFrame, PutFails
<1>2. TypeOK /\ pc[e] \in Handling(e) /\ Handler(e) \in Handling(e) /\ client \in Ends
  <2>1. Handler(e) \in Handling(e)
    BY Zenon DEF Handler, Handling, Sending, Receiving, recv_hdr
  <2> QED
    BY <1>1, <2>1, HandlerFacts, EndFacts, Zenon
<1>3. ASSUME NEW l, Goto(e, l), l \in Handling(e) \cup {"exit"}, UNCHANGED <<fd, chan, opts>>
      PROVE  Kept
  BY <1>2, <1>3, GotoFacts, Zenon DEF Kept
<1>4. ASSUME Exit(e), UNCHANGED <<fd, chan, opts>>
      PROVE  Kept
  BY <1>3, <1>4, Zenon DEF Exit
<1>5. ASSUME NEW l, Fail(e, l), UNCHANGED <<chan, opts>>
      PROVE  Kept \/ Closed
  <2>1. CASE Exit(e) /\ UNCHANGED fd
    BY <1>4, <1>5, <2>1, Zenon
  <2>2. CASE /\ e = client /\ Goto(e, "sleep")
             /\ fd' = [fd EXCEPT !.open = @ \ {fd.in, fd.aux}, !.in = 0, !.aux = 0]
    BY <1>2, <1>5, <2>2, GotoFacts, Zenon DEF Closed
  <2> QED
    BY <1>5, <2>1, <2>2, Zenon DEF Fail
<1>6. CASE GetFrame(e)
  <2>1. UNCHANGED <<fd, chan, opts>> /\ Pushes(e)
    BY <1>1, <1>6, HandlerFacts, Zenon DEF GetFrame, clientVars
  <2>2. \/ pc' = pc
        \/ Goto(e, "write hdr") /\ ~ opts.udp
        \/ Goto(e, "get")
        \/ Goto(e, "poll") /\ opts.udp
    <3>1. pc' = pc \/ Goto(e, IF ~ opts.udp THEN "write hdr"
                              ELSE IF opts.frames[NextFrame(cursor[e])] = "huge" THEN "get" ELSE "poll")
      BY <1>6, Zenon DEF GetFrame
    <3> QED
      BY <3>1, Zenon
  <2>3. "get" \in Handling(e) /\ (opts.udp => "poll" \in Handling(e)) /\ (~ opts.udp => "write hdr" \in Handling(e))
    BY <2>1, Zenon DEF Handling, Sending
  <2> QED
    BY <1>3, <2>1, <2>2, <2>3, Zenon DEF Kept
<1>7. CASE Written(e)
  <2>1. UNCHANGED <<fd, chan, opts>> /\ Pushes(e) /\ ~ opts.udp
    BY <1>1, <1>7, HandlerFacts, Zenon DEF Written, clientVars
  <2>2. Goto(e, "write data") \/ Goto(e, "get")
    BY <1>7, Zenon DEF Written
  <2>3. "get" \in Handling(e) /\ "write data" \in Handling(e)
    BY <2>1, Zenon DEF Handling, Sending
  <2> QED
    BY <1>3, <2>1, <2>2, <2>3, Zenon
<1>8. CASE WriteFails(e) \/ ReadFails(e)
  <2>1. UNCHANGED <<chan, opts>> /\ \E l : Fail(e, l)
    BY <1>8, Zenon DEF WriteFails, ReadFails
  <2> QED
    BY <1>5, <2>1, Zenon
<1>9. CASE PollSend(e)
  <2>1. UNCHANGED <<chan, opts>> /\ Pushes(e) /\ opts.udp
    BY <1>1, <1>9, HandlerFacts, Zenon DEF PollSend
  <2>2. (Exit(e) /\ UNCHANGED fd) \/ Fail(e, "send") \/ (Goto(e, "send") /\ UNCHANGED fd)
    BY <1>9, Zenon DEF PollSend
  <2>3. "send" \in Handling(e)
    BY <2>1, Zenon DEF Handling, Sending
  <2> QED
    BY <1>3, <1>4, <1>5, <2>1, <2>2, <2>3, ZenonT(60)
<1>10. CASE SendTo(e)
  <2>1. UNCHANGED <<fd, chan, opts>> /\ Pushes(e)
    BY <1>1, <1>10, HandlerFacts, Zenon DEF SendTo, clientVars
  <2>2. Exit(e) \/ Goto(e, "get")
    BY <1>10, Zenon DEF SendTo
  <2>3. "get" \in Handling(e)
    BY <2>1, Zenon DEF Handling, Sending
  <2> QED
    BY <1>3, <1>4, <2>1, <2>2, <2>3, ZenonT(60)
<1>11. CASE Read(e)
  <2>1. UNCHANGED <<chan, opts>> /\ ~ Pushes(e) /\ ~ opts.udp
    BY <1>1, <1>11, HandlerFacts, Zenon DEF Read
  <2>2. (Goto(e, "read data") /\ UNCHANGED fd) \/ Fail(e, "read") \/ (Goto(e, "put") /\ UNCHANGED fd)
    BY <1>11, Zenon DEF Read
  <2>3. "read data" \in Handling(e) /\ "put" \in Handling(e)
    BY <2>1, Zenon DEF Handling, Receiving
  <2> QED
    BY <1>3, <1>5, <2>1, <2>2, <2>3, Zenon
<1>12. CASE PollRecv(e)
  <2>1. UNCHANGED <<chan, opts>> /\ ~ Pushes(e) /\ opts.udp
    BY <1>1, <1>12, HandlerFacts, Zenon DEF PollRecv
  <2>2. (Exit(e) /\ UNCHANGED fd) \/ (\E l : Fail(e, l)) \/ (Goto(e, "recv") /\ UNCHANGED fd)
    BY <1>12, Zenon DEF PollRecv
  <2>3. "recv" \in Handling(e)
    BY <2>1, Zenon DEF Handling, Receiving
  <2> QED
    BY <1>3, <1>4, <1>5, <2>1, <2>2, <2>3, Zenon
<1>13. CASE RecvFrom(e)
  <2>1. UNCHANGED <<fd, chan, opts>> /\ ~ Pushes(e) /\ opts.udp
    BY <1>1, <1>13, HandlerFacts, Zenon DEF RecvFrom, clientVars
  <2>2. Goto(e, "poll") \/ Goto(e, "put")
    BY <1>13, Zenon DEF RecvFrom
  <2>3. "poll" \in Handling(e) /\ "put" \in Handling(e)
    BY <2>1, Zenon DEF Handling, Receiving
  <2> QED
    BY <1>3, <2>1, <2>2, <2>3, Zenon
<1>14. CASE PutFrame(e) \/ PutFails(e)
  <2>1. UNCHANGED <<fd, chan, opts>> /\ (Exit(e) \/ Goto(e, Handler(e)))
    BY <1>14, Zenon DEF PutFrame, PutFails, clientVars
  <2> QED
    BY <1>2, <1>3, <1>4, <2>1, Zenon
<1> QED
  BY <1>6, <1>7, <1>8, <1>9, <1>10, <1>11, <1>12, <1>13, <1>14, ZenonT(60) DEF Handle

\* A step that changes no descriptor, or closes both sockets.
LEMMA KeepsDescriptors ==
  ASSUME Descriptors, IInv, Kept \/ Closed
  PROVE  Descriptors'
<1>1. client \in Ends /\ opts' = opts /\ chan' = chan
  BY EndFacts, Zenon DEF Kept, Closed
<1>2. /\ Handling(client)' = Handling(client)
      /\ {"exit", "spin", "sleep", "connect", "request", "response", "channel"} \cap Handling(client) = {}
  <2>1. "exit" \notin Handling(client) /\ "spin" \notin Handling(client) /\ "sleep" \notin Handling(client)
        /\ "connect" \notin Handling(client) /\ "request" \notin Handling(client)
        /\ "response" \notin Handling(client) /\ "channel" \notin Handling(client)
    BY Zenon DEF Handling, Sending, Receiving
  <2> QED
    BY <1>1, <2>1, SameOptions, Zenon
<1>3. CASE Kept
  <2>1. fd' = fd
    BY <1>3, Zenon DEF Kept
  <2>2. \A o, i, a : Has(o, i, a)' <=> Has(o, i, a)
    BY <2>1, Zenon DEF Has
  <2>3. CASE pc'[client] = pc[client]
    BY <1>1, <1>2, <2>1, <2>3, Zenon DEF Descriptors, Has
  <2>4. CASE pc'[client] \in {"exit", "spin"}
    BY <1>1, <1>2, <2>1, <2>4, Zenon DEF Descriptors, Has
  <2>5. CASE pc'[client] \in {"sleep", "connect"} /\ pc[client] \in {"sleep", "connect"}
    BY <1>1, <1>2, <2>1, <2>5, Zenon DEF Descriptors, Has
  <2>6. CASE /\ pc'[client] \in {"response", "channel"} \cup Handling(client)
             /\ pc[client] \in {"response", "channel"} \cup Handling(client)
    BY <1>1, <1>2, <2>1, <2>6, Zenon DEF Descriptors, Has
  <2> QED
    BY <1>3, <2>3, <2>4, <2>5, <2>6, Zenon DEF Kept
<1>4. CASE Closed
  <2>1. /\ fd = [open |-> fd.open, in |-> fd.in, aux |-> fd.aux, pfd |-> fd.pfd, leaked |-> fd.leaked]
        /\ fd' = [fd EXCEPT !.open = fd.open \ {fd.in, fd.aux}, !.in = 0, !.aux = 0]
    BY <1>4, Zenon DEF Descriptors, Closed
  <2>2. fd' = [open |-> fd.open \ {fd.in, fd.aux}, in |-> 0, aux |-> 0, pfd |-> fd.pfd, leaked |-> fd.leaked]
    BY <2>1, Zenon
  <2>3. /\ fd'.open = fd.open \ {fd.in, fd.aux} /\ fd'.in = 0 /\ fd'.aux = 0 /\ fd'.pfd = fd.pfd
        /\ fd'.leaked = fd.leaked
    BY <2>2, Zenon
  <2>4. pc[client] \in Handling(client) /\ pc'[client] = "sleep"
    BY <1>4, Zenon DEF Closed
  <2>5. ASSUME opts.udp, ~ fd.leaked
        PROVE  fd'.open = IF chan THEN {3} ELSE {}
    <3>1. Has((IF chan THEN {3} ELSE {}) \cup {1, 2}, 1, 2)
      BY <2>4, <2>5, Zenon DEF Descriptors
    <3>2. fd.open = (IF chan THEN {3} ELSE {}) \cup {1, 2} /\ fd.in = 1 /\ fd.aux = 2
      BY <3>1, Zenon DEF Has
    <3> QED
      BY <2>3, <3>2
  <2>6. opts.udp /\ ~ fd.leaked /\ chan => fd.pfd = 2
    BY Zenon DEF Descriptors
  <2>7. fd' = [open |-> fd'.open, in |-> fd'.in, aux |-> fd'.aux, pfd |-> fd'.pfd, leaked |-> fd'.leaked]
    BY <2>2, Zenon
  <2> QED
    BY <1>1, <1>2, <2>3, <2>4, <2>5, <2>6, <2>7, ZenonT(60) DEF Descriptors, Has
<1> QED
  BY <1>3, <1>4, Zenon

\* socket_connect() and achd_udp_sock() get the lowest free numbers.
LEMMA OpensDescriptors ==
  ASSUME Descriptors, IInv, Connect \/ Request
  PROVE  Descriptors'
<1>1. TypeOK /\ client \in Ends /\ opts' = opts /\ chan' = chan
  BY EndFacts, Zenon DEF Connect, Request, IInv
<1>2. fd = [open |-> fd.open, in |-> fd.in, aux |-> fd.aux, pfd |-> fd.pfd, leaked |-> fd.leaked]
  BY Zenon DEF Descriptors
<1>3. /\ Handling(client)' = Handling(client)
      /\ "request" \notin Handling(client) /\ "response" \notin Handling(client)
  <2>1. "request" \notin Handling(client) /\ "response" \notin Handling(client)
    BY Zenon DEF Handling, Sending, Receiving
  <2> QED
    BY <1>1, <2>1, SameOptions, Zenon
<1> DEFINE n == Lowest(fd.open)
<1> HIDE DEF n
<1>4. CASE Connect
  <2>1. fd' = [fd EXCEPT !.open = fd.open \cup {n}, !.in = n] /\ pc[client] = "connect"
    BY <1>4, Zenon DEF Connect, n
  <2>2. pc'[client] = "request"
    <3>1. DOMAIN pc = Ends /\ nconn + 1 # client
      BY <1>1 DEF TypeOK, client
    <3> QED
      BY <1>1, <1>4, <3>1, ZenonT(60) DEF Connect
  <2>3. fd' = [open |-> fd.open \cup {n}, in |-> n, aux |-> fd.aux, pfd |-> fd.pfd, leaked |-> fd.leaked]
    BY <1>2, <2>1, Zenon
  <2>4. /\ fd'.open = fd.open \cup {n} /\ fd'.in = n /\ fd'.aux = fd.aux /\ fd'.pfd = fd.pfd
        /\ fd'.leaked = fd.leaked
        /\ fd' = [open |-> fd'.open, in |-> fd'.in, aux |-> fd'.aux, pfd |-> fd'.pfd, leaked |-> fd'.leaked]
    BY <2>3, Zenon
  <2>5. ASSUME opts.udp, ~ fd.leaked
        PROVE  Has((IF chan THEN {3} ELSE {}) \cup {1}, 1, 0)'
    <3>1. fd.open = (IF chan THEN {3} ELSE {}) /\ fd.aux = 0
      BY <2>1, <2>5, Zenon DEF Descriptors, Has
    <3>2. n = 1
      BY <3>1, LowestFacts, Zenon DEF n
    <3> QED
      BY <1>1, <2>4, <3>1, <3>2, Zenon DEF Has
  <2>6. opts.udp /\ ~ fd.leaked /\ chan => fd.pfd = 2
    BY Zenon DEF Descriptors
  <2> QED
    BY <1>1, <1>3, <2>2, <2>4, <2>5, <2>6, Zenon DEF Descriptors
<1>5. CASE Request
  <2>1. fd' = achd_udp_sock /\ pc[client] = "request" /\ pc'[client] = "response"
    BY <1>1, <1>5, GotoFacts, ZenonT(60) DEF Request
  <2>2. CASE ~ opts.udp
    <3>1. fd' = fd
      BY <2>1, <2>2, Zenon DEF achd_udp_sock
    <3> QED
      BY <1>1, <1>2, <2>2, <3>1, Zenon DEF Descriptors
  <2>3. CASE opts.udp
    <3>1. fd' = [fd EXCEPT !.open = fd.open \cup {n}, !.aux = n]
      BY <2>1, <2>3, Zenon DEF achd_udp_sock, n
    <3>2. fd' = [open |-> fd.open \cup {n}, in |-> fd.in, aux |-> n, pfd |-> fd.pfd, leaked |-> fd.leaked]
      BY <1>2, <3>1, Zenon
    <3>3. /\ fd'.open = fd.open \cup {n} /\ fd'.in = fd.in /\ fd'.aux = n /\ fd'.pfd = fd.pfd
          /\ fd'.leaked = fd.leaked
          /\ fd' = [open |-> fd'.open, in |-> fd'.in, aux |-> fd'.aux, pfd |-> fd'.pfd, leaked |-> fd'.leaked]
      BY <3>2, Zenon
    <3>4. ASSUME ~ fd.leaked
          PROVE  Has((IF chan THEN {3} ELSE {}) \cup {1, 2}, 1, 2)'
      <4>1. fd.open = (IF chan THEN {3} ELSE {}) \cup {1} /\ fd.in = 1
        BY <2>1, <2>3, <3>4, Zenon DEF Descriptors, Has
      <4>2. (IF chan THEN {3} ELSE {}) \cup {1} = IF chan THEN {3} \cup {1} ELSE {1}
        BY Zenon
      <4>3. n = 2
        BY <4>1, <4>2, LowestFacts, Zenon DEF n
      <4>4. fd'.open = (IF chan THEN {3} ELSE {}) \cup {1, 2}
        BY <3>3, <4>1, <4>3, Zenon
      <4> QED
        BY <1>1, <3>3, <4>1, <4>3, <4>4, ZenonT(60) DEF Has
    <3>5. ~ fd.leaked /\ chan => fd.pfd = 2
      BY <2>3, Zenon DEF Descriptors
    <3> QED
      BY <1>1, <1>3, <2>1, <2>3, <3>3, <3>4, <3>5, ZenonT(60) DEF Descriptors
  <2> QED
    BY <2>2, <2>3, Zenon
<1> QED
  BY <1>4, <1>5, Zenon

\* The channel gets the next number, and its handle is set up with the sockets of the
\* first connection.
LEMMA OpenChannelDescriptors ==
  ASSUME Descriptors, IInv, OpenChannel
  PROVE  Descriptors'
<1>1. TypeOK /\ ClientPlace /\ client \in Ends /\ opts' = opts /\ chan' = TRUE /\ pc[client] = "channel"
  BY EndFacts, Zenon DEF OpenChannel, IInv, Places
<1> DEFINE n == Lowest(fd.open)
<1> HIDE DEF n
<1>2. /\ fd = [open |-> fd.open, in |-> fd.in, aux |-> fd.aux, pfd |-> fd.pfd, leaked |-> fd.leaked]
      /\ fd' = [fd EXCEPT !.open = fd.open \cup {n}, !.pfd = fd.aux]
  BY Zenon DEF Descriptors, OpenChannel, n
<1>3. fd' = [open |-> fd.open \cup {n}, in |-> fd.in, aux |-> fd.aux, pfd |-> fd.aux, leaked |-> fd.leaked]
  BY <1>2, Zenon
<1>4. /\ fd'.open = fd.open \cup {n} /\ fd'.in = fd.in /\ fd'.aux = fd.aux /\ fd'.pfd = fd.aux
      /\ fd'.leaked = fd.leaked
      /\ fd' = [open |-> fd'.open, in |-> fd'.in, aux |-> fd'.aux, pfd |-> fd'.pfd, leaked |-> fd'.leaked]
  BY <1>3, Zenon
<1>5. /\ pc'[client] \notin {"sleep", "connect", "request"}
      /\ Handling(client)' = Handling(client)
  <2>1. Handler(client) \notin {"sleep", "connect", "request"}
    BY Zenon DEF Handler
  <2>2. Goto(client, "exit") \/ Goto(client, Handler(client))
    BY Zenon DEF OpenChannel, Exit
  <2>3. pc'[client] \in {"exit", Handler(client)}
    BY <1>1, <2>2, GotoFacts, Zenon
  <2>4. Handling(client)' = Handling(client)
    BY <1>1, SameOptions, Zenon
  <2> QED
    BY <2>1, <2>3, <2>4, Zenon
<1>6. ASSUME opts.udp, ~ fd.leaked
      PROVE  fd'.pfd = 2 /\ fd'.open = {3} \cup {1, 2} /\ fd'.in = 1 /\ fd'.aux = 2
  <2>1. ~ chan /\ Has({} \cup {1, 2}, 1, 2)
    <3>1. ~ chan
      BY <1>1, Zenon DEF ClientPlace
    <3> QED
      BY <1>1, <1>6, <3>1, Zenon DEF Descriptors
  <2>2. fd.open = {1, 2} /\ fd.in = 1 /\ fd.aux = 2
    BY <2>1, Zenon DEF Has
  <2>3. Lowest({1, 2}) = 3
    BY LowestIs
  <2>4. n = 3
    BY <2>2, <2>3, Zenon DEF n
  <2> QED
    BY <1>4, <2>2, <2>4, Zenon
<1> QED
  BY <1>1, <1>4, <1>5, <1>6, Zenon DEF Descriptors, Has

\* The invariant about the descriptors is inductive together with the first one.
LEMMA NextDescriptors ==
  ASSUME IInv, Descriptors, [Next]_vars
  PROVE  Descriptors'
<1>1. TypeOK /\ ClientPlace /\ client \in Ends
  BY EndFacts, Zenon DEF IInv, Places
<1>2. ASSUME NEW l \in {"exit", "spin"}, Goto(client, l), UNCHANGED <<fd, chan, opts>>
      PROVE  Kept
  BY <1>1, <1>2, GotoFacts, Zenon DEF Kept
<1>3. ASSUME pc'[client] = pc[client], UNCHANGED <<fd, chan, opts>>
      PROVE  Kept
  BY <1>3, Zenon DEF Kept
<1>4. CASE Client
  <2>1. CASE Sleep
    <3>1. UNCHANGED <<fd, chan, opts>> /\ pc[client] = "sleep" /\ Goto(client, "connect")
      BY <2>1, Zenon DEF Sleep, clientVars
    <3>2. pc'[client] = "connect"
      BY <1>1, <3>1, GotoFacts, Zenon
    <3> QED
      BY <3>1, <3>2, KeepsDescriptors, Zenon DEF Kept
  <2>2. CASE ConnectRefused
    <3>1. /\ UNCHANGED <<fd, chan, opts>> /\ pc[client] = "connect"
          /\ Goto(client, "exit") \/ Goto(client, "sleep")
      BY <2>2, Zenon DEF ConnectRefused, ConnectFailed, clientVars
    <3>2. pc'[client] \in {"exit", "sleep"}
      BY <1>1, <3>1, GotoFacts, Zenon
    <3> QED
      BY <3>1, <3>2, KeepsDescriptors, Zenon DEF Kept
  <2>3. CASE RequestFails
    <3>1. CASE Exit(client) /\ UNCHANGED fd
      BY <1>2, <2>3, <3>1, KeepsDescriptors, ZenonT(60) DEF Exit, RequestFails
    <3>2. CASE /\ ConnectFailed
               /\ fd' = [achd_udp_sock EXCEPT !.open = @ \ {fd.in}, !.in = 0, !.aux = 0,
                                              !.leaked = @ \/ opts.udp]
      <4> DEFINE g == achd_udp_sock
      <4>1. opts' = opts /\ pc'[client] \in {"exit", "sleep"}
        BY <1>1, <2>3, <3>2, GotoFacts, Zenon DEF RequestFails, ConnectFailed
      <4>2. fd = [open |-> fd.open, in |-> fd.in, aux |-> fd.aux, pfd |-> fd.pfd, leaked |-> fd.leaked]
        BY Zenon DEF Descriptors
      <4>3. g = [open |-> g.open, in |-> g.in, aux |-> g.aux, pfd |-> g.pfd, leaked |-> g.leaked]
        <5> DEFINE n == Lowest(fd.open)
        <5> HIDE DEF n
        <5>1. CASE opts.udp
          <6>1. g = [fd EXCEPT !.open = fd.open \cup {n}, !.aux = n]
            BY <5>1, Zenon DEF achd_udp_sock, n
          <6>2. g = [open |-> fd.open \cup {n}, in |-> fd.in, aux |-> n, pfd |-> fd.pfd, leaked |-> fd.leaked]
            BY <4>2, <6>1, Zenon
          <6> HIDE DEF g
          <6> QED
            BY <6>2, Zenon
        <5>2. CASE ~ opts.udp
          BY <4>2, <5>2, Zenon DEF achd_udp_sock
        <5> QED
          BY <5>1, <5>2, Zenon
      <4>4. fd' = [g EXCEPT !.open = g.open \ {fd.in}, !.in = 0, !.aux = 0, !.leaked = g.leaked \/ opts.udp]
        BY <3>2, Zenon
      <4> HIDE DEF g
      <4> DEFINE lk == g.leaked \/ opts.udp
                 op == g.open \ {fd.in}
      <4>5. fd' = [g EXCEPT !.open = op, !.in = 0, !.aux = 0, !.leaked = lk]
        BY <4>4, Zenon
      <4>6. opts.udp => lk
        BY Zenon
      <4> HIDE DEF lk, op
      <4>7. fd' = [open |-> op, in |-> 0, aux |-> 0, pfd |-> g.pfd, leaked |-> lk]
        BY <4>3, <4>5, Zenon
      <4>8. /\ fd' = [open |-> fd'.open, in |-> fd'.in, aux |-> fd'.aux, pfd |-> fd'.pfd, leaked |-> fd'.leaked]
            /\ fd'.leaked = lk
        BY <4>7, Zenon
      <4> QED
        BY <4>1, <4>6, <4>8, ZenonT(60) DEF Descriptors
    <3> QED
      BY <2>3, <3>1, <3>2, Zenon DEF RequestFails
  <2>4. CASE Response
    <3>1. UNCHANGED <<fd, chan, opts>> /\ pc[client] = "response"
      BY <2>4, Zenon DEF Response, clientVars
    <3>2. \/ Goto(client, "exit") \/ Goto(client, "channel")
          \/ chan /\ Goto(client, resume)
      BY <2>4, Zenon DEF Response, Exit
    <3>3. chan => resume \in Handling(client)
      <4>1. chan => resume \in Resuming
        BY <1>1, <3>1, Zenon DEF ClientPlace, Dialling
      <4>2. \A l \in Resuming : l \in Handling(client)
        BY EndFacts, Zenon DEF Resuming, Handling, Sending, Receiving
      <4> QED
        BY <4>1, <4>2, Zenon
    <3>4. pc'[client] \in {"exit", "channel"} \cup Handling(client)
      BY <1>1, <3>2, <3>3, GotoFacts, Zenon
    <3> QED
      BY <3>1, <3>4, KeepsDescriptors, Zenon DEF Kept
  <2>5. CASE OpenChannelFails \/ GetCanceled \/ WriteSpins \/ ReadSignalled
    <3>1. UNCHANGED <<fd, chan, opts>> /\ (Goto(client, "exit") \/ Goto(client, "spin"))
      BY <2>5, Zenon DEF OpenChannelFails, GetCanceled, WriteSpins, ReadSignalled, Exit, clientVars
    <3> QED
      BY <1>2, <3>1, KeepsDescriptors, Zenon
  <2>6. CASE Handle(client)
    BY <1>1, <2>6, HandlerKeeps, KeepsDescriptors, Zenon
  <2> QED
    BY <1>4, <2>1, <2>2, <2>3, <2>4, <2>5, <2>6, OpensDescriptors, OpenChannelDescriptors, ZenonT(60) DEF Client
<1>5. CASE Publish \/ Datagram \/ Term \/ UNCHANGED vars
  <2>1. UNCHANGED <<fd, chan, opts, pc>>
    BY <1>5, Zenon DEF Publish, Datagram, Term, clientVars, procVars, vars
  <2> QED
    BY <1>3, <2>1, KeepsDescriptors, Zenon
<1>6. ASSUME NEW k \in Conns, Server(k) \/ ServerDies(k) \/ Break(k)
      PROVE  Descriptors'
  <2>1. k \in Ends /\ k # client
    BY EndFacts, Zenon
  <2>2. CASE Handle(k)
    BY <2>1, <2>2, HandlerKeeps, KeepsDescriptors, Zenon
  <2>3. CASE Serve(k) \/ ServeNothing(k) \/ ServerDies(k)
    <3>1. UNCHANGED <<fd, chan, opts>> /\ (Goto(k, "exit") \/ Goto(k, Handler(k)))
      BY <2>3, Zenon DEF Serve, achd_error_header, ServeNothing, ServerDies, Exit, clientVars
    <3>2. pc'[client] = pc[client]
      BY <1>1, <2>1, <3>1, GotoFacts, Zenon
    <3> QED
      BY <1>3, <3>1, <3>2, KeepsDescriptors, Zenon
  <2>4. CASE Break(k)
    <3>1. UNCHANGED <<fd, chan, opts, pc>>
      BY <2>4, Zenon DEF Break, clientVars, procVars
    <3> QED
      BY <1>3, <3>1, KeepsDescriptors, Zenon
  <2> QED
    BY <1>6, <2>2, <2>3, <2>4, Zenon DEF Server
<1>7. ASSUME NEW e \in Ends, GetFrame(e)
      PROVE  Descriptors'
  BY <1>1, <1>7, HandlerKeeps, KeepsDescriptors, Zenon
<1> QED
  BY <1>4, <1>5, <1>6, <1>7, ZenonT(60) DEF Next

\* A client that is connected over UDP polls the socket it receives on, however often
\* it reconnected, unless a socket was left open when the headers could not be sent:
\* achd_reconnect() closes both sockets, the channel keeps its number, and the kernel
\* gives the lowest free ones.
THEOREM PollsTheSocket == Spec => []PollsOwnSocket
<1>1. Init => Descriptors
  <2> SUFFICES ASSUME Init
               PROVE  Descriptors
    BY Zenon
  <2>1. fd = NoDescriptors /\ chan = FALSE /\ pc = [e \in Ends |-> IF e = client THEN "connect" ELSE "none"]
    BY Zenon DEF Init, InitClient
  <2>2. /\ fd = [open |-> fd.open, in |-> fd.in, aux |-> fd.aux, pfd |-> fd.pfd, leaked |-> fd.leaked]
        /\ fd.open = {} /\ fd.in = 0 /\ fd.aux = 0
    BY <2>1, Zenon DEF NoDescriptors
  <2>3. pc[client] = "connect" /\ "connect" \notin Handling(client)
    BY <2>1, EndFacts, Zenon DEF Handling, Sending, Receiving
  <2> QED
    BY <2>1, <2>2, <2>3, Zenon DEF Descriptors, Has
<1>2. IInv /\ Descriptors /\ [Next]_vars => Descriptors'
  BY NextDescriptors, Zenon
<1>3. IInv /\ Descriptors => PollsOwnSocket
  <2> SUFFICES ASSUME IInv, Descriptors, opts.udp, chan, pc[client] \in {"poll", "send", "recv"}, ~ fd.leaked
               PROVE  fd.pfd = fd.aux
    BY Zenon DEF PollsOwnSocket
  <2>1. client \in Ends
    BY EndFacts, Zenon
  <2>2. pc[client] \in Handling(client)
    BY <2>1, HandlerFacts, Zenon
  <2>3. fd.pfd = 2 /\ fd.aux = 2
    BY <2>2, Zenon DEF Descriptors, Has
  <2> QED
    BY <2>3, Zenon
<1> QED
  BY <1>1, <1>2, <1>3, Invariant, PTL DEF Spec

-----------------------------------------------------------------------------
\* The source channel as the publish/subscribe channel that Ach promises: one that
\* keeps Depth frames, whatever their sizes.
Source == INSTANCE AchPubSub WITH
  MaxFrames <- Depth, MaxBytes <- Depth, Handles <- Ends, Lengths <- {1}, Sizes <- Nat,
  start <- [i \in 1 .. published + 1 |-> i - 1], answer <- [call |-> "none"]

\* What get_frame() asks of ach_get().
GetOptions == [last |-> opts.last, copy |-> FALSE]

\* A pushing end finds a frame to send exactly if that channel has one for it, and the
\* frame is the one that the channel gives.
GetsAsPromised ==
  \A e \in Ends :
    /\ cursor[e] < published <=> ~ Source!Nothing(e, GetOptions)
    /\ cursor[e] < published => Source!Wanted(e, GetOptions, NextFrame(cursor[e]))

\* What Achd assumes of the channel it sends from is what AchPubSub promises, and so
\* what the ring does.
THEOREM SourceIsTheChannel == Spec => []GetsAsPromised
<1>1. IInv => GetsAsPromised
  <2> SUFFICES ASSUME IInv, NEW e \in Ends
               PROVE  /\ cursor[e] < published <=> ~ Source!Nothing(e, GetOptions)
                      /\ cursor[e] < published => Source!Wanted(e, GetOptions, NextFrame(cursor[e]))
    BY Zenon DEF GetsAsPromised
  <2> DEFINE first == [i \in 1 .. published + 1 |-> i - 1]
             p == NextFrame(cursor[e])
  <2>1. published \in Nat /\ cursor[e] \in Nat /\ cursor[e] <= published /\ Depth \in Nat \ {0}
    BY BoundAssumption, Zenon DEF IInv, TypeOK
  <2>2. Source!newest = published
    BY <2>1 DEF Source!newest
  <2>3. ASSUME NEW s \in 1 .. published
        PROVE  Source!Retained(s) <=> s > published - Depth
    <3>1. first[published + 1] - first[s] = published + 1 - s
      BY <2>1
    <3> QED
      BY <2>1, <2>2, <3>1 DEF Source!Retained
  <2>4. cursor[e] < published <=> ~ Source!Nothing(e, GetOptions)
    <3>1. Source!Nothing(e, GetOptions) <=> published = 0 \/ cursor[e] = published
      BY <2>2, Zenon DEF Source!Nothing, GetOptions
    <3> QED
      BY <2>1, <3>1
  <2>5. ASSUME cursor[e] < published
        PROVE  Source!Wanted(e, GetOptions, p)
    <3>1. CASE opts.last
      BY <2>2, <3>1, Zenon DEF Source!Wanted, GetOptions, NextFrame
    <3>2. CASE ~ opts.last
      <4>1. p = IF cursor[e] + 1 > published - Depth THEN cursor[e] + 1 ELSE published - Depth + 1
        BY <3>2, Zenon DEF NextFrame
      <4> HIDE DEF p
      <4>2. /\ p \in 1 .. published /\ p > cursor[e] /\ p > published - Depth
            /\ p > cursor[e] + 1 => p - 1 \in 1 .. published /\ ~ (p - 1 > published - Depth)
            /\ cursor[e] # published
        BY <2>1, <2>5, <4>1
      <4>3. Source!Retained(p) /\ (p > cursor[e] + 1 => ~ Source!Retained(p - 1))
        BY <2>3, <4>2, Zenon
      <4> QED
        BY <2>2, <3>2, <4>2, <4>3, Zenon DEF Source!Wanted, GetOptions
    <3> QED
      BY <3>1, <3>2, Zenon
  <2> QED
    BY <2>4, <2>5, Zenon
<1> QED
  BY <1>1, Invariant, PTL

=============================================================================
