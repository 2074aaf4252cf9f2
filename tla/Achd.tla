-------------------------------- MODULE Achd --------------------------------
(***************************************************************************)
(* achd, which forwards one channel to another host: a client (achd_client)*)
(* that pushes its channel or pulls the remote one, and the servers        *)
(* (achd_serve) that inetd starts, one for each connection.                *)
(*                                                                         *)
(* A frame is its sequence number in the channel it is taken from.  Over   *)
(* TCP it travels as two units, the 16 byte header and the data, which can *)
(* be torn apart by the loss of the connection; over UDP as one datagram,  *)
(* with the TCP connection kept to notice the end of the peer.  Both ends  *)
(* run the same handlers (transport.c), each named by an element of Ends;  *)
(* only the client reconnects and only the client gets signals.            *)
(*                                                                         *)
(* "spin" is the loop that achd_write() may be left in by a signal.        *)
(***************************************************************************)
EXTENDS Integers, Sequences, FiniteSets

CONSTANTS
  Options,    \* the client's command lines (-t, push or pull, -r, and -u, whose case goes
              \* on into that of -l), each with the sizes of the frames that will be
              \* published: see Sizes
  MaxConns,   \* bound on the connections made
  Depth,      \* frames the source channel keeps
  WireCap,    \* units in flight on a connection; datagrams in flight, more are dropped
  MayTerm     \* whether the client gets SIGTERM

Conns == 1 .. MaxConns
client == 0  \* the client as an element of Ends; server k serves connection k
Ends == {client} \cup Conns

\* Whether a frame fits in data_size / index_cnt bytes, is longer, is longer than
\* a datagram but not than MTU_UDP, or is longer than that too.
Sizes == {"small", "large", "edge", "huge"}

ASSUME BoundAssumption == {MaxConns, Depth, WireCap} \subseteq Nat \ {0}
ASSUME OptionsAssumption ==
  Options \subseteq [udp : BOOLEAN, push : BOOLEAN, reconnect : BOOLEAN, last : BOOLEAN,
                     frames : Seq(Sizes)]

VARIABLES
  opts,      \* the client's options
  published, \* sequence number of the newest frame of the source channel
  dest,      \* what was put in the destination channel: frame, connection, cut
  sent,      \* frames whose write completed, for each connection
  nconn,     \* number of connections made
  sock,      \* the client's connection, 0 if none
  link,      \* the connections: see NoLink
  net,       \* datagrams in flight: frame and connection
  pc,        \* where each process is
  buf,       \* its pipeframe: which frame its header and its data are of
  cap,       \* whether the pipeframe was enlarged
  cursor,    \* the newest frame its handle has seen
  sig,       \* cx.sig_received of the client
  deaf,      \* the signal came just before the client entered a blocking call, or
             \* did not reach it in ach_get()
  chan,      \* whether the client has opened its channel
  resume,    \* where the client goes on after server_connect()
  fd         \* the client's descriptors: see NoDescriptors

clientVars == <<nconn, sock, sig, deaf, chan, resume, fd>>
procVars == <<pc, buf, cap, cursor>>
netVars == <<link, net>>
vars == <<opts, published, dest, sent, clientVars, procVars, netVars>>

\* A connection: the request and the response not yet read (resp is "none", "ok" or
\* "error"), the frame units not yet read, the ends that closed it, and whether the
\* network lost it.
NoLink == [req |-> FALSE, resp |-> "none", data |-> <<>>, shut |-> {}, lost |-> FALSE]

\* Descriptors: open, the numbers in use; in and aux, the TCP and the UDP socket of
\* struct achd_conn; pfd, what the handler polls for datagrams; leaked, whether a UDP
\* socket was left open.
NoDescriptors == [open |-> {}, in |-> 0, aux |-> 0, pfd |-> 0, leaked |-> FALSE]

\* The kernel gives out the lowest free descriptor.
Lowest(open) == CHOOSE n \in {1} \cup {m + 1 : m \in open} :
                  n \notin open /\ \A m \in 1 .. n - 1 : m \in open

Frames == 1 .. Len(opts.frames)
Large == {n \in Frames : opts.frames[n] # "small"}

-----------------------------------------------------------------------------
Sig(e) == e = client /\ sig
Side(e) == IF e = client THEN "client" ELSE "server"
K(e) == IF e = client THEN sock ELSE e

\* What achd_set_header() makes of the request: the same transport, and the other
\* direction, since the remote end does the opposite.
recv_hdr(e) == [udp |-> opts.udp, push |-> IF e = client THEN opts.push ELSE ~ opts.push]
Pushes(e) == recv_hdr(e).push

\* The other end has closed, or the network lost the connection.
Gone(e) == link[K(e)].lost \/ link[K(e)].shut \ {Side(e)} # {}

\* The mistake of giving a puller the handler of the other transport.
Handler_mixed(e) == IF Pushes(e) THEN "get" ELSE IF opts.udp THEN "read" ELSE "poll"

\* The first step of the handler that achd_get_vtab() selects.
Handler(e) == IF Pushes(e) THEN "get" ELSE IF recv_hdr(e).udp THEN "poll" ELSE "read"

\* achd_printf(): headers written to connection k arrive unless it is lost.
Printed(k) == ~ link[k].lost

\* achd_parse_headers(): the headers up to the final dot are there for the client
\* or for the server of connection k; or the connection ends before.
HeadersIn(k, e) == IF e = client THEN link[k].resp # "none" ELSE link[k].req
HeadersCut(k, e) == ~ HeadersIn(k, e) /\ Gone(e)

\* udp_peer(): where datagrams go to, and the only place they are taken from: the
\* port the other end of the connection named.
udp_peer(e) == K(e)

Goto(e, l) == pc' = [pc EXCEPT ![e] = l]
SetLink(k, l) == link' = [link EXCEPT ![k] = l]
Shut(e) == [link[K(e)] EXCEPT !.shut = @ \cup {Side(e)}]

\* The process ends; the kernel closes its sockets.
Exit(e) ==
  /\ Goto(e, "exit")
  /\ IF K(e) = 0 THEN UNCHANGED link ELSE SetLink(K(e), Shut(e))

\* The mistake of not closing the UDP socket.
Fail_leaky(e, l) ==
  IF e = client /\ opts.reconnect /\ ~ sig
  THEN /\ Goto(e, "sleep") /\ resume' = l
       /\ SetLink(sock, Shut(e)) /\ sock' = 0
       /\ fd' = [fd EXCEPT !.open = @ \ {fd.in}, !.in = 0, !.aux = 0]
  ELSE Exit(e) /\ UNCHANGED <<resume, sock, fd>>

\* achd_reconnect() closes the sockets; its loop starts at "sleep".  An end that
\* does not reconnect returns from its handler.
Fail(e, l) ==
  IF e = client /\ opts.reconnect /\ ~ sig
  THEN /\ Goto(e, "sleep") /\ resume' = l
       /\ SetLink(sock, Shut(e)) /\ sock' = 0
       /\ fd' = [fd EXCEPT !.open = @ \ {fd.in, fd.aux}, !.in = 0, !.aux = 0]
  ELSE Exit(e) /\ UNCHANGED <<resume, sock, fd>>

-----------------------------------------------------------------------------
(***************************************************************************)
(* Connecting: server_connect() and achd_reconnect().                      *)
(***************************************************************************)
\* achd_client() gives up when its first connection fails; achd_reconnect()
\* tries again.  A signalled client without a connection has nothing left to do
\* but to return.
ConnectFailed == IF chan /\ ~ sig THEN Goto(client, "sleep") ELSE Goto(client, "exit")

\* achd_sleep_till() in the loop of achd_reconnect().  A signal cuts the sleep
\* short, and the connection is tried all the same.
Sleep ==
  /\ pc[client] = "sleep"
  /\ Goto(client, "connect")
  /\ UNCHANGED <<opts, published, dest, sent, clientVars, buf, cap, cursor, netVars>>

\* socket_connect(): inetd starts a server.
Connect ==
  /\ pc[client] = "connect" /\ nconn < MaxConns
  /\ nconn' = nconn + 1 /\ sock' = nconn + 1
  /\ LET n == Lowest(fd.open)
     IN fd' = [fd EXCEPT !.open = @ \cup {n}, !.in = n]
  /\ pc' = [pc EXCEPT ![client] = "request", ![nconn + 1] = "headers"]
  /\ UNCHANGED <<opts, published, dest, sent, sig, deaf, chan, resume, buf, cap, cursor, netVars>>

\* The host is not found or does not answer.
ConnectRefused ==
  /\ pc[client] = "connect"
  /\ ConnectFailed
  /\ UNCHANGED <<opts, published, dest, sent, clientVars, buf, cap, cursor, netVars>>

\* achd_udp_sock() makes the UDP socket.
achd_udp_sock ==
  LET n == Lowest(fd.open)
  IN IF opts.udp THEN [fd EXCEPT !.open = @ \cup {n}, !.aux = n] ELSE fd

\* The port of that socket and the other headers are sent.
Request ==
  /\ pc[client] = "request" /\ ~ sig
  /\ fd' = achd_udp_sock
  /\ link' = [link EXCEPT ![sock].req = Printed(sock)]
  /\ Goto(client, "response")
  /\ UNCHANGED <<opts, published, dest, sent, nconn, sock, sig, deaf, chan, resume,
                 buf, cap, cursor, net>>

\* The connection is gone before the headers are out.  If it is noticed when the
\* port is written the client exits; if later, the TCP socket alone is closed.
RequestFails ==
  /\ pc[client] = "request" /\ ~ sig /\ Gone(client)
  /\ \/ opts.udp /\ Exit(client) /\ UNCHANGED <<sock, fd>>
     \/ /\ ConnectFailed
        /\ SetLink(sock, Shut(client)) /\ sock' = 0
        /\ fd' = [achd_udp_sock EXCEPT !.open = @ \ {fd.in}, !.in = 0, !.aux = 0,
                                       !.leaked = @ \/ opts.udp]
  /\ UNCHANGED <<opts, published, dest, sent, nconn, sig, deaf, chan, resume,
                 buf, cap, cursor, net>>

\* The mistake of taking a new handle on the channel for each connection.
Response_reopen ==
  /\ pc[client] = "response"
  /\ HeadersIn(sock, client) \/ HeadersCut(sock, client) \/ (sig /\ ~ deaf)
  /\ IF link[sock].resp = "ok" /\ ~ sig
     THEN /\ link' = [link EXCEPT ![sock].resp = "none"]
          /\ Goto(client, IF chan THEN Handler(client) ELSE "channel")
          /\ cursor' = [cursor EXCEPT ![client] = 0]
     ELSE Exit(client) /\ UNCHANGED cursor
  /\ UNCHANGED <<opts, published, dest, sent, clientVars, buf, cap, net>>

\* The server's status.  Anything but ACH_OK ends the client, -r or not.
Response ==
  /\ pc[client] = "response"
  /\ HeadersIn(sock, client) \/ HeadersCut(sock, client) \/ (sig /\ ~ deaf)
  /\ IF link[sock].resp = "ok" /\ ~ sig
     THEN /\ link' = [link EXCEPT ![sock].resp = "none"]
          /\ Goto(client, IF chan THEN resume ELSE "channel")
     ELSE Exit(client)
  /\ UNCHANGED <<opts, published, dest, sent, clientVars, buf, cap, cursor, net>>

\* The channel is opened, or made if there is none, and flushed; then the
\* handler starts and notes the descriptors it polls.
OpenChannel ==
  /\ pc[client] = "channel"
  /\ chan' = TRUE
  /\ cursor' = [cursor EXCEPT ![client] = IF opts.push THEN published ELSE 0]
  /\ LET n == Lowest(fd.open)
     IN fd' = [fd EXCEPT !.open = @ \cup {n}, !.pfd = fd.aux]
  /\ IF sig THEN Exit(client) ELSE Goto(client, Handler(client)) /\ UNCHANGED link
  /\ UNCHANGED <<opts, published, dest, sent, nconn, sock, sig, deaf, resume, buf, cap, net>>

\* The channel cannot be opened, or somebody else made it in the meantime.
OpenChannelFails ==
  /\ pc[client] = "channel"
  /\ Exit(client)
  /\ UNCHANGED <<opts, published, dest, sent, clientVars, buf, cap, cursor, net>>

-----------------------------------------------------------------------------
(***************************************************************************)
(* The server: achd_serve().                                               *)
(***************************************************************************)
\* The mistake of not flushing the channel: the server starts with old frames.
Serve_old(k) ==
  /\ pc[k] = "headers" /\ HeadersIn(k, k)
  /\ link' = [link EXCEPT ![k].req = FALSE, ![k].resp = IF Printed(k) THEN "ok" ELSE "none"]
  /\ Goto(k, Handler(k))
  /\ UNCHANGED <<opts, published, dest, sent, clientVars, buf, cap, cursor, net>>

\* The reason why a request is not served, as the reply.
achd_error_header(k) ==
  /\ Goto(k, "exit")
  /\ link' = [link EXCEPT ![k].req = FALSE, ![k].resp = IF Printed(k) THEN "error" ELSE "none",
                          ![k].shut = @ \cup {"server"}]

\* The headers are checked, the channel is opened and flushed, and the reply is
\* sent; or the channel cannot be opened.
Serve(k) ==
  /\ pc[k] = "headers" /\ HeadersIn(k, k)
  /\ \/ /\ link' = [link EXCEPT ![k].req = FALSE, ![k].resp = IF Printed(k) THEN "ok" ELSE "none"]
        /\ cursor' = [cursor EXCEPT ![k] = IF opts.push THEN 0 ELSE published]
        /\ Goto(k, Handler(k))
     \/ achd_error_header(k) /\ UNCHANGED cursor
  /\ UNCHANGED <<opts, published, dest, sent, clientVars, buf, cap, net>>

\* The connection ends before the headers do.
ServeNothing(k) ==
  /\ pc[k] = "headers" /\ HeadersCut(k, k)
  /\ Exit(k)
  /\ UNCHANGED <<opts, published, dest, sent, clientVars, buf, cap, cursor, net>>

\* The server is killed.
ServerDies(k) ==
  /\ pc[k] \notin {"none", "exit"}
  /\ Exit(k)
  /\ UNCHANGED <<opts, published, dest, sent, clientVars, buf, cap, cursor, net>>

-----------------------------------------------------------------------------
(***************************************************************************)
(* The pushing handlers: achd_push_tcp() and achd_push_udp().              *)
(***************************************************************************)
\* The frame ach_get() returns to a handle that has seen frames up to c.
NextFrame(c) ==
  IF opts.last THEN published
  ELSE IF c + 1 > published - Depth THEN c + 1 ELSE published - Depth + 1

\* get_frame(): a frame too large for the buffer is left in the channel until the
\* buffer is enlarged.  One too long for UDP is dropped.
GetFrame(e) ==
  /\ pc[e] = "get" /\ ~ Sig(e) /\ cursor[e] < published
  /\ LET n == NextFrame(cursor[e])
     IN IF n \in Large /\ ~ cap[e]
        THEN cap' = [cap EXCEPT ![e] = TRUE] /\ UNCHANGED <<pc, buf, cursor>>
        ELSE /\ cursor' = [cursor EXCEPT ![e] = n]
             /\ buf' = [buf EXCEPT ![e] = <<n, n>>]
             /\ Goto(e, IF ~ opts.udp THEN "write hdr"
                        ELSE IF opts.frames[n] = "huge" THEN "get" ELSE "poll")
             /\ UNCHANGED cap
  /\ UNCHANGED <<opts, published, dest, sent, clientVars, netVars>>

\* The mistake of a signal handler that does not cancel the get in progress.
GetCanceled_never == FALSE

\* The signal handler's ach_cancel() gets the client out of ach_get(); if it did
\* not reach the client there, the broadcast of the next put does.
GetCanceled ==
  /\ pc[client] = "get" /\ sig
  /\ ~ deaf \/ cursor[client] < published
  /\ Exit(client)
  /\ UNCHANGED <<opts, published, dest, sent, clientVars, buf, cap, cursor, net>>

\* achd_write() has put one more unit on the connection.  What is written after
\* the other end is gone may be accepted all the same.
Written(e) ==
  /\ pc[e] \in {"write hdr", "write data"} /\ ~ Sig(e)
  /\ LET k == K(e)
         u == IF pc[e] = "write hdr" THEN <<"hdr", buf[e][1]>> ELSE <<"data", buf[e][2]>>
     IN /\ IF Gone(e) THEN UNCHANGED link
           ELSE Len(link[k].data) < WireCap /\ link' = [link EXCEPT ![k].data = Append(@, u)]
        /\ IF pc[e] = "write hdr"
           THEN Goto(e, "write data") /\ UNCHANGED sent
           ELSE Goto(e, "get") /\ sent' = [sent EXCEPT ![k] = Append(@, buf[e][2])]
  /\ UNCHANGED <<opts, published, dest, clientVars, buf, cap, cursor, net>>

\* achd_write() fails; the whole frame is sent again on the next connection.
WriteFails(e) ==
  /\ pc[e] \in {"write hdr", "write data"} /\ ~ Sig(e) /\ Gone(e)
  /\ Fail(e, "write hdr")
  /\ UNCHANGED <<opts, published, dest, sent, nconn, sig, deaf, chan, buf, cap, cursor, net>>

\* A signal ends the loop of achd_write() early, and the empty loop that follows
\* never ends, unless the compiler took it that it must.
WriteSpins ==
  /\ pc[client] \in {"request", "write hdr", "write data"} /\ sig
  /\ \/ Goto(client, "spin") /\ UNCHANGED link
     \/ Exit(client)
  /\ UNCHANGED <<opts, published, dest, sent, clientVars, buf, cap, cursor, net>>

\* udp_poll() by a sender: a UDP socket can always be written, so that after
\* achd_reconnect() the frame is sent without another poll.
PollSend(e) ==
  /\ pc[e] = "poll" /\ Pushes(e)
  /\ IF Sig(e) THEN Exit(e) /\ UNCHANGED <<resume, sock, fd>>
     ELSE IF Gone(e) THEN Fail(e, "send")
     ELSE Goto(e, "send") /\ UNCHANGED <<link, resume, sock, fd>>
  /\ UNCHANGED <<opts, published, dest, sent, nconn, sig, deaf, chan, buf, cap, cursor, net>>

\* sendto() the port the peer named when it connected; a frame that passed the
\* check of its size and is longer than a datagram all the same ends the process.
SendTo(e) ==
  /\ pc[e] = "send"
  /\ IF opts.frames[buf[e][2]] = "edge" THEN Exit(e) /\ UNCHANGED <<net, sent>>
     ELSE /\ net' = IF Cardinality(net) < WireCap THEN net \cup {<<buf[e][2], udp_peer(e)>>} ELSE net
          /\ sent' = [sent EXCEPT ![K(e)] = Append(@, buf[e][2])]
          /\ Goto(e, "get") /\ UNCHANGED link
  /\ UNCHANGED <<opts, published, dest, clientVars, buf, cap, cursor>>

-----------------------------------------------------------------------------
(***************************************************************************)
(* The pulling handlers: achd_pull_tcp() and achd_pull_udp().              *)
(***************************************************************************)
\* achd_read() of a header, then of the data it announces.  A signalled client
\* does nothing with what it reads.
Read(e) ==
  /\ pc[e] \in {"read", "read data"} /\ link[K(e)].data # <<>> /\ ~ Sig(e)
  /\ LET u == Head(link[K(e)].data)
         taken == [link[K(e)] EXCEPT !.data = Tail(@)]
     IN IF pc[e] = "read"
        THEN IF u[1] = "hdr"
             THEN /\ buf' = [buf EXCEPT ![e] = <<u[2], buf[e][2]>>]
                  /\ cap' = [cap EXCEPT ![e] = @ \/ u[2] \in Large]
                  /\ Goto(e, "read data")
                  /\ SetLink(K(e), taken) /\ UNCHANGED <<resume, sock, fd>>
             ELSE Fail(e, "read") /\ UNCHANGED <<buf, cap>>
        ELSE /\ buf' = [buf EXCEPT ![e] = <<buf[e][1], u[2]>>]
             /\ Goto(e, "put") /\ SetLink(K(e), taken) /\ UNCHANGED <<cap, resume, sock, fd>>
  /\ UNCHANGED <<opts, published, dest, sent, nconn, sig, deaf, chan, cursor, net>>

\* The mistake of going on with the data of a frame whose header was read before.
ReadFails_rest(e) ==
  /\ pc[e] \in {"read", "read data"} /\ link[K(e)].data = <<>> /\ Gone(e) /\ ~ Sig(e)
  /\ Fail(e, pc[e])
  /\ UNCHANGED <<opts, published, dest, sent, nconn, sig, deaf, chan, buf, cap, cursor, net>>

\* The mistake of reading on at the end of the stream.
ReadFails_again(e) ==
  /\ pc[e] \in {"read", "read data"} /\ link[K(e)].data = <<>> /\ Gone(e) /\ ~ Sig(e)
  /\ Goto(e, "read")
  /\ UNCHANGED <<opts, published, dest, sent, clientVars, buf, cap, cursor, netVars>>

\* The connection ends before the header or the data is complete.
ReadFails(e) ==
  /\ pc[e] \in {"read", "read data"} /\ link[K(e)].data = <<>> /\ Gone(e) /\ ~ Sig(e)
  /\ Fail(e, "read")
  /\ UNCHANGED <<opts, published, dest, sent, nconn, sig, deaf, chan, buf, cap, cursor, net>>

\* A signalled client leaves the blocking call, at once if it was interrupted
\* there and otherwise when something arrives, and returns.
ReadSignalled ==
  /\ pc[client] \in {"read", "read data", "recv"} /\ sig
  /\ \/ ~ deaf
     \/ pc[client] # "recv" /\ (link[sock].data # <<>> \/ Gone(client))
     \/ pc[client] = "recv" /\ \E m \in net : m[2] = sock
  /\ Exit(client)
  /\ UNCHANGED <<opts, published, dest, sent, clientVars, buf, cap, cursor, net>>

\* Datagrams that wait at the socket e polls.
Waiting(e) == {m \in net : m[2] = K(e) /\ (e = client => fd.pfd = fd.aux)}

\* udp_poll() by a receiver.  When the poll finds a datagram and the end of the
\* connection together, pfd[0].revents still says POLLIN after achd_reconnect().
PollRecv(e) ==
  /\ pc[e] = "poll" /\ ~ Pushes(e)
  /\ Waiting(e) # {} \/ Gone(e) \/ (Sig(e) /\ ~ deaf)
  /\ IF Sig(e) THEN Exit(e) /\ UNCHANGED <<resume, sock, fd>>
     ELSE IF Gone(e) THEN Fail(e, IF Waiting(e) # {} THEN "recv" ELSE "poll")
     ELSE Goto(e, "recv") /\ UNCHANGED <<link, resume, sock, fd>>
  /\ UNCHANGED <<opts, published, dest, sent, nconn, sig, deaf, chan, buf, cap, cursor, net>>

\* recvfrom(): a datagram of somebody else (frame 0) is dropped.
RecvFrom(e) ==
  /\ pc[e] = "recv" /\ ~ Sig(e)
  /\ \E m \in net :
       /\ m[2] = K(e)
       /\ net' = net \ {m}
       /\ IF m[1] = 0 THEN Goto(e, "poll") /\ UNCHANGED buf
          ELSE Goto(e, "put") /\ buf' = [buf EXCEPT ![e] = <<m[1], m[1]>>]
  /\ UNCHANGED <<opts, published, dest, sent, clientVars, cap, cursor, link>>

\* put_frame(): a datagram was cut to the size of the buffer.
PutFrame(e) ==
  /\ pc[e] = "put"
  /\ IF Sig(e) THEN Exit(e) /\ UNCHANGED dest
     ELSE /\ dest' = Append(dest, [hdr |-> buf[e][1], data |-> buf[e][2], conn |-> K(e),
                                   cut |-> buf[e][1] \in Large /\ ~ cap[e]])
          /\ Goto(e, Handler(e)) /\ UNCHANGED link
  /\ UNCHANGED <<opts, published, sent, clientVars, buf, cap, cursor, net>>

\* A channel that is too small for the frame, or corrupt, ends the process.
PutFails(e) ==
  /\ pc[e] = "put" /\ ~ Sig(e)
  /\ Exit(e)
  /\ UNCHANGED <<opts, published, dest, sent, clientVars, buf, cap, cursor, net>>

-----------------------------------------------------------------------------
(***************************************************************************)
(* Everybody else: the publisher, the network and SIGTERM.                 *)
(***************************************************************************)
Publish ==
  /\ published < Len(opts.frames)
  /\ published' = published + 1
  /\ UNCHANGED <<opts, dest, sent, clientVars, procVars, netVars>>

\* A connection is lost, with any part of what was not yet read.
Break(k) ==
  /\ k <= nconn /\ ~ link[k].lost /\ link[k].shut # {"client", "server"}
  /\ \E n \in 0 .. Len(link[k].data), q \in {FALSE, link[k].req}, r \in {"none", link[k].resp} :
       /\ r # link[k].resp => n = 0
       /\ SetLink(k, [link[k] EXCEPT !.lost = TRUE, !.data = SubSeq(@, 1, n), !.req = q, !.resp = r])
  /\ UNCHANGED <<opts, published, dest, sent, clientVars, procVars, net>>

\* A datagram is lost on its way, and one of a stranger (frame 0) arrives.
Lose == \E m \in net : net' = net \ {m} /\ (\A e \in Ends : pc[e] = "recv" => K(e) # m[2])
Stray == fd.aux # 0 /\ Cardinality(net) < WireCap /\ net' = net \cup {<<0, sock>>}
Datagram ==
  /\ Lose \/ Stray
  /\ UNCHANGED <<opts, published, dest, sent, clientVars, procVars, link>>

\* Where the client may not notice a signal: before a call that blocks, and while
\* it waits for a frame, if ach_cancel() cannot fork or its child finds the channel
\* corrupt.
Blocked ==
  \/ pc[client] \in {"response", "read", "read data", "poll", "recv"}
  \/ pc[client] = "get" /\ cursor[client] = published

\* SIGTERM or SIGINT: sighandler() sets cx.sig_received and cancels the handle.
Term ==
  /\ MayTerm /\ ~ sig /\ pc[client] \notin {"exit", "spin"}
  /\ sig' = TRUE
  /\ deaf' \in (IF Blocked THEN BOOLEAN ELSE {FALSE})
  /\ UNCHANGED <<opts, published, dest, sent, nconn, sock, chan, resume, fd, procVars, netVars>>

-----------------------------------------------------------------------------
\* main(): what the command line says.
InitOptions == opts \in Options

\* achd_client() up to its first connection.
InitClient ==
  /\ pc = [e \in Ends |-> IF e = client THEN "connect" ELSE "none"]
  /\ nconn = 0 /\ sock = 0
  /\ sig = FALSE /\ deaf = FALSE /\ chan = FALSE /\ resume = "connect"
  /\ fd = NoDescriptors

Init ==
  /\ InitOptions /\ InitClient
  /\ published = 0 /\ dest = <<>>
  /\ sent = [k \in Conns |-> <<>>]
  /\ link = [k \in Conns |-> NoLink] /\ net = {}
  /\ buf = [e \in Ends |-> <<0, 0>>]
  /\ cap = [e \in Ends |-> FALSE]
  /\ cursor = [e \in Ends |-> 0]

\* The handlers, which both ends run, but for the wait for a frame.
Handle(e) ==
  \/ Written(e) \/ WriteFails(e) \/ PollSend(e) \/ SendTo(e)
  \/ Read(e) \/ ReadFails(e) \/ PollRecv(e) \/ RecvFrom(e) \/ PutFrame(e) \/ PutFails(e)

Client ==
  \/ Sleep \/ Connect \/ ConnectRefused \/ Request \/ RequestFails \/ Response
  \/ OpenChannel \/ OpenChannelFails \/ GetCanceled \/ WriteSpins \/ ReadSignalled
  \/ Handle(client)

Server(k) == Serve(k) \/ ServeNothing(k) \/ Handle(k)

Next ==
  \/ Client \/ Publish \/ Datagram \/ Term
  \/ \E e \in Ends : GetFrame(e)
  \/ \E k \in Conns : Server(k) \/ ServerDies(k) \/ Break(k)

Spec == Init /\ [][Next]_vars

\* The kernel runs every process that can go on; nothing is assumed of the
\* network, the publisher or whoever sends signals; nor of GetFrame, since get_frame()
\* calls ach_get() again for as long as that fails.
FairSpec == Spec /\ WF_vars(Client) /\ \A k \in Conns : WF_vars(Server(k))

-----------------------------------------------------------------------------
\* The frames put in the destination that came over connection k.
Delivered(k) == SelectSeq(dest, LAMBDA d : d.conn = k)
\* Every frame in the destination is one frame of the source, header and data of
\* the same frame, and whole unless it was a datagram longer than the buffer.
WholeFrames ==
  \A i \in 1 .. Len(dest) :
    /\ dest[i].hdr = dest[i].data
    /\ dest[i].cut => opts.udp /\ dest[i].hdr \in Large

\* Over TCP no frame is delivered twice, however often the client reconnects: a
\* frame is sent again only if its write did not complete, and then the other
\* end cannot have all of it.
DeliveredOnce ==
  ~ opts.udp => \A i, j \in 1 .. Len(dest) : i # j => dest[i].data # dest[j].data

\* A pulling client puts the frames in the order of the source across all its
\* TCP connections.
PullInOrder ==
  ~ opts.udp /\ ~ opts.push =>
    \A i, j \in 1 .. Len(dest) : i < j => dest[i].data < dest[j].data

\* A connected client polls the UDP socket it receives on, although the numbers
\* in pfd are those of its first connection: achd_reconnect() closes both sockets
\* and the kernel gives the same numbers again.  The exception is a socket that
\* was left open when the headers could not be sent.
PollsOwnSocket ==
  opts.udp /\ chan /\ pc[client] \in {"poll", "send", "recv"} => fd.pfd = fd.aux \/ fd.leaked

\* A signalled client ends, except where a blocking call missed the signal,
\* ach_cancel() failed while it waited in ach_get(), or achd_write() was left spinning.
TermEnds == sig ~> (pc[client] \in {"exit", "spin"} \/ deaf)

\* What was written to a connection is all put in the end, unless the connection
\* is lost or one of its ends is gone.
WrittenArrives ==
  \A k \in Conns :
    (~ opts.udp /\ sent[k] # <<>>) ~>
      (link[k].lost \/ link[k].shut # {} \/ sig \/ Len(Delivered(k)) = Len(sent[k]))

\* A pulling client leaves a TCP connection that was lost.
PullLeavesLost ==
  \A k \in Conns :
    (~ opts.udp /\ ~ opts.push /\ sock = k /\ link[k].lost) ~>
      (sock # k \/ pc[client] \in {"exit", "spin"} \/ deaf)

\* A pulling client with -r leaves a connection that was lost, over UDP too.
PullLeavesLostUDP ==
  \A k \in Conns :
    (opts.udp /\ ~ opts.push /\ sock = k /\ link[k].lost) ~> (sock # k \/ pc[client] = "exit")
=============================================================================
