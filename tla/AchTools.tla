------------------------------ MODULE AchTools ------------------------------
(***************************************************************************)
(* The programs that copy frames between channels and files or pipes:      *)
(* achlog (a thread for each channel), achpipe (publish or subscribe, the  *)
(* latter on command with -c) and achcat (both ways at once).              *)
(*                                                                         *)
(* A channel is the sequence of the frames published in it, of which the   *)
(* last Depth can be read; other programs publish too.  A frame is a name  *)
(* that stands for its bytes, and Size gives their number.  A stream is a  *)
(* sequence of units: the 16 byte header, which carries the size, and the  *)
(* data.                                                                   *)
(***************************************************************************)
EXTENDS Integers, Sequences, FiniteSetsExt

CONSTANTS
  Channels,   \* the channels, and the achlog thread of each
  Main,       \* the main thread
  Chan0,      \* the channel achpipe and achcat are given
  Tools,      \* the command lines: see Tool
  Inputs,     \* what standard input may hold, for each tool
  Size,       \* the size of each frame; frame 0 is the empty one
  InitSize,   \* size of the first buffer
  Depth,      \* frames a channel keeps
  Others,     \* the frames other programs put, for each tool
  MaxPub,     \* bound on the frames put in all channels, for each tool
  Base        \* number of values of a byte

Threads == Channels \cup {Main}
Frames == DOMAIN Size
Tool == {"achlog", "publish", "subscribe", "sync", "achcat -p", "achcat -s", "achcat"}

ASSUME ToolAssumption == Tools \subseteq Tool /\ Chan0 \in Channels /\ Main \notin Channels
ASSUME SizeAssumption == 0 \in Frames /\ Size \in [Frames -> Nat] /\ Size[0] = 0
ASSUME BoundAssumption ==
  /\ Depth \in Nat \ {0} /\ MaxPub \in [Tool -> Nat] /\ InitSize \in Nat
  /\ Base \in Nat \ {0, 1} /\ Others \in [Tool -> SUBSET (Frames \ {0})]

\* A header with its size bytes, data or a line of text, a command, anything else.
DataUnit == [kind : {"data"}, frame : Frames]
Unit ==
  [kind : {"header"}, size : [1 .. 8 -> 0 .. Base - 1]] \cup DataUnit
    \cup [kind : {"next", "last", "poll", "junk"}]

ASSUME InputAssumption ==
  \A t \in Tools : Inputs[t] \subseteq
    Seq(IF t \in {"achcat", "achcat -p", "achcat -s"} THEN DataUnit ELSE Unit)

VARIABLES
  tool,      \* the program
  chan,      \* the frames published in each channel
  corrupt,   \* channels a writer died in
  cancel,    \* ach_cancel() of each channel: not called, done or failed
  input,     \* the units of standard input
  rd,        \* how many of them were read
  out,       \* what was written: header bytes, data and their length
  pc,        \* where each thread is
  cursor,    \* the newest frame each handle has seen
  max,       \* the room in each buffer
  buf,       \* what is in it: size bytes, frame, position of the frame
  cmd,       \* the way to get frames: given by the options, or read with -c
  t0,        \* whether nothing was written yet
  put,       \* the frames this program put
  cnt,       \* the size that the last header announces to achpipe -p
  sig,       \* whether a signal was received
  deaf       \* whether that was before fread() began to wait

vars == <<tool, chan, corrupt, cancel, input, rd, out, pc, cursor, max,
          buf, cmd, t0, put, cnt, sig, deaf>>
signal == <<sig, deaf>>
world == <<tool, chan, corrupt, cancel, input, cnt, signal>>

-----------------------------------------------------------------------------
(***************************************************************************)
(* Frames in streams: pipe.c.                                              *)
(***************************************************************************)
SizeBytes == 8

\* What each byte of a size counts: the powers of Base.
Weight ==
  LET two == Base * Base
      four == two * two
  IN <<1, Base, two, two * Base, four, four * Base, four * two, four * two * Base>>

\* The size as bytes, the least significant first.
ach_pipe_set_size(size) == [i \in 1 .. SizeBytes |-> (size \div Weight[i]) % Base]

\* What can be found of byte i of the lower four.  Each byte is shifted as an
\* unsigned of four bytes, which for the upper four is undefined: machines shift by
\* the rest of dividing by 32, so that such a byte adds bits to the one four below,
\* or it is lost.
LowByte(b, i) == {b[i]} \cup {d \in 0 .. Base - 1 : d > b[i] /\ b[i + 4] # 0}

\* The sizes that can be made of the bytes.
ach_pipe_get_size(b) ==
  {d1 + d2 * Weight[2] + d3 * Weight[3] + d4 * Weight[4] :
     d1 \in LowByte(b, 1), d2 \in LowByte(b, 2), d3 \in LowByte(b, 3), d4 \in LowByte(b, 4)}

\* In a stream of frames the data are those that the header in front announces.
ASSUME StreamAssumption ==
  \A t \in Tools : \A s \in Inputs[t] : \A i \in 2 .. Len(s) :
    s[i - 1].kind = "header" /\ s[i].kind = "data" =>
      s[i - 1].size = ach_pipe_set_size(Size[s[i].frame])

\* A new buffer: its size field is the room it has.
ach_pipe_alloc(n) == [size |-> ach_pipe_set_size(n), frame |-> 0, pos |-> 0]

-----------------------------------------------------------------------------
On(t) == IF t = Main THEN Chan0 ELSE t
Goto(t, l) == pc' = [pc EXCEPT ![t] = l]

\* The number of frames in all channels, which is bounded.
Published == MapThenSumSet(LAMBDA c : Len(chan[c]), Channels)

\* exit() or abort() ends every thread.
Ends(l) == pc' = [t \in Threads |-> l]

\* The position of the frame ach_get() returns to a handle that has seen n: the
\* newest, the next, or the oldest that is left.
NextPos(c, n) ==
  IF cmd \in {"last", "poll"} THEN Len(chan[c])
  ELSE IF n + 1 > Len(chan[c]) - Depth THEN n + 1 ELSE Len(chan[c]) - Depth + 1

\* Whether there is a frame to get: with ACH_O_COPY an old one will do.
Available(t) == Len(chan[On(t)]) > (IF cmd = "poll" THEN 0 ELSE cursor[t])

\* Its position and its size.
Pos(t) == NextPos(On(t), cursor[t])
FrameSize(t) == Size[chan[On(t)][Pos(t)]]

\* pthread_cond_broadcast(): the threads that wait for channel c look again.
Woken(c) == [t \in Threads |-> IF pc[t] = "wait" /\ On(t) = c THEN "get" ELSE pc[t]]

\* The mistake of leaving the size field as ach_pipe_alloc() set it.
Got_unsized(t, p) ==
  /\ buf' = [buf EXCEPT ![t].frame = IF p = 0 THEN 0 ELSE chan[On(t)][p], ![t].pos = p]
  /\ Goto(t, "write")

\* The frame at position p, or for p = 0 nothing, is taken for a frame to write.
Got(t, p) ==
  LET f == IF p = 0 THEN 0 ELSE chan[On(t)][p]
  IN /\ buf' = [buf EXCEPT ![t] =
                  [size |-> ach_pipe_set_size(Size[f]), frame |-> f, pos |-> p]]
     /\ Goto(t, "write")

-----------------------------------------------------------------------------
(***************************************************************************)
(* Getting frames: worker() of achlog and subscribe() of achpipe.          *)
(***************************************************************************)
\* The mistake of not recording the room of the new buffer.
GetOverflow_forgets(t) ==
  /\ pc[t] = "get" /\ ~ corrupt[On(t)] /\ cancel[On(t)] # "set" /\ Available(t)
  /\ FrameSize(t) > max[t]
  /\ buf' = [buf EXCEPT ![t] = ach_pipe_alloc(FrameSize(t))]
  /\ UNCHANGED <<world, rd, out, pc, cursor, max, cmd, t0, put>>

\* The mistake of starting the loop again, not the get.
GetOverflow_loops(t) ==
  /\ pc[t] = "get" /\ ~ corrupt[On(t)] /\ cancel[On(t)] # "set" /\ Available(t)
  /\ FrameSize(t) > max[t]
  /\ max' = [max EXCEPT ![t] = FrameSize(t)]
  /\ buf' = [buf EXCEPT ![t] = ach_pipe_alloc(FrameSize(t))]
  /\ Goto(t, IF tool = "achlog" THEN "get" ELSE "loop")
  /\ UNCHANGED <<world, rd, out, cursor, cmd, t0, put>>

\* ACH_OVERFLOW: the frame stays in the channel, and the buffer is replaced by one
\* that it fits.
GetOverflow(t) ==
  /\ pc[t] = "get" /\ ~ corrupt[On(t)] /\ cancel[On(t)] # "set" /\ Available(t)
  /\ FrameSize(t) > max[t]
  /\ max' = [max EXCEPT ![t] = FrameSize(t)]
  /\ buf' = [buf EXCEPT ![t] = ach_pipe_alloc(FrameSize(t))]
  /\ UNCHANGED <<world, rd, out, pc, cursor, cmd, t0, put>>

\* The mistake of not moving the handle to the frame returned.
GetFrame_stays(t) ==
  /\ pc[t] = "get" /\ ~ corrupt[On(t)] /\ cancel[On(t)] # "set" /\ Available(t)
  /\ FrameSize(t) <= max[t]
  /\ Got(t, Pos(t))
  /\ UNCHANGED <<world, rd, out, cursor, max, cmd, t0, put>>

\* ACH_OK or ACH_MISSED_FRAME.
GetFrame(t) ==
  /\ pc[t] = "get" /\ ~ corrupt[On(t)] /\ cancel[On(t)] # "set" /\ Available(t)
  /\ FrameSize(t) <= max[t]
  /\ cursor' = [cursor EXCEPT ![t] = Pos(t)]
  /\ Got(t, Pos(t))
  /\ UNCHANGED <<world, rd, out, max, cmd, t0, put>>

\* With ACH_O_WAIT the thread waits.
GetWaits(t) ==
  /\ pc[t] = "get" /\ ~ corrupt[On(t)] /\ cancel[On(t)] # "set" /\ ~ Available(t)
  /\ cmd # "poll"
  /\ Goto(t, "wait")
  /\ UNCHANGED <<world, rd, out, cursor, max, buf, cmd, t0, put>>

\* ACH_CORRUPT, ACH_CANCELED, or ACH_STALE_FRAMES for "poll": achlog ends the
\* file.  achpipe aborts, except that any result of the first get but ACH_OVERFLOW
\* is taken for a frame, an empty one.
GetFails(t) ==
  /\ pc[t] = "get"
  /\ corrupt[On(t)] \/ cancel[On(t)] = "set" \/ (cmd = "poll" /\ ~ Available(t))
  /\ \/ tool = "achlog" /\ Goto(t, "flush") /\ UNCHANGED buf
     \/ tool # "achlog" /\ t0 /\ Got(t, 0)
     \/ tool # "achlog" /\ ~ t0 /\ Ends("abort") /\ UNCHANGED buf
  /\ UNCHANGED <<world, rd, out, cursor, max, cmd, t0, put>>

\* The header and as many bytes as its size says are written.  achlog goes on
\* with the next get, achpipe with the next turn of its loop.
WriteFrame(t) ==
  /\ pc[t] = "write" /\ tool \notin {"achcat", "achcat -s"}
  /\ \E n \in ach_pipe_get_size(buf[t].size) :
       out' = [out EXCEPT ![On(t)] = Append(@, [size |-> buf[t].size,
                 frame |-> buf[t].frame, pos |-> buf[t].pos, len |-> n])]
  /\ t0' = FALSE
  /\ Goto(t, IF tool = "achlog" THEN "get" ELSE "loop")
  /\ UNCHANGED <<world, rd, cursor, max, buf, cmd, put>>

\* A short write: achlog and achpipe leave their loop, and so does achcat.
WriteFails(t) ==
  /\ pc[t] = "write"
  /\ \/ tool = "achlog" /\ Goto(t, "flush")
     \/ tool = "achcat" /\ Goto(t, "join")
     \/ tool \notin {"achlog", "achcat"} /\ Ends("exit")
  /\ UNCHANGED <<world, rd, out, cursor, max, buf, cmd, t0, put>>

-----------------------------------------------------------------------------
(***************************************************************************)
(* achlog.                                                                 *)
(***************************************************************************)
\* main() opens the channels and their files, and starts the threads.
LogStart ==
  /\ tool = "achlog" /\ pc[Main] = "open"
  /\ pc' = [t \in Threads |-> IF t = Main THEN "sigwait" ELSE "header"]
  /\ UNCHANGED <<world, rd, out, cursor, max, buf, cmd, t0, put>>

\* One of them cannot be opened or started: ACH_DIE.
LogDies ==
  /\ tool = "achlog" /\ pc[Main] = "open"
  /\ Ends("exit")
  /\ UNCHANGED <<world, rd, out, cursor, max, buf, cmd, t0, put>>

\* worker() writes the header of the file and makes its buffer.
LogHeader(t) ==
  /\ pc[t] = "header"
  /\ buf' = [buf EXCEPT ![t] = ach_pipe_alloc(InitSize)]
  /\ Goto(t, "get")
  /\ UNCHANGED <<world, rd, out, cursor, max, cmd, t0, put>>

\* worker() flushes the file and returns.
LogFlush(t) ==
  /\ pc[t] = "flush"
  /\ Goto(t, "done")
  /\ UNCHANGED <<world, rd, out, cursor, max, buf, cmd, t0, put>>

\* sigwait() returns.
LogSignaled ==
  /\ pc[Main] = "sigwait" /\ sig
  /\ Goto(Main, "cancel")
  /\ UNCHANGED <<world, rd, out, cursor, max, buf, cmd, t0, put>>

\* The mistake of canceling without waking the thread.
LogCancel_quiet(c) ==
  /\ pc[Main] = "cancel" /\ cancel[c] = "none"
  /\ cancel' = [cancel EXCEPT ![c] = IF corrupt[c] THEN "failed" ELSE "set"]
  /\ UNCHANGED <<tool, chan, corrupt, input, cnt, signal, rd, out, pc, cursor, max, buf, cmd, t0, put>>

\* ach_cancel() of each channel in turn, which changes nothing if the channel is
\* corrupt; its result is not looked at.
LogCancel(c) ==
  /\ pc[Main] = "cancel" /\ cancel[c] = "none"
  /\ cancel' = [cancel EXCEPT ![c] = IF corrupt[c] THEN "failed" ELSE "set"]
  /\ IF corrupt[c] THEN UNCHANGED pc ELSE pc' = Woken(c)
  /\ UNCHANGED <<tool, chan, corrupt, input, cnt, signal, rd, out, cursor, max, buf, cmd, t0, put>>

\* All were canceled: main() waits for the threads, closes the files and returns.
LogJoin ==
  /\ pc[Main] = "cancel" /\ \A c \in Channels : cancel[c] # "none" /\ pc[c] = "done"
  /\ Ends("exit")
  /\ UNCHANGED <<world, rd, out, cursor, max, buf, cmd, t0, put>>

-----------------------------------------------------------------------------
(***************************************************************************)
(* achpipe: the main thread, on channel Chan0.                             *)
(***************************************************************************)
PipeTool == tool \in {"publish", "subscribe", "sync"}

\* main() and the start of publish() and subscribe(): the channel is opened, and
\* for subscribe() flushed; the buffer is made.
PipeOpen ==
  /\ PipeTool /\ pc[Main] = "open"
  /\ cursor' = [cursor EXCEPT ![Main] = IF tool = "publish" THEN 0 ELSE Len(chan[Chan0])]
  /\ buf' = [buf EXCEPT ![Main] = ach_pipe_alloc(InitSize)]
  /\ Goto(Main, "loop")
  /\ UNCHANGED <<world, rd, out, max, cmd, t0, put>>

\* It cannot be opened, or flushed as it is corrupt.
PipeOpenFails ==
  /\ PipeTool /\ pc[Main] = "open"
  /\ Ends("abort")
  /\ UNCHANGED <<world, rd, out, cursor, max, buf, cmd, t0, put>>

\* while (!sig_received): the end of the loop, and close.
PipeSignaled ==
  /\ PipeTool /\ pc[Main] = "loop" /\ sig
  /\ Ends("exit")
  /\ UNCHANGED <<world, rd, out, cursor, max, buf, cmd, t0, put>>

\* Otherwise another get, or fread() of a header or a command.
PipeNext ==
  /\ PipeTool /\ pc[Main] = "loop" /\ ~ sig
  /\ Goto(Main, IF tool = "subscribe" THEN "get" ELSE "read")
  /\ UNCHANGED <<world, rd, out, cursor, max, buf, cmd, t0, put>>

\* A signal that comes while fread() waits makes it return what it has, which is
\* not enough.
FreadInterrupted ==
  /\ pc[Main] \in {"read", "data"} /\ sig /\ ~ deaf
  /\ Ends(IF tool = "sync" THEN "abort" ELSE "exit")
  /\ UNCHANGED <<world, rd, out, cursor, max, buf, cmd, t0, put>>

\* With -c: the command says which frame to get.
Command ==
  /\ tool = "sync" /\ pc[Main] = "read"
  /\ rd < Len(input) /\ input[rd + 1].kind \in {"next", "last", "poll"}
  /\ cmd' = input[rd + 1].kind
  /\ rd' = rd + 1
  /\ Goto(Main, "get")
  /\ UNCHANGED <<world, out, cursor, max, buf, t0, put>>

\* The end of the input, part of a command or an unknown one.
CommandFails ==
  /\ tool = "sync" /\ pc[Main] = "read"
  /\ rd < Len(input) => input[rd + 1].kind \notin {"next", "last", "poll"}
  /\ Ends("abort")
  /\ UNCHANGED <<world, rd, out, cursor, max, buf, cmd, t0, put>>

\* Whether what fread() finds next is a new unit, not the rest of data whose size
\* was taken to be less than it is.
Aligned == rd % 2 = 0 /\ rd > 0 => buf[Main].frame = input[rd].frame

\* publish(): a whole header is read, and room is made for what it announces.  A
\* signal received by now does not interrupt the next fread().
ReadHeader ==
  /\ tool = "publish" /\ pc[Main] = "read" /\ Aligned
  /\ rd < Len(input) /\ input[rd + 1].kind = "header"
  /\ cnt' \in ach_pipe_get_size(input[rd + 1].size)
  /\ max' = [max EXCEPT ![Main] = IF cnt' > @ THEN cnt' ELSE @]
  /\ buf' = [buf EXCEPT ![Main].size = input[rd + 1].size]
  /\ rd' = rd + 1
  /\ deaf' = sig
  /\ Goto(Main, "data")
  /\ UNCHANGED <<tool, chan, corrupt, cancel, input, sig, out, cursor, cmd, t0, put>>

\* The mistake of publishing what could be read of the data.
ReadData_part ==
  /\ tool = "publish" /\ pc[Main] = "data"
  /\ IF rd < Len(input) /\ input[rd + 1].kind = "data"
     THEN buf' = [buf EXCEPT ![Main].frame = input[rd + 1].frame] /\ rd' = rd + 1
     ELSE UNCHANGED <<buf, rd>>
  /\ Goto(Main, "put")
  /\ UNCHANGED <<world, out, cursor, max, cmd, t0, put>>

\* The data follow: the frame, or as many of its bytes as the size is taken to be.
ReadData ==
  /\ tool = "publish" /\ pc[Main] = "data"
  /\ rd < Len(input) /\ input[rd + 1].kind = "data"
  /\ \E f \in Frames :
       /\ Size[f] = cnt /\ cnt <= Size[input[rd + 1].frame]
       /\ cnt = Size[input[rd + 1].frame] => f = input[rd + 1].frame
       /\ buf' = [buf EXCEPT ![Main].frame = f]
  /\ rd' = rd + 1
  /\ Goto(Main, "put")
  /\ UNCHANGED <<world, out, cursor, max, cmd, t0, put>>

\* The input ends or is cut off, or another magic number is found.
ReadFails ==
  /\ tool = "publish"
  /\ \/ pc[Main] = "read" /\ (rd < Len(input) /\ Aligned => input[rd + 1].kind # "header")
     \/ pc[Main] = "data" /\ (rd < Len(input) => input[rd + 1].kind # "data")
  /\ Ends("exit")
  /\ UNCHANGED <<world, rd, out, cursor, max, buf, cmd, t0, put>>

\* ach_put() of frame f by thread t, then l; a dirty channel does not stop it and
\* is clean afterwards, and the readers are woken.
Put(t, f, l) ==
  /\ Published < MaxPub[tool]
  /\ chan' = [chan EXCEPT ![On(t)] = Append(@, f)]
  /\ corrupt' = [corrupt EXCEPT ![On(t)] = FALSE]
  /\ put' = Append(put, f)
  /\ pc' = [Woken(On(t)) EXCEPT ![t] = l]

PipePut ==
  /\ tool = "publish" /\ pc[Main] = "put" /\ Size[buf[Main].frame] > 0
  /\ Put(Main, buf[Main].frame, "loop")
  /\ UNCHANGED <<tool, cancel, input, cnt, signal, rd, out, cursor, max, buf, cmd, t0>>

\* The frame is empty or larger than the channel.
PipePutFails ==
  /\ tool = "publish" /\ pc[Main] = "put"
  /\ Ends("abort")
  /\ UNCHANGED <<world, rd, out, cursor, max, buf, cmd, t0, put>>

-----------------------------------------------------------------------------
(***************************************************************************)
(* achcat: lines instead of headers and data.  The main thread reads the   *)
(* channel, and with both -p and -s, on a channel of their own, a second   *)
(* thread publishes the input.                                             *)
(***************************************************************************)
\* main(): the channel is opened or made, and the loops begin.
CatOpen ==
  /\ pc[Main] = "open" /\ tool \in {"achcat", "achcat -p", "achcat -s"}
  /\ pc' = [pc EXCEPT ![Main] = IF tool = "achcat -p" THEN "none" ELSE "cat",
                      ![Chan0] = IF tool = "achcat -s" THEN "none" ELSE "line"]
  /\ UNCHANGED <<world, rd, out, cursor, max, buf, cmd, t0, put>>

\* publish(): a line is read and put.
CatLine ==
  /\ pc[Chan0] = "line" /\ rd < Len(input)
  /\ rd' = rd + 1
  /\ Put(Chan0, input[rd + 1].frame, "line")
  /\ UNCHANGED <<tool, cancel, input, cnt, signal, out, cursor, max, buf, cmd, t0>>

\* The put of a line fails: exit(), in the second thread as well.
CatPutFails ==
  /\ pc[Chan0] = "line" /\ rd < Len(input)
  /\ rd' = rd + 1
  /\ Ends("exit")
  /\ UNCHANGED <<world, out, cursor, max, buf, cmd, t0, put>>

\* The input ends, with the same effect.
CatEnds ==
  /\ pc[Chan0] = "line" /\ rd = Len(input)
  /\ Ends("exit")
  /\ UNCHANGED <<world, rd, out, cursor, max, buf, cmd, t0, put>>

\* subscribe(): a frame is read; while there is none it sleeps and tries again.
CatGet ==
  /\ pc[Main] = "cat" /\ ~ corrupt[Chan0] /\ Available(Main) /\ FrameSize(Main) <= max[Main]
  /\ cursor' = [cursor EXCEPT ![Main] = Pos(Main)]
  /\ Got(Main, Pos(Main))
  /\ UNCHANGED <<world, rd, out, max, cmd, t0, put>>

\* ACH_CORRUPT, or ACH_OVERFLOW: the program ends, with -p when its input does.
CatGetFails ==
  /\ pc[Main] = "cat"
  /\ corrupt[Chan0] \/ (Available(Main) /\ FrameSize(Main) > max[Main])
  /\ IF tool = "achcat" THEN Goto(Main, "join") ELSE Ends("exit")
  /\ UNCHANGED <<world, rd, out, cursor, max, buf, cmd, t0, put>>

\* The bytes of the frame alone are written.
CatWrite ==
  /\ pc[Main] = "write" /\ tool \in {"achcat", "achcat -s"}
  /\ out' = [out EXCEPT ![Chan0] = Append(@, [size |-> buf[Main].size,
               frame |-> buf[Main].frame, pos |-> buf[Main].pos,
               len |-> Size[buf[Main].frame]])]
  /\ Goto(Main, "cat")
  /\ UNCHANGED <<world, rd, cursor, max, buf, cmd, t0, put>>

-----------------------------------------------------------------------------
(***************************************************************************)
(* The rest of the world.                                                  *)
(***************************************************************************)
\* The channels others use too: that of achcat -p -s is its own.
Shared ==
  CASE tool = "achlog" -> Channels
    [] tool = "achcat" -> {}
    [] OTHER -> {Chan0}

\* Another program publishes.
Publish(c, f) ==
  /\ c \in Shared /\ f \in Others[tool] /\ Published < MaxPub[tool]
  /\ chan' = [chan EXCEPT ![c] = Append(@, f)]
  /\ corrupt' = [corrupt EXCEPT ![c] = FALSE]
  /\ pc' = Woken(c)
  /\ UNCHANGED <<tool, cancel, input, cnt, signal, rd, out, cursor, max, buf, cmd, t0, put>>

\* Another program is killed while it puts.
Corrupt(c) ==
  /\ c \in Shared /\ ~ corrupt[c]
  /\ corrupt' = [corrupt EXCEPT ![c] = TRUE]
  /\ UNCHANGED <<tool, chan, cancel, input, cnt, signal, rd, out, pc, cursor, max, buf, cmd, t0, put>>

\* SIGTERM or SIGINT: blocked by achlog, noted by achpipe; achcat has no handler.
\* achpipe may be between its test of sig_received and the wait in fread().
Signal ==
  /\ tool \notin {"achcat", "achcat -p", "achcat -s"} /\ ~ sig
  /\ sig' = TRUE
  /\ deaf' \in (IF pc[Main] \in {"read", "data"} THEN BOOLEAN ELSE {FALSE})
  /\ UNCHANGED <<tool, chan, corrupt, cancel, input, cnt, rd, out, pc, cursor, max, buf, cmd, t0, put>>

\* What the command line asks for.
Init ==
  /\ tool \in Tools
  /\ input \in Inputs[tool]
  /\ cmd \in IF tool \in {"achlog", "subscribe"} THEN {"next", "last"} ELSE {"next"}
  /\ chan = [c \in Channels |-> <<>>]
  /\ corrupt = [c \in Channels |-> FALSE]
  /\ cancel = [c \in Channels |-> "none"]
  /\ out = [c \in Channels |-> <<>>]
  /\ pc = [t \in Threads |-> IF t = Main THEN "open" ELSE "none"]
  /\ cursor = [t \in Threads |-> 0]
  /\ max = [t \in Threads |-> InitSize]
  /\ buf = [t \in Threads |-> ach_pipe_alloc(0)]
  /\ rd = 0 /\ t0 = TRUE /\ put = <<>> /\ cnt = 0 /\ sig = FALSE /\ deaf = FALSE

\* The steps that need no one else, of achlog's threads and of the others.
Thread(t) ==
  \/ GetOverflow(t) \/ GetFrame(t) \/ GetWaits(t) \/ GetFails(t)
  \/ WriteFrame(t) \/ WriteFails(t)
  \/ LogHeader(t) \/ LogFlush(t)

MainThread ==
  \/ LogStart \/ LogDies \/ LogSignaled \/ LogJoin
  \/ \E c \in Channels : LogCancel(c)
  \/ PipeOpen \/ PipeOpenFails \/ PipeSignaled \/ PipeNext \/ FreadInterrupted
  \/ PipePut \/ PipePutFails
  \/ CatOpen \/ CatGet \/ CatGetFails \/ CatWrite

\* The steps that wait for something on standard input, or for its end.
Reading ==
  \/ Command \/ CommandFails \/ ReadHeader \/ ReadData \/ ReadFails
  \/ CatLine \/ CatPutFails \/ CatEnds

World ==
  \/ \E c \in Channels, f \in Frames \ {0} : Publish(c, f)
  \/ \E c \in Channels : Corrupt(c)
  \/ Signal

Next == MainThread \/ Reading \/ (\E t \in Threads : Thread(t)) \/ World

Spec == Init /\ [][Next]_vars

\* Threads run on; nothing is assumed of the other programs, nor of the input, on
\* which nothing may ever arrive.
FairSpec ==
  /\ Spec
  /\ WF_vars(MainThread) /\ \A t \in Threads : WF_vars(Thread(t))

-----------------------------------------------------------------------------
(***************************************************************************)
(* Properties.                                                             *)
(***************************************************************************)
\* Whoever reads a stream or a log gets every frame back as it was published: the
\* header in front of it has the bytes of its true size, and that many bytes
\* follow, although buffers are replaced when a frame does not fit.  A frame whose
\* size takes a fifth byte is cut: fewer bytes follow than the header says (achcat
\* writes no header and does not cut).  Only the first thing achpipe writes can be
\* an empty frame that nobody published.
OutputFaithful ==
  \A c \in Channels : \A i \in DOMAIN out[c] :
    LET w == out[c][i]
        size == Size[w.frame]
    IN /\ w.size = ach_pipe_set_size(size)
       /\ size < Weight[5] => ach_pipe_get_size(w.size) = {size}
       /\ IF size < Weight[5] \/ tool \in {"achcat", "achcat -s"} THEN w.len = size ELSE w.len < size
       /\ \/ w.pos > 0 /\ w.frame = chan[c][w.pos]
          \/ w.pos = 0 /\ w.frame = 0 /\ i = 1 /\ PipeTool

\* Frames are written in the order they were published and none twice, although a
\* get is repeated after ACH_OVERFLOW and readers fall behind.  Only the command
\* "poll" may return a frame again, never one older than the last.
OutputInOrder ==
  \A c \in Channels : \A i, j \in DOMAIN out[c] :
    i < j => /\ out[c][i].pos <= out[c][j].pos
             /\ out[c][i].pos = out[c][j].pos => tool = "sync"

\* achpipe -c answers every command it has read with one frame, before it reads
\* the next.
OneReplyPerCommand ==
  tool = "sync" /\ pc[Main] \in {"loop", "read"} => Len(out[Chan0]) = rd

\* The frames, or lines, whose data the first n units of the input hold: in a
\* stream every second unit is data.
Whole(n) ==
  IF tool = "publish" THEN [i \in 1 .. n \div 2 |-> input[2 * i].frame]
  ELSE [i \in 1 .. n |-> input[i].frame]

\* A part was put of the frame read last, whose size takes a fifth byte.
CutShort ==
  /\ rd > 0 /\ rd % 2 = 0 /\ Size[input[rd].frame] >= Weight[5]
  /\ \E f \in Frames : Size[f] < Size[input[rd].frame] /\ put = Append(Whole(rd - 1), f)

\* achpipe -p and achcat -p put the frames of the input in order, each once and
\* none that was cut off; when they leave their loop for want of input all that
\* was read was put, and when a put fails all but the last.  What achpipe has read is
\* headers and data in turn.  The buffer always has room for the frame in it.  The
\* exception is a frame whose size takes a fifth byte: a part of it is put, and
\* nothing after it.
PublishesInput ==
  tool \in {"publish", "achcat -p", "achcat"} =>
    /\ \/ put = Whole(rd)
       \/ pc[Main] \in {"put", "abort"} /\ put = Whole(rd - 1)
       \/ pc[Main] = "exit" /\ tool # "publish" /\ put = Whole(rd - 1)
       \/ tool = "publish" /\ CutShort
    /\ tool = "publish" =>
         \A i \in 1 .. rd : input[i].kind = IF i % 2 = 1 THEN "header" ELSE "data"
    /\ Size[buf[Main].frame] <= max[Main]

\* achlog and achpipe end after SIGTERM or SIGINT.  Three exceptions are in the
\* code: achpipe's handler does not wake a get that waits; a signal that comes
\* between achpipe's test of sig_received and fread(), or before it reads the data,
\* leaves it waiting for input; and a channel that ach_cancel() found corrupt
\* keeps its thread.
SignalEnds ==
  sig ~> \/ pc[Main] \in {"exit", "abort", "wait"}
         \/ pc[Main] \in {"read", "data"} /\ deaf
         \/ \E c \in Channels : cancel[c] = "failed"

\* Every frame published in a channel that achlog logs is written, or a newer one
\* in its stead, unless the thread ends or the channel becomes corrupt.
Logged ==
  \A c \in Channels, n \in 1 .. MaxPub["achlog"] :
    tool = "achlog" /\ pc[c] = "get" /\ Len(chan[c]) >= n ~>
      \/ \E i \in DOMAIN out[c] : out[c][i].pos >= n
      \/ corrupt[c] \/ pc[c] \in {"flush", "done", "exit"}

=============================================================================
