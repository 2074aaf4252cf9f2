------------------------------ MODULE AchPubSub -----------------------------
(***************************************************************************)
(* What an ach channel promises to its users, with no ring, no index and   *)
(* no data array.  The channel is a stream of frames.  The newest ones are *)
(* retained, as many as fit into MaxFrames entries and MaxBytes bytes.  A  *)
(* handle is the number of the last frame it has seen.                     *)
(*                                                                         *)
(* start[s] is the number of bytes published before frame s, so that the   *)
(* last element of start is the number of bytes published so far.          *)
(***************************************************************************)
EXTENDS Integers, Sequences

CONSTANTS
  MaxFrames, \* most frames the channel retains
  MaxBytes,  \* most bytes the channel retains
  Handles,   \* the open handles on the channel
  Lengths,   \* lengths of the frames that callers publish
  Sizes      \* sizes of the buffers that callers read into

VARIABLES
  start,     \* where each frame starts in the stream, and where it ends
  cursor,    \* per handle: the last frame it has seen
  answer     \* what the call that just returned gave to its caller

vars == <<start, cursor, answer>>

newest == Len(start) - 1
Size(s) == start[s + 1] - start[s]
Content(s) == [k \in 0 .. Size(s) - 1 |-> <<s, k>>]

\* Frames s and younger are few and small enough to be retained together.
Retained(s) ==
  /\ newest + 1 - s <= MaxFrames
  /\ start[newest + 1] - start[s] <= MaxBytes

NoAnswer == [call |-> "none"]
PutAnswer(status) == [call |-> "put", status |-> status]
GetAnswer(status, s, buf) == [call |-> "get", status |-> status, seq |-> s, buf |-> buf]

\* A reader may ask for the newest frame, and to get one that it has seen.
Options == [last : BOOLEAN, copy : BOOLEAN]

-----------------------------------------------------------------------------

Init ==
  /\ start = <<0>>
  /\ cursor = [h \in Handles |-> 0]
  /\ answer = NoAnswer

\* A frame that is empty or larger than the channel is refused.
Refuse(len) ==
  /\ \/ len = 0 /\ answer' = PutAnswer("ACH_EINVAL")
     \/ len > MaxBytes /\ answer' = PutAnswer("ACH_OVERFLOW")
  /\ UNCHANGED <<start, cursor>>

Publish(len) ==
  /\ len \in 1 .. MaxBytes
  /\ start' = Append(start, start[newest + 1] + len)
  /\ answer' = PutAnswer("ACH_OK")
  /\ UNCHANGED cursor

Nothing(h, o) == newest = 0 \/ (cursor[h] = newest /\ ~ o.copy)

\* Frame s is what h gets: the newest frame if it asks for that or has seen
\* everything, else the first one it has not seen that is still retained.
Wanted(h, o, s) ==
  IF o.last \/ cursor[h] = newest
  THEN s = newest
  ELSE /\ s > cursor[h]
       /\ Retained(s)
       /\ s > cursor[h] + 1 => ~ Retained(s - 1)

Stale(h, o) ==
  /\ Nothing(h, o)
  /\ answer' = GetAnswer("ACH_STALE_FRAMES", cursor[h], <<>>)
  /\ UNCHANGED <<start, cursor>>

TooSmall(h, size, o, s) ==
  /\ ~ Nothing(h, o)
  /\ Wanted(h, o, s)
  /\ size < Size(s)
  /\ answer' = GetAnswer("ACH_OVERFLOW", cursor[h], <<>>)
  /\ UNCHANGED <<start, cursor>>

\* Frames passed over are reported.  With copy they need not be: "Return code of
\* ach_get() for successful copy will be ACH_OK" (ach.h), which the code does not
\* keep to, so that both are allowed.
DeliverStatus(h, o, s) ==
  IF s <= cursor[h] + 1 THEN {"ACH_OK"}
  ELSE IF o.copy THEN {"ACH_OK", "ACH_MISSED_FRAME"}
  ELSE {"ACH_MISSED_FRAME"}

\* The frame is delivered.
Deliver(h, size, o, s) ==
  /\ ~ Nothing(h, o)
  /\ Wanted(h, o, s)
  /\ size >= Size(s)
  /\ cursor' = [cursor EXCEPT ![h] = s]
  /\ \E status \in DeliverStatus(h, o, s) : answer' = GetAnswer(status, s, Content(s))
  /\ UNCHANGED start

\* The handle skips to the end of the stream.
Flush(h) ==
  /\ cursor' = [cursor EXCEPT ![h] = newest]
  /\ answer' = NoAnswer
  /\ UNCHANGED start

\* The handle goes back to the beginning of the stream.
Reopen(h) ==
  /\ cursor' = [cursor EXCEPT ![h] = 0]
  /\ answer' = NoAnswer
  /\ UNCHANGED start

\* The answer to an earlier call is forgotten.
Forget ==
  /\ answer' = NoAnswer
  /\ UNCHANGED <<start, cursor>>

Next ==
  \/ \E len \in Lengths : Refuse(len) \/ Publish(len)
  \/ \E h \in Handles, o \in Options :
       \/ Stale(h, o)
       \/ \E size \in Sizes, s \in 1 .. newest :
            TooSmall(h, size, o, s) \/ Deliver(h, size, o, s)
  \/ \E h \in Handles : Flush(h) \/ Reopen(h)
  \/ Forget

Spec == Init /\ [][Next]_vars

=============================================================================
