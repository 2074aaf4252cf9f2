--------------------------- MODULE AchChannelRing ---------------------------
(***************************************************************************)
(* The channel implements the ring: each critical section happens as if it *)
(* were alone.  The put of the ring is the one of the writer that changes  *)
(* the ring or was killed doing so.                                        *)
(***************************************************************************)
EXTENDS AchChannel

RingLabels == Changing \ {"clean"}
RingWriters == {w \in Writers : pc[w] \in RingLabels}
RingWriter == CHOOSE w \in RingWriters : TRUE

RingPc == IF RingWriters = {} THEN "idle" ELSE pc[RingWriter]
RingLen == IF RingWriters = {} THEN 0 ELSE arg[RingWriter].len
RingIdx == IF RingWriters = {} THEN 0 ELSE idx[RingWriter]
RingI == IF RingWriters = {} THEN 0 ELSE slot[RingWriter]

Ring == INSTANCE AchRing WITH
  Handles <- Readers,
  Sizes <- {o.size : o \in GetOptions},
  put_pc <- RingPc, put_len <- RingLen, put_idx <- RingIdx, put_i <- RingI

\* Interleaved calls have the effect of one call after another.
ImplementsRing == Ring!Spec

=============================================================================
