------------------------------ MODULE MCAchRing -----------------------------
(* Instances of AchRing for TLC. *)
EXTENDS AchRing

\* Nothing, one byte, half of the larger data array, all of the data array,
\* and a frame that is too large for it.
MCLengths == {0, 1, 3, DataSize, DataSize + 1}

\* A buffer for the smallest frames, and one for all.
MCSizes == {1, DataSize}

=============================================================================
