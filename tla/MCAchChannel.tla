---------------------------- MODULE MCAchChannel ----------------------------
(* Instances of AchChannel for TLC. *)
EXTENDS AchChannelRing

Get(wait, timed, last, copy) ==
  [wait |-> wait, timed |-> timed, last |-> last, copy |-> copy, size |-> DataSize]

\* Poll, wait, wait with a timeout, and wait for the newest frame.
MCGetOptions ==
  {Get(FALSE, FALSE, FALSE, TRUE), Get(TRUE, FALSE, FALSE, FALSE), Get(TRUE, TRUE, TRUE, FALSE)}

\* Only a wait for the next frame that may end in a timeout.
MCTimedWait == {Get(TRUE, TRUE, FALSE, FALSE)}

=============================================================================
