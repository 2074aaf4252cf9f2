------------------------------- MODULE MCAchd -------------------------------
(***************************************************************************)
(* Achd with a few frames and connections.                                 *)
(***************************************************************************)
EXTENDS Achd

Opt(udp, push, reconnect, last, frames) ==
  [udp |-> udp, push |-> push, reconnect |-> reconnect, last |-> last, frames |-> frames]

\* Push and pull with -r over both transports, and a client without -r.
Several ==
  {Opt(FALSE, TRUE, TRUE, FALSE, <<"small", "large">>),
   Opt(FALSE, FALSE, TRUE, FALSE, <<"large", "small">>),
   Opt(FALSE, FALSE, FALSE, TRUE, <<"small", "small">>),
   Opt(TRUE, TRUE, TRUE, FALSE, <<"huge", "large", "edge">>),
   Opt(TRUE, FALSE, TRUE, FALSE, <<"large">>)}

\* "achd -r -t udp pull".
PullUDP == {Opt(TRUE, FALSE, TRUE, FALSE, <<"small", "small">>)}
=============================================================================
