------------------------------ MODULE MCAchCop ------------------------------
(* Instances of AchCop for TLC. *)
EXTENDS AchCop

\* A request to end and one to restart.  SIGINT is handled as SIGTERM is.
Requests == {"SIGTERM", "SIGHUP"}

=============================================================================
