------------------------------ MODULE MCAchLife ------------------------------
(***************************************************************************)
(* AchLife with a few processes, the sizes of an x86-64 build and programs *)
(* that race over one name.                                                *)
(***************************************************************************)
EXTENDS AchLife, TLC

Run(cmd, cnt, size, truncate, once, chmod) ==
  [cmd |-> cmd, dims |-> [cnt |-> cnt, size |-> size],
   truncate |-> truncate, once |-> once, chmod |-> chmod]

Plain(cmd) == Run(cmd, 1, 1, FALSE, FALSE, FALSE)

\* A small channel, one of two pages made by -t, and everything that opens or
\* removes them.  "ach chmod" is what "ach mk -1 -o" does to a channel that exists.
Race ==
  {Run("mk", 4, 16, FALSE, FALSE, FALSE), Run("mk", 4, 16, FALSE, TRUE, TRUE),
   Run("mk", 16, 256, TRUE, FALSE, FALSE), Run("mk", 0, 16, FALSE, FALSE, FALSE),
   Plain("rm"), Plain("dump"), Plain("client")}

\* "ach mk foo -m 16 -n 212": header, index and data fill a page exactly.
FullPage == {Run("mk", 16, 212, FALSE, FALSE, FALSE), Plain("client")}

Symmetry == Permutations(Procs) \cup Permutations(Inodes)
=============================================================================
