---------------------------- MODULE MCAchCopPid ----------------------------
(***************************************************************************)
(* A small instance of AchCopPid: three commands, two files.               *)
(***************************************************************************)
EXTENDS AchCopPid, TLC

CONSTANTS k1, k2, k3, f1, f2

Opt(x, y, z) == [P |-> x, p |-> y, d |-> z]

\* The usual two files, with and without -d; the files the other way round; one
\* file only; the same file twice.
MCCommands == {Opt(f1, f2, TRUE), Opt(f1, f2, FALSE), Opt(f2, f1, FALSE),
               Opt(NoFile, f2, FALSE), Opt(f1, f1, FALSE)}

Symmetry == Permutations({k1, k2, k3})

=============================================================================
