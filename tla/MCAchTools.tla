----------------------------- MODULE MCAchTools -----------------------------
(***************************************************************************)
(* A small instance of AchTools: two channels, a frame that fits the first *)
(* buffer and two that do not, one of which has a size of five bytes, and  *)
(* bytes of two values.                                                    *)
(***************************************************************************)
EXTENDS AchTools

CONSTANTS c1, c2, main

MCSize == [f \in 0 .. 3 |-> CASE f = 0 -> 0 [] f = 1 -> 1 [] f = 2 -> 5 [] OTHER -> 16]

Header(f) == [kind |-> "header", size |-> ach_pipe_set_size(Size[f])]
Data(f) == [kind |-> "data", frame |-> f]
Junk == [kind |-> "junk"]
Do(c) == [kind |-> c]

\* Whole streams, a stream with the empty frame achpipe -s can begin with, streams
\* that are cut off behind a header or are no streams; sequences of commands;
\* lines of text.
MCInputs == [t \in Tool |->
  CASE t = "publish" -> {<<Header(1), Data(1), Header(2), Data(2), Header(1), Data(1)>>,
                         <<Header(0), Data(0), Header(1), Data(1)>>,
                         <<Header(2), Data(2), Header(1)>>,
                         <<Header(1), Data(1), Junk, Header(1), Data(1)>>,
                         <<Header(2), Junk>>,
                         <<Header(1), Data(1), Header(3), Data(3), Header(1), Data(1)>>}
    [] t = "sync" -> {<<Do("poll"), Do("poll"), Do("next")>>,
                      <<Do("next"), Do("last"), Do("poll")>>,
                      <<Do("poll"), Do("next"), Do("next")>>,
                      <<Do("last"), Do("next"), Junk>>}
    [] t \in {"achcat", "achcat -p"} -> {<<Data(1), Data(1), Data(1)>>}
    [] OTHER -> {<<>>}]

\* The frame of five size bytes is left to achpipe; achlog has two channels.
MCOthers == [t \in Tool |-> IF t \in {"achlog", "sync"} THEN {1, 2} ELSE {1, 2, 3}]
MCMaxPub == [t \in Tool |-> IF t = "achlog" THEN 2 ELSE 3]

=============================================================================
