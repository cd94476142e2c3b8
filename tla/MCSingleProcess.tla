-------------------------- MODULE MCSingleProcess --------------------------
(***************************************************************************)
(* Instances of SingleProcess for TLC.  One tick is half a millisecond, so *)
(* that 100 of them are Enough.  Times are whole ticks, so that Clear is 3 *)
(* of them rather than a third of one, and the limits are as much smaller. *)
(* Costs are in eighths of a tick.                                         *)
(***************************************************************************)
EXTENDS SingleProcess

\* From a body that takes no time to one that takes five intervals.
ManyCosts ==
  (0..40) \cup {45, 50, 55, 64, 72, 80, 95, 100, 110, 120, 160, 200, 240, 300, 360,
               400, 470, 500, 640, 800, 960, 1000, 2000, 4000}

\* Each of them for a steady benchmark, and one whose costs differ by far more
\* than the factor of 1.2.
ManyBenchmarks == {{c} : c \in ManyCosts} \cup {{0, 3, 8, 20, 300}}

\* A body of 48 milliseconds, of the 50 that are Enough.
OneCost == {768}

AllNames == DOMAIN Rows

\* Letters of every kind, one that no program knows, and both ways to give
\* an argument.
Options ==
  {<<"-", l>> : l \in {"P", "W", "C", "S", "s", "m", "v", "u", "z"}}
    \union {<<"-", "P", d>> : d \in {"0", "2"}} \union {<<"-", "P", "-", "2">>}
    \union {<<"-", l, "P">> : l \in {"C", "c", "t", "s", "W"}}
    \union {<<"-", "C", "C">>, <<"-", "C", "P", "4">>, <<"-", "W", "P", "2">>, <<"-", "v", "2">>, <<"-", "-">>}
Operandish == {<<"4">>, <<"0">>, <<"w">>, <<"-">>, <<>>}
AnyWord == Options \union Operandish

\* Any two words, and some operands after them.
Tails ==
  {<<>>, <<<<"4">>>>, <<<<"w">>>>, <<<<"4">>, <<"w">>>>, <<<<"4">>, <<"w">>, <<"4">>>>,
   <<<<"0">>, <<"w">>, <<"w">>>>, <<<<"-", "P", "4">>, <<"w">>>>}
AnyCommandLine ==
  {<<v>> \o t : v \in AnyWord, t \in Tails} \union {<<v, w>> \o t : v, w \in AnyWord, t \in Tails}
    \union Tails
=============================================================================
