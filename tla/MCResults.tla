----------------------------- MODULE MCResults -----------------------------
(***************************************************************************)
(* The instances of Results that TLC checks.                               *)
(***************************************************************************)
EXTENDS Results

\* An interval of no time, and three more.
SomeTimes  == 0..3
\* Enough different ratios for ties and for different counts.
SomeCounts == 1..2
=============================================================================
