---------------------------- MODULE MCSnowflake ----------------------------
(***************************************************************************)
(* An instance of Snowflake for TLC.                                       *)
(***************************************************************************)
EXTENDS Snowflake, TLC

\* Two processes of one machine, the second started at any time after the first
\* or next to it; a sequence of two numbers wraps with the second call of a
\* millisecond.
TwoGenerators == {"g1", "g2"}
OneMachine == [g \in TwoGenerators |-> "m"]
FourCallers == {"c1", "c2", "c3", "c4"}
LastInSecond == [c \in FourCallers |-> IF c = "c4" THEN "g2" ELSE "g1"]

=============================================================================
