-------------------------- MODULE MCTokenCustody --------------------------
(* Two slices of one instance: all its workers while no time passes, for   *)
(* the custody of refresh tokens; and one of them, with a clock and with   *)
(* lifetimes that wrap around, for the expiry of what is in the row.       *)
EXTENDS TokenCustody

CONSTANT Lone  \* the one worker

VARIABLE clocked  \* which of the two it is

Timeless == INSTANCE TokenCustody WITH Lifetime <- {0}, Timeout <- 0, Horizon <- 0
Clocked  == INSTANCE TokenCustody WITH Worker <- {Lone}, MaxToken <- 1

SliceInit == clocked \in BOOLEAN /\ Init

SliceNext ==
  \/ clocked /\ Clocked!Next /\ UNCHANGED clocked
  \/ ~clocked /\ Timeless!Next /\ UNCHANGED clocked

SliceSpec == SliceInit /\ [][SliceNext]_<<vars, clocked>>

=============================================================================
