---------------------------- MODULE MCGameRoom -----------------------------
(***************************************************************************)
(* Small instances of GameRoom for TLC.  The clock and the revision count   *)
(* up for ever in the code; here they stop at a bound.                      *)
(***************************************************************************)
EXTENDS RoomClock, TLC

CONSTANTS MaxTime,       \* last instant of the clock
          MaxRevision    \* number of turns and pauses of one room

MCNext == /\ ClockNext
          /\ now' <= MaxTime
          /\ turnRevision' <= MaxRevision

MCSpec == ClockInit /\ [][MCNext]_clockVars

Symmetry == Permutations(Conns)
=============================================================================
