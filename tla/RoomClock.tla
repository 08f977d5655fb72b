----------------------------- MODULE RoomClock ------------------------------
(***************************************************************************)
(* GameRoom with a history variable: the time the running clock of the     *)
(* current turn has used up.  It restricts nothing; it lets the clock be    *)
(* judged over a whole turn, pauses included.                               *)
(***************************************************************************)
EXTENDS GameRoom

VARIABLE spent

clockVars == <<roomVars, spent>>

\* The turn passes on, or the match does.
TurnOver ==
    \/ game'.turn # game.turn \/ game'.status # game.status
    \/ game'.history # game.history

ClockInit == RoomInit /\ spent = 0

CountTime ==
    spent' = IF TurnOver THEN 0
             ELSE IF turnDeadline # None THEN spent + (now' - now)
             ELSE spent

ClockNext == RoomNext /\ CountTime

ClockSpec == ClockInit /\ [][ClockNext]_clockVars

-----------------------------------------------------------------------------

\* No sequence of undo requests and rejections lengthens or shortens a turn:
\* the time used and the time left always add up to the limit of the room
\* (request_undo, respond_undo, _start_turn_timer_locked).
ClockConserved ==
    /\ turnDeadline # None => spent + (turnDeadline - now) = TurnLimit
    /\ pausedRemaining # None => /\ spent + pausedRemaining = TurnLimit
                                 /\ pausedRemaining > 0

\* A Gomoku turn passes on without a stone only when its player has used the
\* whole limit (skip_turn is the only such step).
TurnLostOnlyWhenSpent ==
    [][Playing /\ game'.turn \in Color \ {game.turn} /\ Playing'
         /\ game'.history = game.history
         => TurnLimit # None /\ spent >= TurnLimit]_clockVars
=============================================================================
