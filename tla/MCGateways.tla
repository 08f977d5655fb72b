---------------------------- MODULE MCGateways ----------------------------
(***************************************************************************)
(* One run for the three kinds of room whose announcements differ: an       *)
(* untimed room, where no task cancels another (the constants of the cfg), a *)
(* timed Gomoku room whose handlers the ASGI server may cancel, and a timed  *)
(* Othello room, where the timer itself plays.  A behaviour keeps the kind   *)
(* it starts with.                                                          *)
(***************************************************************************)
EXTENDS MCGateway

CONSTANTS TimedLimit,      \* turn limit of the timed rooms
          TimedEnd,        \* last instant of their clock
          TimedCommands    \* client commands in one behaviour of them

Timed == INSTANCE MCGateway
           WITH TurnLimit <- TimedLimit, CancelEndpoints <- TRUE,
                MaxTime <- TimedEnd, MaxCommands <- TimedCommands

Othello == INSTANCE MCGateway
             WITH GameType <- "OTHELLO", StartingColor <- "BLACK", TurnLimit <- TimedLimit,
                  MaxTime <- TimedEnd, MaxCommands <- TimedCommands

VARIABLE kind

AnyInit ==
    \/ kind = "untimed" /\ MCInit
    \/ kind = "gomoku" /\ Timed!MCInit
    \/ kind = "othello" /\ Othello!MCInit

AnyNext ==
    /\ UNCHANGED kind
    /\ \/ kind = "untimed" /\ MCNext
       \/ kind = "gomoku" /\ Timed!MCNext
       \/ kind = "othello" /\ Othello!MCNext

\* Of the steps that are fair only the timer's turn end differs between rooms.
AnyTimerWakes ==
    IF kind = "othello" THEN Othello!TimerWakes ELSE Timed!TimerWakes

AnyFairness ==
    /\ \A c \in Conns : WF_gatewayVars(Resume(c))
    /\ WF_gatewayVars(AnyTimerWakes) /\ WF_gatewayVars(TimerAnnounces)

AnySpec == AnyInit /\ [][AnyNext]_<<mcVars, kind>> /\ AnyFairness

-----------------------------------------------------------------------------

\* In a room without a clock nobody is left with an old picture of the match
\* once every announcement is out, and every result reaches its players (with
\* a clock, see gateway_result_lost, and with handlers that may be cancelled,
\* see gateway_cancelled).
UntimedRoomInformed == kind = "untimed" => ViewsConverge /\ ResultAnnounced
=============================================================================
