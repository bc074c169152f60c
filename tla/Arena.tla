------------------------------- MODULE Arena -------------------------------
(***************************************************************************)
(* What the sprites do, as far as the state machine of the game sees it:   *)
(* whether the player touches a wall (coll_CU), and whether he stands in   *)
(* the clear, on a pokeball (sprite_coll) or past the finish line (my_end).*)
(* MazeControl plays the game in this arena, and Sprites implements it.    *)
(***************************************************************************)
EXTENDS Naturals

VARIABLES
    travel, \* moves of the sprites since they were last homed, at most 2
    place,  \* where the player's sprite stands
    wall    \* coll_CU: a corner of the sprite is in a wall it runs into

arenaVars == <<travel, place, wall>>

ArenaInit == travel = 0 /\ place = "clear" /\ wall = FALSE

Reachable(from) == {from, "clear"} \cup (IF from = "clear" THEN {"ball", "exit"} ELSE {})

(* One edge of Clk that homes the sprites, moves them, or does neither,    *)
(* while the map changes from shown to shown2.  The first move after homing*)
(* only loads the speeds, so the sprites leave home on the second.  A move *)
(* is one pixel, and the finish line (y > 416) is more than 100 from the   *)
(* balls' rows (y = 192 and 256).  The menu map is a wall everywhere; on   *)
(* the others the sprite's home is free.                                   *)
ArenaStep(homing, moves, shown, shown2) ==
    /\ travel' = IF homing THEN 0
                 ELSE IF moves /\ travel < 2 THEN travel + 1
                 ELSE travel
    /\ place' \in IF travel' < 2 THEN {"clear"}
                  ELSE IF moves THEN Reachable(place)
                  ELSE {place}
    /\ wall' \in IF travel' < 2 /\ shown2 # "menu" THEN {FALSE}
                 ELSE IF moves \/ homing \/ shown # shown2 THEN BOOLEAN
                 ELSE {wall}

ArenaNext(shown, shown2) ==
    \E homing, moves \in BOOLEAN :
        ~(homing /\ moves) /\ ArenaStep(homing, moves, shown, shown2)
=============================================================================
