---------------------------- MODULE MazeHistory ----------------------------
(***************************************************************************)
(* MazeControl with history variables, which record what the registers     *)
(* have forgotten, and the correctness properties of the game.  The        *)
(* history never constrains a step: HNext is Next with the record kept.    *)
(***************************************************************************)
EXTENDS MazeControl

VARIABLES
    exits,       \* mazes finished since the title screen was left
    moved,       \* moves of the sprites since the level last changed, at most 2
    clean,       \* no Reset_h since power-up or since the last game over
    titleFrames, \* frame edges of this stay on the title screen, at most 2
    patient      \* every stay on the title screen so far has seen two of them

hist  == <<exits, moved, clean, titleFrames, patient>>
hvars == <<vars, hist>>

HInit == /\ Init
         /\ exits = 0 /\ moved = 0 /\ clean = TRUE
         /\ titleFrames = 0 /\ patient = TRUE

HClkEdge(button) ==
    /\ ClkEdge(button)
    /\ exits' = IF curr_State' = "HALT" THEN 0
                ELSE IF curr_State = "games" /\ curr_State' = "increment1"
                     THEN exits + 1
                ELSE exits
    /\ moved' = IF count' # count THEN 0
                ELSE IF Moves /\ moved < 2 THEN moved + 1
                ELSE moved
    /\ clean' = IF Reset_h THEN FALSE
                ELSE clean \/ (E_STATE /\ curr_State' = "HALT")
    /\ titleFrames' = IF curr_State' = "HALT" THEN titleFrames ELSE 0
    /\ patient' = (patient /\ (H_STATE /\ curr_State' # "HALT" => titleFrames = 2))

HFrameEdge ==
    /\ FrameEdge
    /\ titleFrames' = IF H_STATE /\ titleFrames < 2 THEN titleFrames + 1
                      ELSE titleFrames
    /\ UNCHANGED <<exits, moved, clean, patient>>

HSetKeycode(k) == SetKeycode(k) /\ UNCHANGED hist

HNext == \/ \E button \in BOOLEAN : HClkEdge(button)
         \/ HFrameEdge
         \/ \E k \in Keys : HSetKeycode(k)

HSpec     == HInit /\ [][HNext]_hvars
HFairSpec == HSpec /\ Fairness

HTypeOK == /\ TypeOK
           /\ exits \in Nat
           /\ moved \in 0..2
           /\ clean \in BOOLEAN
           /\ titleFrames \in 0..2
           /\ patient \in BOOLEAN

-----------------------------------------------------------------------------
(* Safety. *)

\* The level counter never leaves the mazes and the one value beyond them
\* that ends the game: top.sv's count > 3 always stops it before its three
\* bits wrap to the title screen in the middle of a game.
LevelBound == count <= LastLevel + 1

\* Unless a reset cut in, the maze being played is the one after the mazes
\* finished, counting the increment that is on its way through inc: no
\* finish is lost or counted twice by the FSM, the inc register and the
\* counter, whose three edges overlap with the homing of the sprites.
LevelCountsExits ==
    clean /\ ~H_STATE =>
        count + (IF inc \/ curr_State = "increment1" THEN 1 ELSE 0) = 1 + exits

\* The finish line of one maze is never counted for the next one: between two
\* changes of the level the sprites have been homed and have moved twice.
\* (A player who leaves the title screen within two frames keeps the score
\* of the game before, dies of it just as he moves over a finish line, and
\* finds himself past it when he starts again.)
NoLevelSkipped ==
    [][patient /\ curr_State = "increment2" /\ count' = count + 1
            => moved = 2]_hvars

\* A title screen that lasted two frames has cleared the score, also when the
\* reset that led to it caught a collision on its way to the score.
TitleClearsScore == titleFrames = 2 => ones = 0 /\ tens = 0 /\ bounce = 0

\* The score on the screen (ones, tens) and the one on the hex display
\* (bounce) show the same number of collisions, through every carry and wrap.
ScoresAgree ==
    \E carries \in 0..TensMod-1 :
        /\ tens = (3 * carries) % TensMod
        /\ bounce = (ones + (OnesWrap + 1) * carries) % BounceMod
=============================================================================
