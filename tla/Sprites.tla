------------------------------ MODULE Sprites ------------------------------
(***************************************************************************)
(* The sprites and their collisions: the player's sprite of pokemon.sv,    *)
(* the two balls of pokeball.sv, the corner tests of bouncing.sv against   *)
(* the map of bitmap.sv, and the overlap test of spritecolliding.sv.       *)
(*                                                                         *)
(* Positions are the registers, with their wrap.  The player's speed is    *)
(* one pixel along an axis or none, so it is a direction; so are the flags *)
(* L, R, U, D (the last key) and bcingL, ..., bcingD (the last bounce), of *)
(* which at most one is set.  Of the game one sees the map it shows: Home  *)
(* is an edge of Clk with Reset_h or inc, Show one that only changes the   *)
(* map, Move the one after a frame edge.                                   *)
(***************************************************************************)
EXTENDS Integers

CONSTANTS
    PosMod,       \* 2^width of a position (1024)
    Size,         \* side of every sprite (20)
    Tile,         \* pixels to a bit of the map (10)
    Columns,      \* bits to a row of the map (64)
    Addresses,    \* 2^width of an index into the map (4096)
    MapBits,      \* bits of the map (3072)
    Walls,        \* for each map the indices of the bits that are set
    HomeX, HomeY, \* the player's home (336, 33)
    FinishY,      \* last row before the finish line (416)
    BallHome,     \* column in which the balls start (10)
    BallRow,      \* their rows (192, 256)
    BallStep,     \* their step, to the right and to the left (2)
    ScreenX       \* last column in which all of the player is seen (619)

Maps  == {"title", "menu", "maze", "over"}
Dirs  == {"none", "L", "R", "U", "D"}
Balls == {1, 2}

ASSUME MapAssumption ==
    /\ Walls \in [Maps -> SUBSET (0..MapBits-1)]
    /\ Walls["menu"] = 0..MapBits-1
    /\ MapBits <= Addresses
ASSUME SizeAssumption ==
    /\ {PosMod, Tile, Columns, Addresses, BallStep} \subseteq Nat \ {0}
    /\ {Size, HomeX, HomeY, FinishY, BallHome, ScreenX, MapBits} \subseteq Nat
    /\ BallRow \in [Balls -> Nat]
    /\ 2 * Size < PosMod /\ BallStep <= Size
ASSUME PlaceAssumption ==
    /\ \A b \in Balls : HomeY + Size < BallRow[b] /\ BallRow[b] + Size < FinishY
    /\ HomeX < PosMod /\ BallHome < PosMod /\ ScreenX < PosMod /\ FinishY < PosMod - 1

VARIABLES
    shown,          \* the map on the screen, which is also that of the walls
    sx_pos, sy_pos, \* the player's position
    mot,            \* his speed
    flag,           \* which of L, R, U, D is set
    bcing,          \* which of bcingL, bcingR, bcingU, bcingD is set
    ball,           \* the balls' columns and speeds
    bounce,         \* the wires bnceL, bnceR, bnceU, bnceD that are up
    travel          \* moves since the sprites were homed, at most 2

vars == <<shown, sx_pos, sy_pos, mot, flag, bcing, ball, bounce, travel>>

TypeOK == /\ shown \in Maps
          /\ sx_pos \in 0..PosMod-1 /\ sy_pos \in 0..PosMod-1
          /\ mot \in Dirs /\ flag \in Dirs /\ bcing \in Dirs
          /\ ball \in [Balls -> [x : 0..PosMod-1, mot : 0..PosMod-1]]
          /\ bounce \subseteq Dirs \ {"none"}
          /\ travel \in 0..2

-----------------------------------------------------------------------------
(* spritecolliding.sv: differences of twenty bits, read as unsigned. *)

Wide_Narrow(d) == d % PosMod
Wide(d)     == d % (PosMod * PosMod)
InRow(b)    == Wide(sy_pos + Size - BallRow[b]) <= 2 * Size
Hit(b)      == InRow(b) /\ Wide(sx_pos - ball[b].x) <= Size
sprite_coll == \E b \in Balls : Hit(b)

(* bouncing.sv: corners A and B above, C and D below.  The first in a wall *)
(* decides; it turns the directions that lead into it and not the others.  *)
(* An index beyond the map reads stray, which is any value.                *)
Index(y, x)      == ((y \div Tile) * Columns + x \div Tile) % Addresses
InWall(i, stray) == IF i < MapBits THEN i \in Walls[shown] ELSE stray

(* On each map but that of the menu the sprite's home is free.             *)
ASSUME HomeAssumption ==
    \A m \in Maps \ {"menu"}, y \in {HomeY, HomeY + Size}, x \in {HomeX, HomeX + Size} :
        Index(y, x) < MapBits /\ Index(y, x) \notin Walls[m]

Turn(d, stray) ==
    IF InWall(Index(sy_pos, sx_pos), stray)
    THEN IF d = "L" THEN {"R"} ELSE IF d = "U" THEN {"D"} ELSE {}
    ELSE IF InWall(Index(sy_pos, sx_pos + Size), stray)
    THEN IF d = "R" THEN {"L"} ELSE IF d = "U" THEN {"D"} ELSE {}
    ELSE IF InWall(Index(sy_pos + Size, sx_pos), stray)
    THEN IF d = "L" THEN {"R"} ELSE IF d = "D" THEN {"U"} ELSE {}
    ELSE IF InWall(Index(sy_pos + Size, sx_pos + Size), stray)
    THEN IF d = "R" THEN {"L"} ELSE IF d = "D" THEN {"U"} ELSE {}
    ELSE {}

Bounces(stray) == Turn(flag, stray) \cup Turn(bcing, stray)
coll_CU        == bounce # {}

(* The wires follow the registers at once. *)
Settle == \E stray \in BOOLEAN : bounce' = Bounces(stray)'

-----------------------------------------------------------------------------
HomeBalls == [b \in Balls |-> [x |-> BallHome, mot |-> 0]]

Init == /\ shown = "title"
        /\ sx_pos = HomeX /\ sy_pos = HomeY
        /\ mot = "none" /\ flag = "none" /\ bcing = "none"
        /\ ball = HomeBalls
        /\ bounce = {} /\ travel = 0

(* What Reset_h and inc do to the positions and speeds, and what not. *)
AtHome_KeepsY == sx_pos' = HomeX /\ sy_pos' = sy_pos /\ mot' = "none" /\ ball' = HomeBalls
AtHome == sx_pos' = HomeX /\ sy_pos' = HomeY /\ mot' = "none" /\ ball' = HomeBalls

(* Reset_h shows the title; inc leaves it, or leads to the next maze.  *)
(* With inc still high in the menu, when a key was held through the    *)
(* reset, the edge that counts the first maze homes as well.           *)
Home(next) ==
    /\ \/ next = "title"
       \/ shown = "title" /\ next \in {"menu", "maze"}
       \/ shown = "menu" /\ next = "maze"
       \/ shown = "maze" /\ next \in {"maze", "over"}
    /\ shown' = next
    /\ AtHome
    /\ travel' = 0
    /\ UNCHANGED <<flag, bcing>>
    /\ Settle

(* Enter, the end of a game, Esc; and the title screen of a counter that   *)
(* a key held through the reset has moved.                                 *)
Show(next) ==
    /\ \/ shown = "menu" /\ next = "maze"
       \/ shown = "maze" /\ next = "over"
       \/ shown = "over" /\ next = "title"
       \/ shown = "maze" /\ next \in {"menu", "title"} /\ travel = 0
    /\ shown' = next
    /\ UNCHANGED <<sx_pos, sy_pos, mot, flag, bcing, ball, travel>>
    /\ Settle

Moved_NoWrap(pos, step) == pos + step
Moved_Stops(pos, step)  == IF pos + step \in 0..PosMod-1 THEN pos + step ELSE pos
Moved(pos, step) == (pos + step) % PosMod

dX == IF mot = "L" THEN -1 ELSE IF mot = "R" THEN 1 ELSE 0
dY == IF mot = "U" THEN -1 ELSE IF mot = "D" THEN 1 ELSE 0

(* The first of bnceL, bnceR, bnceU, bnceD that is up. *)
Bounced == IF "L" \in bounce THEN "L" ELSE IF "R" \in bounce THEN "R"
           ELSE IF "U" \in bounce THEN "U" ELSE "D"

(* pokeball.sv: the second ball's step is minus the first's, in ten bits.  *)
Speed(b) == IF b = 1 THEN BallStep ELSE PosMod - BallStep

(* The positions take the old speeds; the player's new speed is that of    *)
(* the bounce, or else of the key: A, D, W, S, or any other ("none").      *)
Move(key) ==
    /\ shown \in {"menu", "maze"} \/ (shown = "over" /\ travel = 0)
    /\ sx_pos' = Moved(sx_pos, dX)
    /\ sy_pos' = Moved(sy_pos, dY)
    /\ mot'    = IF coll_CU THEN Bounced ELSE IF key # "none" THEN key ELSE mot
    /\ flag'   = IF key # "none" THEN key ELSE flag
    /\ bcing'  = IF coll_CU THEN Bounced ELSE bcing
    /\ ball'   = [b \in Balls |-> [x |-> Moved(ball[b].x, ball[b].mot), mot |-> Speed(b)]]
    /\ travel' = IF travel < 2 THEN travel + 1 ELSE 2
    /\ UNCHANGED shown
    /\ Settle

Next == \/ \E next \in Maps : Home(next) \/ Show(next)
        \/ \E key \in Dirs : Move(key)

Spec == Init /\ [][Next]_vars

(* The frame clock never stops. *)
FairSpec == Spec /\ WF_vars(\E key \in Dirs : Move(key))

-----------------------------------------------------------------------------
Touches(b) == /\ sx_pos - ball[b].x \in -Size..Size
              /\ sy_pos - BallRow[b] \in -Size..Size

\* A ball that is reported to hit the player touches him: no difference of
\* positions that is negative, or has wrapped, is taken for a small one.
HitsAreReal ==
    \A b \in Balls : Hit(b) => Touches(b)

\* Nobody on the screen stays in the row of a ball and is never hit by it: the
\* balls cross the screen again and again, through the wrap of their column,
\* and no frame carries one past the player unseen, whichever way he runs.
RowIsSwept ==
    \A b \in Balls :
        LET Exposed == InRow(b) /\ sx_pos \in BallStep..ScreenX /\ shown \in {"menu", "maze"}
        IN  Exposed ~> (Hit(b) \/ ~Exposed)

\* The report (ECE 385 Final Lab Report, page 29) of sprite_colli: while spr_on
\* is high it checks whether the player overlaps either ball, and then raises
\* sprite_coll.
OverlapIsSeen ==
    shown = "maze" /\ (\E b \in Balls : Touches(b)) => sprite_coll

(* What the FSM sees of a position. *)
Place == IF sy_pos > FinishY THEN "exit" ELSE IF sprite_coll THEN "ball" ELSE "clear"

A == INSTANCE Arena WITH place <- Place, wall <- coll_CU

\* The arena in which MazeControl plays is what the sprites make of it: the
\* player is in the clear and off the walls until he has moved twice, also
\* after a menu that left his flags set; no single move takes him from a ball
\* past the finish line, or back, or through the wrap at the top of the screen
\* to anything but the finish.
ArenaSpec == A!ArenaInit /\ [][A!ArenaNext(shown, shown')]_<<travel, Place, coll_CU>>
=============================================================================
