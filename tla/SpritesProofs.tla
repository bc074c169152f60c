---------------------------- MODULE SpritesProofs ----------------------------
(***************************************************************************)
(* Theorems about the sprites, for every size of screen and sprite, every    *)
(* maze and every width of a position that PlaceAssumption admits. They rest *)
(* on what the unsigned differences are before they wrap, and on the first    *)
(* move after homing, which only loads the speeds.                           *)
(***************************************************************************)
EXTENDS Sprites, TLAPS

\* The square of a number of three or more is three times as much or more.
LEMMA SquareIs == ASSUME NEW n \in Nat, n >= 3 PROVE n * n >= 3 * n /\ n * n \in Nat
<1>1. PICK k \in Nat : k = n - 3
  OBVIOUS
<1>2. n * k >= 0
  BY <1>1
<1>3. n * n = n * k + 3 * n
  BY <1>1
<1> QED BY <1>2, <1>3

\* What the assumptions say of the numbers.
LEMMA Sizes ==
    /\ PosMod \in Nat /\ PosMod >= 3 /\ Size \in Nat /\ 2 * Size < PosMod
    /\ BallStep \in Nat /\ 1 <= BallStep /\ BallStep <= Size
    /\ HomeX \in Nat /\ HomeX < PosMod /\ HomeY \in Nat /\ BallHome \in Nat /\ BallHome < PosMod
    /\ FinishY \in Nat /\ FinishY < PosMod - 1 /\ HomeY < FinishY
  BY SizeAssumption, PlaceAssumption DEF SizeAssumption, PlaceAssumption, Balls

LEMMA Rows ==
    ASSUME NEW b \in Balls
    PROVE  BallRow[b] \in Nat /\ HomeY + Size < BallRow[b] /\ BallRow[b] + Size < FinishY
  BY SizeAssumption, PlaceAssumption DEF SizeAssumption, PlaceAssumption

USE Sizes

Pos == 0..PosMod-1

(* Until the player has moved twice he is where he was homed. *)
HomeInv ==
    /\ travel < 2 => sx_pos = HomeX /\ sy_pos = HomeY
    /\ travel = 0 => mot = "none"

(* The wires are what the registers make of them. *)
WireInv == \E stray \in BOOLEAN : bounce = Bounces(stray)

IInv == TypeOK /\ HomeInv /\ WireInv

-----------------------------------------------------------------------------
\* Within a turn above and a turn below, % adds or takes off one modulus.
LEMMA ModTurn ==
    ASSUME NEW b \in Nat \ {0}, NEW x \in Int, -b <= x, x < 2 * b
    PROVE  x % b = IF x < 0 THEN x + b ELSE IF x < b THEN x ELSE x - b
<1>1. x \div b \in Int /\ x % b \in 0..b-1 /\ x = b * (x \div b) + (x % b)
  OBVIOUS
<1>2. PICK q \in Int, r \in 0..b-1 : r = x % b /\ x = b * q + r
  BY <1>1
<1>3. (q >= 2 => b * q >= 2 * b) /\ (q <= -2 => b * q <= -2 * b)
  OBVIOUS
<1>4. q \in {-1, 0, 1}
  BY <1>2, <1>3
<1>5. r = IF x < 0 THEN x + b ELSE IF x < b THEN x ELSE x - b
  BY <1>2, <1>4
<1> QED BY <1>2, <1>5

\* A difference below the square of the positions' range reads as itself, or,
\* when it is negative, as more than any size.
LEMMA WideIs ==
    ASSUME NEW d \in Int, -PosMod <= d, d < 2 * PosMod
    PROVE  Wide(d) = IF d < 0 THEN d + PosMod * PosMod ELSE d
<1>1. PICK m \in Nat \ {0} : m = PosMod * PosMod /\ 3 * PosMod <= m
  BY PosMod >= 3, SquareIs
<1>2. d % m = IF d < 0 THEN d + m ELSE IF d < m THEN d ELSE d - m
  <2>1. -m <= d /\ d < 2 * m
    BY <1>1
  <2> QED BY <1>1, <2>1, ModTurn
<1>3. d < m
  BY <1>1
<1> QED BY <1>1, <1>2, <1>3 DEF Wide

\* It is small only if it is not negative.
LEMMA SmallIs ==
    ASSUME NEW d \in Int, -PosMod <= d, d < 2 * PosMod, NEW k \in 0..PosMod
    PROVE  Wide(d) <= k <=> 0 <= d /\ d <= k
<1>1. PosMod * PosMod >= 3 * PosMod /\ PosMod * PosMod \in Nat
  BY PosMod >= 3, SquareIs
<1>2. PICK m \in Nat : m = PosMod * PosMod /\ m >= 3 * PosMod
  BY <1>1
<1>3. Wide(d) = IF d < 0 THEN d + m ELSE d
  BY <1>2, WideIs
<1> QED BY <1>2, <1>3

\* A player is in the row of a ball when he overlaps it.
RowFact ==
    \A b \in Balls : sy_pos \in Pos =>
        (InRow(b) <=> BallRow[b] - Size <= sy_pos /\ sy_pos <= BallRow[b] + Size)
LEMMA InRowIs == RowFact
<1> SUFFICES ASSUME sy_pos \in Pos, NEW b \in Balls
             PROVE  InRow(b) <=> BallRow[b] - Size <= sy_pos /\ sy_pos <= BallRow[b] + Size
  BY DEF RowFact
<1>1. BallRow[b] \in Nat /\ HomeY + Size < BallRow[b] /\ BallRow[b] + Size < FinishY
  BY Rows
<1>2. PICK d \in Int : d = sy_pos + Size - BallRow[b] /\ -PosMod <= d /\ d < 2 * PosMod
  BY <1>1 DEF Pos
<1>3. PICK k \in 0..PosMod : k = 2 * Size
  OBVIOUS
<1>4. Wide(d) <= k <=> 0 <= d /\ d <= k
  BY <1>2, <1>3, SmallIs
<1> QED BY <1>1, <1>2, <1>3, <1>4 DEF InRow, Pos

\* A ball is seen when its column is at most a sprite's size to the left.
LEMMA HitIs ==
    ASSUME sx_pos \in Pos, sy_pos \in Pos, NEW b \in Balls, ball[b].x \in Pos
    PROVE  Hit(b) <=> InRow(b) /\ 0 <= sx_pos - ball[b].x /\ sx_pos - ball[b].x <= Size
<1>1. PICK d \in Int : d = sx_pos - ball[b].x /\ -PosMod <= d /\ d < 2 * PosMod
  BY DEF Pos
<1>2. Wide(d) <= Size <=> 0 <= d /\ d <= Size
  BY <1>1, Size \in 0..PosMod, SmallIs
<1> QED BY <1>1, <1>2 DEF Hit

\* A position wraps.
LEMMA MovedIs ==
    ASSUME NEW p \in Pos, NEW k \in Int, -PosMod <= k, k <= PosMod
    PROVE  /\ Moved(p, k) \in Pos
           /\ Moved(p, k) = IF p + k < 0 THEN p + k + PosMod
                            ELSE IF p + k < PosMod THEN p + k ELSE p + k - PosMod
<1>1. PICK x \in Int : x = p + k /\ -PosMod <= x /\ x < 2 * PosMod
  BY DEF Pos
<1>2. x % PosMod = IF x < 0 THEN x + PosMod ELSE IF x < PosMod THEN x ELSE x - PosMod
  BY <1>1, ModTurn
<1> QED BY <1>1, <1>2 DEF Moved, Pos

\* The home of the sprites is free, but on the menu.
FreeFact ==
    sx_pos = HomeX /\ sy_pos = HomeY /\ shown \in Maps \ {"menu"} =>
        \A stray \in BOOLEAN : Bounces(stray) = {}
LEMMA HomeFree == FreeFact
<1> SUFFICES ASSUME sx_pos = HomeX, sy_pos = HomeY, shown \in Maps \ {"menu"}, NEW stray \in BOOLEAN
             PROVE  Bounces(stray) = {}
  BY DEF FreeFact
<1>1. ASSUME NEW y \in {HomeY, HomeY + Size}, NEW x \in {HomeX, HomeX + Size}
      PROVE  ~InWall(Index(y, x), stray)
  BY HomeAssumption DEF InWall
<1>2. /\ ~InWall(Index(sy_pos, sx_pos), stray) /\ ~InWall(Index(sy_pos, sx_pos + Size), stray)
      /\ ~InWall(Index(sy_pos + Size, sx_pos), stray)
      /\ ~InWall(Index(sy_pos + Size, sx_pos + Size), stray)
  BY <1>1
<1>3. ASSUME NEW d PROVE Turn(d, stray) = {}
  BY <1>2 DEF Turn
<1> QED BY <1>3 DEF Bounces

\* Bounces are directions.
BounceFact == \A stray \in BOOLEAN : Bounces(stray) \subseteq Dirs \ {"none"}
LEMMA BouncesAre == BounceFact
<1>1. ASSUME NEW d, NEW stray PROVE Turn(d, stray) \subseteq Dirs \ {"none"}
  BY DEF Turn, Dirs
<1> QED BY <1>1 DEF Bounces, BounceFact

-----------------------------------------------------------------------------
LEMMA InitInv == Init => IInv
<1> SUFFICES ASSUME Init PROVE IInv
  OBVIOUS
<1>1. TypeOK
  <2>1. ball \in [Balls -> [x : 0..PosMod-1, mot : 0..PosMod-1]]
    BY DEF Init, HomeBalls
  <2> QED BY <2>1 DEF Init, TypeOK, Maps, Dirs
<1>2. HomeInv
  BY DEF Init, HomeInv
<1>3. WireInv
  BY HomeFree DEF Init, WireInv, FreeFact, Maps
<1> QED BY <1>1, <1>2, <1>3 DEF IInv

\* The wires follow.
LEMMA SettleInv == ASSUME Settle PROVE WireInv' /\ bounce' \subseteq Dirs \ {"none"}
<1>1. WireInv'
  BY DEF Settle, WireInv
<1>2. BounceFact'
  BY BouncesAre, PTL
<1> QED BY <1>1, <1>2 DEF Settle, BounceFact

\* Homing puts the sprites where they start, and stops them.
LEMMA HomeStep == ASSUME IInv, NEW next \in Maps, Home(next) PROVE IInv'
<1>1. /\ sx_pos' = HomeX /\ sy_pos' = HomeY /\ mot' = "none" /\ ball' = HomeBalls
      /\ travel' = 0 /\ shown' = next /\ UNCHANGED <<flag, bcing>> /\ Settle
  BY DEF Home, AtHome
<1>2. ball' \in [Balls -> [x : 0..PosMod-1, mot : 0..PosMod-1]]
  BY <1>1 DEF HomeBalls
<1>3. TypeOK'
  BY <1>1, <1>2, SettleInv DEF IInv, TypeOK, Dirs
<1>4. HomeInv'
  BY <1>1 DEF HomeInv
<1> QED BY <1>1, <1>3, <1>4, SettleInv DEF IInv

\* Another map moves nothing.
LEMMA ShowStep == ASSUME IInv, NEW next \in Maps, Show(next) PROVE IInv'
<1>1. /\ shown' = next /\ UNCHANGED <<sx_pos, sy_pos, mot, flag, bcing, ball, travel>> /\ Settle
  BY DEF Show
<1>2. TypeOK'
  BY <1>1, SettleInv DEF IInv, TypeOK
<1>3. HomeInv'
  BY <1>1 DEF IInv, HomeInv
<1> QED BY <1>1, <1>2, <1>3, SettleInv DEF IInv

\* The player's step is a pixel.
LEMMA StepIs == dX \in {-1, 0, 1} /\ dY \in {-1, 0, 1} /\ (mot = "none" => dX = 0 /\ dY = 0)
  BY DEF dX, dY

\* A move, or the loading of the speeds.
LEMMA MoveStep == ASSUME IInv, NEW key \in Dirs, Move(key) PROVE IInv'
<1>1. /\ sx_pos' = Moved(sx_pos, dX) /\ sy_pos' = Moved(sy_pos, dY)
      /\ travel' = (IF travel < 2 THEN travel + 1 ELSE 2) /\ shown' = shown /\ Settle
      /\ ball' = [b \in Balls |-> [x |-> Moved(ball[b].x, ball[b].mot), mot |-> Speed(b)]]
      /\ mot' \in {Bounced, key, mot} /\ flag' \in {key, flag} /\ bcing' \in {Bounced, bcing}
  BY DEF Move
<1>2. sx_pos \in Pos /\ sy_pos \in Pos /\ travel \in 0..2
  BY DEF IInv, TypeOK, Pos
<1>3. sx_pos' \in Pos /\ sy_pos' \in Pos
  <2>1. Moved(sx_pos, dX) \in Pos
    BY <1>2, StepIs, MovedIs, -PosMod <= dX, dX <= PosMod, dX \in Int
  <2>2. Moved(sy_pos, dY) \in Pos
    BY <1>2, StepIs, MovedIs, -PosMod <= dY, dY <= PosMod, dY \in Int
  <2> QED BY <1>1, <2>1, <2>2
<1>4. ball' \in [Balls -> [x : 0..PosMod-1, mot : 0..PosMod-1]]
  <2>1. ASSUME NEW b \in Balls PROVE Moved(ball[b].x, ball[b].mot) \in Pos /\ Speed(b) \in Pos
    <3>1. ball[b].x \in Pos /\ ball[b].mot \in Pos
      BY DEF IInv, TypeOK, Pos
    <3>2. PICK x \in Pos, k \in Int : x = ball[b].x /\ k = ball[b].mot /\ -PosMod <= k /\ k <= PosMod
      BY <3>1 DEF Pos
    <3>3. Moved(x, k) \in Pos
      BY <3>2, MovedIs
    <3>4. Speed(b) \in Pos
      BY DEF Speed, Pos
    <3> QED BY <3>2, <3>3, <3>4
  <2> QED BY <1>1, <2>1 DEF Pos
<1>5. mot' \in Dirs /\ flag' \in Dirs /\ bcing' \in Dirs
  BY <1>1 DEF IInv, TypeOK, Bounced, Dirs
<1>6. TypeOK'
  <2>1. travel' \in 0..2 /\ shown' \in Maps
    BY <1>1, <1>2 DEF IInv, TypeOK
  <2> QED BY <1>1, <1>3, <1>4, <1>5, <2>1, SettleInv DEF TypeOK, Pos
<1>7. HomeInv'
  <2>1. SUFFICES ASSUME travel' < 2 PROVE HomeInv'
    BY <1>1, <1>2 DEF HomeInv
  <2>2. travel = 0 /\ travel' = 1
    BY <2>1, <1>1, <1>2
  <2>3. sx_pos = HomeX /\ sy_pos = HomeY /\ dX = 0 /\ dY = 0
    BY <2>2, StepIs DEF IInv, HomeInv
  <2>4. Moved(sx_pos, dX) = sx_pos /\ Moved(sy_pos, dY) = sy_pos
    <3>1. ASSUME NEW p \in Pos PROVE Moved(p, 0) = p
      <4>1. Moved(p, 0) = IF p + 0 < 0 THEN p + 0 + PosMod
                          ELSE IF p + 0 < PosMod THEN p + 0 ELSE p + 0 - PosMod
        BY MovedIs
      <4> QED BY <4>1 DEF Pos
    <3> QED BY <3>1, <2>3, <1>2
  <2> QED BY <2>2, <2>3, <2>4, <1>1 DEF HomeInv
<1> QED BY <1>1, <1>6, <1>7, SettleInv DEF IInv

\* Every step keeps the invariant.
LEMMA NextInv == ASSUME IInv, [Next]_vars PROVE IInv'
<1>1. CASE Next
  BY <1>1, HomeStep, ShowStep, MoveStep DEF Next
<1>2. CASE UNCHANGED vars
  BY <1>2 DEF vars, IInv, TypeOK, HomeInv, WireInv, Bounces, Turn, InWall
<1> QED BY <1>1, <1>2

\* The invariant holds for ever.
LEMMA Inductive == Spec => []IInv
<1>1. Init => IInv
  BY InitInv
<1>2. IInv /\ [Next]_vars => IInv'
  BY NextInv
<1> QED BY <1>1, <1>2, PTL DEF Spec

\* Positions, speeds and flags keep their ranges, through every wrap.
THEOREM TypeCorrect == Spec => []TypeOK
<1>1. IInv => TypeOK
  BY DEF IInv
<1> QED BY <1>1, Inductive, PTL

\* No unsigned difference that is negative or has wrapped is taken for a hit.
THEOREM RealHits == Spec => []HitsAreReal
<1>1. ASSUME IInv PROVE HitsAreReal
  <2>1. ASSUME NEW b \in Balls, Hit(b) PROVE Touches(b)
    <3>1. sx_pos \in Pos /\ sy_pos \in Pos /\ ball[b].x \in Pos
      BY <1>1 DEF IInv, TypeOK, Pos
    <3>2. InRow(b) /\ 0 <= sx_pos - ball[b].x /\ sx_pos - ball[b].x <= Size
      BY <3>1, <2>1, HitIs
    <3>3. BallRow[b] - Size <= sy_pos /\ sy_pos <= BallRow[b] + Size /\ BallRow[b] \in Nat
      BY <3>1, <3>2, InRowIs, Rows DEF RowFact
    <3> QED BY <3>1, <3>2, <3>3 DEF Touches, Pos
  <2> QED BY <2>1 DEF HitsAreReal
<1> QED BY <1>1, Inductive, PTL

-----------------------------------------------------------------------------
\* What a row says of the place: below the finish line, in the row of a ball,
\* or neither, as at home.
Beside(y, b) == BallRow[b] - Size <= y /\ y <= BallRow[b] + Size
PlaceFact ==
    sy_pos \in Pos =>
        /\ Place \in {"clear", "ball", "exit"}
        /\ Place = "exit" <=> sy_pos > FinishY
        /\ Place = "ball" => \E b \in Balls : Beside(sy_pos, b)
        /\ sy_pos = HomeY => Place = "clear"
LEMMA PlaceIs == PlaceFact
<1> SUFFICES ASSUME sy_pos \in Pos PROVE
        /\ Place \in {"clear", "ball", "exit"}
        /\ Place = "exit" <=> sy_pos > FinishY
        /\ Place = "ball" => \E b \in Balls : Beside(sy_pos, b)
        /\ sy_pos = HomeY => Place = "clear"
  BY DEF PlaceFact
<1>1. sprite_coll => \E b \in Balls : Beside(sy_pos, b)
  BY InRowIs DEF sprite_coll, Hit, RowFact, Beside
<1>2. \A b \in Balls : ~Beside(HomeY, b)
  BY Rows DEF Beside
<1>3. Place \in {"clear", "ball", "exit"} /\ (Place = "exit" <=> sy_pos > FinishY)
  BY DEF Place
<1>4. Place = "ball" => sprite_coll
  BY DEF Place
<1>5. ASSUME sy_pos = HomeY PROVE Place = "clear"
  BY <1>1, <1>2, <1>5 DEF Place
<1> QED BY <1>1, <1>3, <1>4, <1>5

\* One pixel up or down, through the wrap at the top, does not lead from a ball
\* past the finish line, or back.
LEMMA NoShortcut ==
    ASSUME NEW y \in Pos, NEW k \in {-1, 0, 1}, NEW b \in Balls
    PROVE  /\ Beside(y, b) => ~(Moved(y, k) > FinishY)
           /\ y > FinishY => ~Beside(Moved(y, k), b)
<1>1. /\ BallRow[b] \in Nat /\ HomeY + Size < BallRow[b] /\ BallRow[b] + Size < FinishY
  BY Rows
<1>2. Moved(y, k) = IF y + k < 0 THEN y + k + PosMod
                    ELSE IF y + k < PosMod THEN y + k ELSE y + k - PosMod
  BY MovedIs, k \in Int, -PosMod <= k, k <= PosMod
<1> QED BY <1>1, <1>2 DEF Beside, Pos

\* Every step of the sprites is one of the arena's.
LEMMA ArenaMove ==
    ASSUME IInv, IInv', NEW key \in Dirs, Move(key) PROVE A!ArenaStep(FALSE, TRUE, shown, shown')
<1>1. /\ travel \in 0..2 /\ sy_pos \in Pos /\ sy_pos' \in Pos /\ shown' = shown /\ shown \in Maps
      /\ travel' = (IF travel < 2 THEN travel + 1 ELSE 2) /\ sy_pos' = Moved(sy_pos, dY)
  BY DEF IInv, TypeOK, Pos, Move
<1>2. PlaceFact /\ PlaceFact' /\ FreeFact'
  BY PlaceIs, HomeFree, PTL
<1>3. travel' = IF travel < 2 THEN travel + 1 ELSE travel
  BY <1>1
<1>4. CASE travel' < 2
  <2>1. sx_pos' = HomeX /\ sy_pos' = HomeY
    BY <1>4 DEF IInv, HomeInv
  <2>2. Place' = "clear"
    BY <1>1, <1>2, <2>1 DEF PlaceFact
  <2>3. shown' # "menu" => ~coll_CU'
    BY <1>1, <1>2, <2>1 DEF FreeFact, IInv, WireInv, coll_CU
  <2>4. coll_CU' \in BOOLEAN
    BY DEF coll_CU
  <2>5. coll_CU' \in IF travel' < 2 /\ shown' # "menu" THEN {FALSE} ELSE BOOLEAN
    BY <2>3, <2>4, Zenon
  <2> QED BY <1>3, <1>4, <2>2, <2>5 DEF A!ArenaStep
<1>5. CASE ~(travel' < 2)
  <2>1. Place' \in A!Reachable(Place)
    <3>1. Place = "ball" => Place' # "exit"
      <4>1. SUFFICES ASSUME Place = "ball" PROVE Place' # "exit"
        OBVIOUS
      <4>2. PICK b \in Balls : Beside(sy_pos, b)
        BY <4>1, <1>1, <1>2 DEF PlaceFact
      <4>3. ~(sy_pos' > FinishY)
        BY <4>2, <1>1, StepIs, NoShortcut
      <4> QED BY <4>3, <1>1, <1>2 DEF PlaceFact
    <3>2. Place = "exit" => Place' # "ball"
      <4>1. SUFFICES ASSUME Place = "exit", Place' = "ball" PROVE FALSE
        OBVIOUS
      <4>2. sy_pos > FinishY
        BY <4>1, <1>1, <1>2 DEF PlaceFact
      <4>3. PICK b \in Balls : Beside(sy_pos', b)
        BY <4>1, <1>1, <1>2 DEF PlaceFact
      <4> QED BY <4>2, <4>3, <1>1, StepIs, NoShortcut
    <3>3. Place \in {"clear", "ball", "exit"} /\ Place' \in {"clear", "ball", "exit"}
      BY <1>1, <1>2 DEF PlaceFact
    <3> QED BY <3>1, <3>2, <3>3 DEF A!Reachable
  <2>2. coll_CU' \in BOOLEAN
    BY DEF coll_CU
  <2> QED BY <1>3, <1>5, <2>1, <2>2 DEF A!ArenaStep
<1> QED BY <1>4, <1>5

LEMMA ArenaHome ==
    ASSUME IInv, IInv', NEW next \in Maps, Home(next) PROVE A!ArenaStep(TRUE, FALSE, shown, shown')
<1>1. /\ sx_pos' = HomeX /\ sy_pos' = HomeY /\ travel' = 0 /\ shown' \in Maps /\ sy_pos' \in Pos
  BY DEF Home, AtHome, IInv, TypeOK, Pos
<1>2. PlaceFact' /\ FreeFact'
  BY PlaceIs, HomeFree, PTL
<1>3. Place' = "clear"
  BY <1>1, <1>2 DEF PlaceFact
<1>4. shown' # "menu" => ~coll_CU'
  BY <1>1, <1>2 DEF FreeFact, IInv, WireInv, coll_CU
<1>5. coll_CU' \in BOOLEAN
  BY DEF coll_CU
<1>6. travel' < 2
  BY <1>1
<1>7. coll_CU' \in IF travel' < 2 /\ shown' # "menu" THEN {FALSE} ELSE BOOLEAN
  BY <1>4, <1>5, Zenon
<1> QED BY <1>1, <1>3, <1>6, <1>7 DEF A!ArenaStep

LEMMA ArenaShow ==
    ASSUME IInv, IInv', NEW next \in Maps, Show(next) PROVE A!ArenaStep(FALSE, FALSE, shown, shown')
<1>1. /\ UNCHANGED <<sx_pos, sy_pos, ball, travel>> /\ shown' # shown /\ shown' \in Maps
      /\ travel \in 0..2 /\ sy_pos \in Pos
  BY DEF Show, IInv, TypeOK, Pos
<1>2. PlaceFact' /\ FreeFact'
  BY PlaceIs, HomeFree, PTL
<1>3. Place' = Place
  BY <1>1 DEF Place, sprite_coll, Hit, InRow
<1>4. CASE travel < 2
  <2>1. sx_pos' = HomeX /\ sy_pos' = HomeY
    BY <1>1, <1>4 DEF IInv, HomeInv
  <2>2. Place' = "clear"
    BY <1>1, <1>2, <2>1 DEF PlaceFact
  <2>3. shown' # "menu" => ~coll_CU'
    BY <1>1, <1>2, <2>1 DEF FreeFact, IInv, WireInv, coll_CU
  <2>4. coll_CU' \in BOOLEAN
    BY DEF coll_CU
  <2> QED BY <1>1, <1>4, <2>2, <2>3, <2>4 DEF A!ArenaStep
<1>5. CASE ~(travel < 2)
  <2>1. coll_CU' \in BOOLEAN
    BY DEF coll_CU
  <2> QED BY <1>1, <1>3, <1>5, <2>1 DEF A!ArenaStep
<1> QED BY <1>4, <1>5

\* The sprites implement the arena in which MazeControl plays, in every maze
\* whose home is free.
THEOREM Implements == Spec => ArenaSpec
<1>1. Init => A!ArenaInit
  <2>1. SUFFICES ASSUME Init PROVE A!ArenaInit
    OBVIOUS
  <2>2. travel = 0 /\ sy_pos = HomeY /\ sy_pos \in Pos
    BY <2>1 DEF Init, Pos
  <2>3. coll_CU = FALSE
    BY <2>1 DEF Init, coll_CU
  <2> QED BY <2>2, <2>3, PlaceIs DEF PlaceFact, A!ArenaInit
<1>2. IInv /\ IInv' /\ [Next]_vars => [A!ArenaNext(shown, shown')]_<<travel, Place, coll_CU>>
  <2>1. SUFFICES ASSUME IInv, IInv', [Next]_vars
                 PROVE  A!ArenaNext(shown, shown') \/ UNCHANGED <<travel, Place, coll_CU>>
    OBVIOUS
  <2>2. CASE Next
    BY <2>1, <2>2, ArenaHome, ArenaShow, ArenaMove DEF Next, A!ArenaNext
  <2>3. CASE UNCHANGED vars
    BY <2>3 DEF vars, Place, coll_CU, sprite_coll, Hit, InRow
  <2> QED BY <2>1, <2>2, <2>3
<1> QED BY <1>1, <1>2, Inductive, PTL DEF Spec, ArenaSpec
=============================================================================
