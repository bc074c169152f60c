----------------------------- MODULE MazeProofs -----------------------------
(***************************************************************************)
(* Proofs about the game's control, for every number of mazes and every    *)
(* width of the counters.  LevelInv is the inductive invariant: it follows *)
(* the one increment that may be on its way to the counter through inc.    *)
(***************************************************************************)
EXTENDS MazeHistory, TLAPS

-----------------------------------------------------------------------------
(* Remainders by a number that is not known. *)

\* Quotient and remainder.
LEMMA DivMod ==
    ASSUME NEW b \in Nat \ {0}, NEW x \in Int
    PROVE  x \div b \in Int /\ x % b \in 0..b-1 /\ x = b * (x \div b) + (x % b)
  OBVIOUS

\* A remainder is unique.
LEMMA ModUnique ==
    ASSUME NEW b \in Nat \ {0}, NEW q \in Int, NEW k \in Int,
           NEW r \in 0..b-1, NEW s \in 0..b-1, b * q + r = b * k + s
    PROVE  r = s
<1>1. b * (q - k) = s - r
  OBVIOUS
<1>2. CASE q - k >= 1
  <2>1. b * (q - k) >= b
    BY <1>2
  <2> QED BY <2>1, <1>1
<1>3. CASE q - k <= -1
  <2>1. b * (q - k) <= -b
    BY <1>3
  <2> QED BY <2>1, <1>1
<1>4. CASE q = k
  BY <1>4
<1> QED BY <1>2, <1>3, <1>4

\* What is a multiple and a bit leaves the bit.
LEMMA ModIs ==
    ASSUME NEW b \in Nat \ {0}, NEW k \in Int, NEW s \in 0..b-1
    PROVE  (b * k + s) % b = s
<1>1. b * k + s \in Int
  OBVIOUS
<1> QED BY <1>1, DivMod, ModUnique

\* A remainder may be taken before something is added.
LEMMA ModAdd ==
    ASSUME NEW b \in Nat \ {0}, NEW x \in Int, NEW k \in Int
    PROVE  ((x % b) + k) % b = (x + k) % b
<1>1. PICK r \in 0..b-1, q \in Int : r = x % b /\ x = b * q + r
  BY DivMod
<1>2. PICK s \in 0..b-1, p \in Int : s = (r + k) % b /\ r + k = b * p + s
  <2>1. r + k \in Int
    OBVIOUS
  <2> QED BY <2>1, DivMod
<1>3. x + k = b * (q + p) + s
  <2>1. PICK u \in Int, v \in Int : u = b * q /\ v = b * p
    OBVIOUS
  <2>2. b * (q + p) = u + v
    BY <2>1
  <2>3. x = u + r /\ r + k = v + s
    BY <1>1, <1>2, <2>1
  <2> QED BY <2>2, <2>3
<1>4. (b * (q + p) + s) % b = s
  BY ModIs
<1> QED BY <1>1, <1>2, <1>3, <1>4

\* A multiple of a multiple leaves nothing.
LEMMA ModMultiple ==
    ASSUME NEW b \in Nat \ {0}, NEW m \in Nat, m % b = 0, NEW k \in Int
    PROVE  (k * m) % b = 0
<1>1. PICK q \in Int : m = b * q
  <2>1. PICK q \in Int, r \in 0..b-1 : r = m % b /\ m = b * q + r
    BY m \in Int, DivMod
  <2> QED BY <2>1
<1>2. k * m = b * (k * q) + 0
  BY <1>1
<1>3. (b * (k * q) + 0) % b = 0
  BY k * q \in Int, ModIs
<1> QED BY <1>2, <1>3

-----------------------------------------------------------------------------

\* What the FSM's state says about the level and the pending increment.  The
\* title screen and the first state after it still see 0 or 1: a reset may
\* leave one increment behind in inc, which is why the menu and the first
\* maze may start at 2 and never above.
LevelInv ==
    /\ H_STATE => count <= 1 /\ (inc => count = 0)
    /\ menu_screen => count <= 2 /\ (inc => count <= 1)
    /\ curr_State = "games" => count <= LastLevel + 1 /\ (inc => count <= 1)
    /\ curr_State \in Scoring \cup {"done"} => count <= LastLevel + 1 /\ ~inc
    /\ curr_State = "increment1" => count <= LastLevel /\ ~inc
    /\ curr_State = "increment2" => count <= LastLevel /\ inc

USE KeysAssumption, LevelAssumption, ScoreAssumption, FrameAssumption
    DEF KeysAssumption, LevelAssumption, ScoreAssumption, FrameAssumption

\* The next state of the game machine is one of its states.
LEMMA GotoType ==
    ASSUME TypeOK PROVE goto_state \in {"HALT", "menu", "done"} \cup InPlay
  BY DEF TypeOK, goto_state, InPlay, Scoring, Advancing, H_STATE, menu_screen, E_STATE

\* The next choices of sprites are choices.
LEMMA ChoiceType ==
    ASSUME TypeOK
    PROVE  /\ nextstate \in {"choose", "pokemona", "pokemonb", "pokemonc"}
           /\ nextstate_ \in {"choose_", "pokeballa", "pokeballb", "pokeballc", "pokeballd"}
<1>1. \A k \in {13, 14, 15} : PokemonKey[k] \in {"pokemona", "pokemonb", "pokemonc"}
  BY DEF PokemonKey
<1>2. \A k \in {6, 25, 5, 17} :
          PokeballKey[k] \in {"pokeballa", "pokeballb", "pokeballc", "pokeballd"}
  BY DEF PokeballKey
<1>3. DOMAIN PokemonKey = {13, 14, 15} /\ DOMAIN PokeballKey = {6, 25, 5, 17}
  BY DEF PokemonKey, PokeballKey
<1> QED
  BY <1>1, <1>2, <1>3 DEF TypeOK, nextstate, nextstate_

\* Type correctness of the registers.
THEOREM TypeCorrect == HSpec => []HTypeOK
<1>1. HInit => HTypeOK
  <2> SUFFICES ASSUME HInit PROVE HTypeOK
    OBVIOUS
  <2> USE DEF HInit, Init, ArenaInit
  <2>1. keycode \in Keys /\ ones \in 0..OnesWrap /\ gap \in 0..FrameGap
    OBVIOUS
  <2>2. count \in 0..CountMod-1 /\ bounce \in 0..BounceMod-1 /\ tens \in 0..TensMod-1
    OBVIOUS
  <2>3. /\ Reset_h \in BOOLEAN /\ inc \in BOOLEAN /\ clr \in BOOLEAN
        /\ score_CU \in BOOLEAN /\ wall \in BOOLEAN
        /\ clean \in BOOLEAN /\ patient \in BOOLEAN
    OBVIOUS
  <2>4. /\ curr_State \in {"HALT", "menu", "done"} \cup InPlay
        /\ pokemon = "choose" /\ pokeball = "choose_" /\ place = "clear"
    OBVIOUS
  <2>5. travel \in 0..2 /\ rising \in 0..2 /\ exits \in Nat /\ moved \in 0..2
        /\ titleFrames \in 0..2
    OBVIOUS
  <2> QED
    BY <2>1, <2>2, <2>3, <2>4, <2>5 DEF HTypeOK, TypeOK
<1>2. HTypeOK /\ [HNext]_hvars => HTypeOK'
  <2> SUFFICES ASSUME HTypeOK, [HNext]_hvars PROVE HTypeOK'
    OBVIOUS
  <2> USE DEF HTypeOK
  <2>1. CASE \E button \in BOOLEAN : HClkEdge(button)
    <3> PICK button \in BOOLEAN : HClkEdge(button)
      BY <2>1
    <3>1. inc' \in BOOLEAN /\ Reset_h' \in BOOLEAN /\ clean' \in BOOLEAN /\ patient' \in BOOLEAN
      BY DEF HClkEdge, ClkEdge, FSM, inc_i, TypeOK
    <3>2. /\ curr_State' \in {"HALT", "menu", "done"} \cup InPlay
          /\ pokemon' \in {"choose", "pokemona", "pokemonb", "pokemonc"}
          /\ pokeball' \in {"choose_", "pokeballa", "pokeballb", "pokeballc", "pokeballd"}
      BY GotoType, ChoiceType DEF HClkEdge, ClkEdge, FSM
    <3>3. count' \in 0..CountMod-1
      BY DEF HClkEdge, ClkEdge, Counter, TypeOK
    <3>4. travel' \in 0..2 /\ place' \in {"clear", "ball", "exit"} /\ wall' \in BOOLEAN
      <4>1. Sprites
        BY DEF HClkEdge, ClkEdge
      <4>2. travel' \in 0..2
        BY <4>1 DEF Sprites, ArenaStep, TypeOK
      <4>3. Reachable(place) \subseteq {"clear", "ball", "exit"}
        BY DEF Reachable, TypeOK
      <4>4. place' \in {"clear", "ball", "exit"}
        BY <4>1, <4>3 DEF Sprites, ArenaStep, TypeOK
      <4>5. wall' \in BOOLEAN
        BY <4>1 DEF Sprites, ArenaStep, TypeOK
      <4> QED
        BY <4>2, <4>4, <4>5
    <3>5. rising' \in 0..2 /\ gap' \in 0..FrameGap
      BY DEF HClkEdge, ClkEdge, FrameTiming, TypeOK
    <3>6. exits' \in Nat /\ moved' \in 0..2 /\ titleFrames' \in 0..2
      BY DEF HClkEdge
    <3>7. UNCHANGED <<keycode, scoreVars>>
      BY DEF HClkEdge, ClkEdge
    <3> QED
      BY <3>1, <3>2, <3>3, <3>4, <3>5, <3>6, <3>7 DEF TypeOK, scoreVars
  <2>2. CASE HFrameEdge
    <3>1. bounce' \in 0..BounceMod-1 /\ ones' \in 0..OnesWrap /\ tens' \in 0..TensMod-1
      <4>1. (bounce + 1) % BounceMod \in 0..BounceMod-1
        BY bounce + 1 \in Int, DivMod DEF TypeOK
      <4>2. (tens + 3) % TensMod \in 0..TensMod-1
        BY tens + 3 \in Int, DivMod DEF TypeOK
      <4>3. ones \in 0..OnesWrap /\ ScoreTrack
        BY <2>2 DEF HFrameEdge, FrameEdge, TypeOK
      <4> QED BY <4>1, <4>2, <4>3 DEF ScoreTrack, TypeOK
    <3>2. clr' \in BOOLEAN /\ score_CU' \in BOOLEAN
      BY <2>2 DEF HFrameEdge, FrameEdge, clr_i, score_CUI, H_STATE
    <3>3. rising' \in 0..2 /\ gap' \in 0..FrameGap /\ titleFrames' \in 0..2
      BY <2>2 DEF HFrameEdge, FrameEdge
    <3> QED
      BY <2>2, <3>1, <3>2, <3>3 DEF HFrameEdge, FrameEdge, TypeOK, fsmVars, arenaVars
  <2>3. CASE \E k \in Keys : HSetKeycode(k)
    BY <2>3 DEF HSetKeycode, SetKeycode, TypeOK, fsmVars, scoreVars, arenaVars, frameVars, hist
  <2>4. CASE UNCHANGED hvars
    BY <2>4 DEF hvars, vars, fsmVars, scoreVars, arenaVars, frameVars, hist, TypeOK
  <2> QED
    BY <2>1, <2>2, <2>3, <2>4 DEF HNext
<1> QED
  BY <1>1, <1>2, PTL DEF HSpec

-----------------------------------------------------------------------------
(* The level counter. *)

\* Adding one never wraps the counter while LevelInv keeps it low.
LEMMA NoWrap ==
    ASSUME TypeOK, count <= LastLevel PROVE (count + 1) % CountMod = count + 1
  BY DEF TypeOK

\* The design powers up with the level counter below its limit.
LEMMA LevelInit == HInit => LevelInv
  BY DEF HInit, Init, LevelInv, H_STATE, menu_screen, Scoring

\* Every clock edge and every new key code keeps the level counter below its
\* limit: it is only incremented in a state that has not reached the limit.
LEMMA LevelStep == HTypeOK /\ LevelInv /\ [HNext]_hvars => LevelInv'
<1> SUFFICES ASSUME HTypeOK, LevelInv, [HNext]_hvars PROVE LevelInv'
  OBVIOUS
<1>0. TypeOK /\ count \in Nat /\ inc \in BOOLEAN
  BY DEF HTypeOK, TypeOK
<1>1. ASSUME NEW button \in BOOLEAN, HClkEdge(button) PROVE LevelInv'
  <2>1. FSM /\ Counter
    BY <1>1 DEF HClkEdge, ClkEdge
  <2>2. CASE Reset_h
    BY <2>1, <2>2 DEF FSM, Counter, LevelInv, H_STATE, menu_screen, Scoring
  <2>3. CASE ~Reset_h
    <3>0. curr_State' = goto_state /\ inc' = inc_i
      BY <2>1, <2>3 DEF FSM
    <3>1. CASE H_STATE
      <4>1. inc => count = 0
        BY <3>1 DEF LevelInv
      <4>2. count <= 1
        BY <3>1 DEF LevelInv
      <4>3. count' <= 1 /\ count' \in Nat
        BY <1>0, <2>1, <2>3, <4>1, <4>2, NoWrap DEF Counter
      <4>4. CASE keycode = KeyStart
        <5>1. curr_State' = "games"
          BY <3>0, <3>1, <4>4 DEF goto_state, KeyStart, KeyMenu, KeyEnter, KeyEsc,
                                  H_STATE, menu_screen, E_STATE
        <5> QED
          BY <4>3, <5>1 DEF LevelInv, H_STATE, menu_screen, Scoring
      <4>5. CASE keycode = KeyMenu
        <5>1. curr_State' = "menu"
          BY <3>0, <3>1, <4>5 DEF goto_state, KeyStart, KeyMenu, KeyEnter, KeyEsc,
                                  H_STATE, menu_screen, E_STATE
        <5> QED
          BY <4>3, <5>1 DEF LevelInv, H_STATE, menu_screen, Scoring
      <4>6. CASE keycode \notin {KeyStart, KeyMenu}
        <5>1. curr_State' = "HALT" /\ ~inc'
          BY <3>0, <3>1, <4>6 DEF goto_state, inc_i, H_STATE, menu_screen, E_STATE
        <5> QED
          BY <4>3, <5>1 DEF LevelInv, H_STATE, menu_screen, Scoring
      <4> QED
        BY <4>4, <4>5, <4>6
    <3>2. CASE menu_screen
      <4>1. spr_on /\ ~H_STATE /\ ~E_STATE /\ count <= 2 /\ (inc => count <= 1)
        BY <3>2 DEF LevelInv, spr_on, H_STATE, E_STATE, menu_screen
      <4>2. count' <= 2 /\ count' \in Nat
        BY <1>0, <2>1, <2>3, <4>1, NoWrap DEF Counter
      <4>3. ~inc' /\ curr_State' \in {"menu", "games"}
        BY <3>0, <3>2, <4>1 DEF goto_state, inc_i, menu_screen
      <4> QED
        BY <4>2, <4>3 DEF LevelInv, H_STATE, menu_screen, Scoring
    <3>3. CASE curr_State = "games"
      <4>1. spr_on /\ ~H_STATE /\ ~E_STATE /\ ~menu_screen
            /\ count <= LastLevel + 1 /\ (inc => count <= 1)
        BY <3>3 DEF LevelInv, spr_on, H_STATE, E_STATE, menu_screen
      <4>2. count' \in Nat /\ (inc => count' = count + 1) /\ (~inc => count' = count)
        BY <1>0, <2>1, <2>3, <4>1, NoWrap DEF Counter
      <4>3. ~inc'
        BY <3>0, <3>3, <4>1 DEF inc_i
      <4>4. /\ curr_State' \in {"done", "score1", "increment1", "games"}
            /\ curr_State' = "increment1" => ~E_SIGNAL
        BY <3>0, <3>3, <4>1 DEF goto_state
      <4>5. count' <= LastLevel + 1 /\ (~E_SIGNAL => count' <= LastLevel)
        BY <1>0, <4>1, <4>2 DEF E_SIGNAL
      <4> QED
        BY <4>3, <4>4, <4>5 DEF LevelInv, H_STATE, menu_screen, Scoring
    <3>4. CASE curr_State \in Scoring \cup {"done"}
      <4>1. count <= LastLevel + 1 /\ ~inc
        BY <3>4 DEF LevelInv
      <4>2. /\ count' \in {0, count}
            /\ E_STATE /\ keycode = KeyEsc => count' = 0
        BY <2>1, <4>1 DEF Counter, spr_on
      <4>3. ~inc'
        BY <3>0, <3>4 DEF inc_i, Scoring, H_STATE
      <4>4. /\ curr_State' \in Scoring \cup {"done", "games", "HALT"}
            /\ curr_State' = "HALT" => E_STATE /\ keycode = KeyEsc
        BY <3>0, <3>4 DEF goto_state, Scoring, H_STATE, menu_screen, E_STATE
      <4> QED
        BY <1>0, <4>1, <4>2, <4>3, <4>4 DEF LevelInv, H_STATE, menu_screen, Scoring
    <3>5. CASE curr_State = "increment1"
      <4>1. count <= LastLevel /\ ~inc
        BY <3>5 DEF LevelInv
      <4>2. count' = count /\ inc' /\ curr_State' = "increment2"
        BY <2>1, <2>3, <3>0, <3>5, <4>1
           DEF Counter, spr_on, inc_i, goto_state, H_STATE, menu_screen, E_STATE
      <4> QED
        BY <4>1, <4>2 DEF LevelInv, H_STATE, menu_screen, Scoring
    <3>6. CASE curr_State = "increment2"
      <4>1. count <= LastLevel /\ inc
        BY <3>6 DEF LevelInv
      <4>2. count' = count + 1
        BY <1>0, <2>1, <2>3, <3>6, <4>1, NoWrap DEF Counter, spr_on, H_STATE, E_STATE
      <4>3. ~inc' /\ curr_State' = "games"
        BY <3>0, <3>6 DEF inc_i, goto_state, H_STATE, menu_screen, E_STATE
      <4> QED
        BY <1>0, <4>1, <4>2, <4>3 DEF LevelInv, H_STATE, menu_screen, Scoring
    <3> QED
      BY <1>0, <3>1, <3>2, <3>3, <3>4, <3>5, <3>6
         DEF TypeOK, InPlay, Advancing, H_STATE, menu_screen
  <2> QED
    BY <2>2, <2>3
<1>2. CASE UNCHANGED <<fsmVars, count>>
  BY <1>2 DEF LevelInv, fsmVars, H_STATE, menu_screen
<1>3. HFrameEdge => UNCHANGED <<fsmVars, count>>
  BY DEF HFrameEdge, FrameEdge
<1>4. \A k \in Keys : HSetKeycode(k) => UNCHANGED <<fsmVars, count>>
  BY DEF HSetKeycode, SetKeycode
<1>5. UNCHANGED hvars => UNCHANGED <<fsmVars, count>>
  BY DEF hvars, vars
<1> QED
  BY <1>1, <1>2, <1>3, <1>4, <1>5 DEF HNext

\* The inductive form of the bound on the level counter holds throughout.
LEMMA LevelInvariant == HSpec => []LevelInv
  BY LevelInit, LevelStep, TypeCorrect, PTL DEF HSpec

\* The level counter stays within the mazes and the value that ends the game,
\* whatever the number of mazes and the width of the counter.
THEOREM LevelBounded == HSpec => []LevelBound
<1>1. HTypeOK /\ LevelInv => LevelBound
  BY DEF HTypeOK, TypeOK, LevelInv, LevelBound, InPlay, Advancing, H_STATE, menu_screen
<1> QED
  BY <1>1, TypeCorrect, LevelInvariant, PTL

-----------------------------------------------------------------------------
(* The mazes finished. *)

\* LevelCountsExits is inductive once the title screen is known to be clean.
ExitsInv ==
    /\ LevelCountsExits
    /\ clean /\ H_STATE => count = 0 /\ ~inc /\ exits = 0

\* Every step keeps the level counter equal to the mazes finished plus one,
\* counting the increment on its way.
LEMMA ExitsStep == HTypeOK /\ LevelInv /\ ExitsInv /\ [HNext]_hvars => ExitsInv'
<1> SUFFICES ASSUME HTypeOK, LevelInv, ExitsInv, [HNext]_hvars PROVE ExitsInv'
  OBVIOUS
<1>0. /\ TypeOK /\ count \in Nat /\ inc \in BOOLEAN /\ clean \in BOOLEAN
      /\ exits \in Nat
  BY DEF HTypeOK, TypeOK
<1>1. ASSUME NEW button \in BOOLEAN, HClkEdge(button) PROVE ExitsInv'
  <2>1. FSM /\ Counter
    BY <1>1 DEF HClkEdge, ClkEdge
  <2>2. /\ exits' = IF curr_State' = "HALT" THEN 0
                     ELSE IF curr_State = "games" /\ curr_State' = "increment1"
                          THEN exits + 1
                     ELSE exits
        /\ clean' = IF Reset_h THEN FALSE
                    ELSE clean \/ (E_STATE /\ curr_State' = "HALT")
    BY <1>1 DEF HClkEdge
  <2>3. CASE ~clean'
    BY <2>3 DEF ExitsInv, LevelCountsExits
  <2>4. CASE ~Reset_h /\ clean'
    <3>0. curr_State' = goto_state /\ inc' = inc_i
      BY <2>1, <2>4 DEF FSM
    <3>1. CASE H_STATE
      <4>1. clean /\ count = 0 /\ ~inc /\ exits = 0
        BY <1>0, <2>2, <2>4, <3>1 DEF ExitsInv, H_STATE, E_STATE
      <4>2. count' = 0
        BY <2>1, <2>4, <4>1 DEF Counter
      <4>3. CASE keycode \in {KeyStart, KeyMenu}
        <5>1. inc' /\ curr_State' \in {"games", "menu"}
          BY <3>0, <3>1, <4>3 DEF goto_state, inc_i, KeyStart, KeyMenu, KeyEnter, KeyEsc,
                                  H_STATE, menu_screen, E_STATE
        <5> QED
          BY <2>2, <3>1, <4>1, <4>2, <5>1 DEF ExitsInv, LevelCountsExits, H_STATE
      <4>4. CASE keycode \notin {KeyStart, KeyMenu}
        <5>1. ~inc' /\ curr_State' = "HALT"
          BY <3>0, <3>1, <4>4 DEF goto_state, inc_i, H_STATE, menu_screen, E_STATE
        <5> QED
          BY <2>2, <4>1, <4>2, <5>1 DEF ExitsInv, LevelCountsExits, H_STATE
      <4> QED
        BY <4>3, <4>4
    <3>2. CASE E_STATE
      <4>1. ~H_STATE /\ ~inc /\ ~spr_on /\ ~inc'
        BY <3>0, <3>2 DEF LevelInv, E_STATE, H_STATE, spr_on, inc_i
      <4>2. CASE keycode = KeyEsc
        <5>1. count' = 0 /\ curr_State' = "HALT"
          BY <2>1, <3>0, <3>2, <4>1, <4>2
             DEF Counter, goto_state, H_STATE, menu_screen, E_STATE
        <5> QED
          BY <2>2, <4>1, <5>1 DEF ExitsInv, LevelCountsExits, H_STATE
      <4>3. CASE keycode # KeyEsc
        <5>1. count' = count /\ curr_State' = "done"
          BY <2>1, <2>4, <3>0, <3>2, <4>1, <4>3
             DEF Counter, goto_state, H_STATE, menu_screen, E_STATE
        <5>2. exits' = exits /\ clean
          BY <1>0, <2>2, <2>4, <3>2, <5>1 DEF E_STATE
        <5> QED
          BY <3>2, <4>1, <5>1, <5>2 DEF ExitsInv, LevelCountsExits, H_STATE, E_STATE
      <4> QED
        BY <4>2, <4>3
    <3>3. CASE ~H_STATE /\ ~E_STATE
      <4>1. clean /\ spr_on
        BY <1>0, <2>2, <2>4, <3>3 DEF spr_on
      <4>2. count + (IF inc \/ curr_State = "increment1" THEN 1 ELSE 0) = 1 + exits
        BY <3>3, <4>1 DEF ExitsInv, LevelCountsExits
      <4>3. inc => count <= LastLevel
        BY <1>0, <3>3 DEF LevelInv, TypeOK, InPlay, Advancing, Scoring, H_STATE, E_STATE, menu_screen
      <4>4. count' = IF inc THEN count + 1 ELSE count
        BY <1>0, <2>1, <2>4, <4>1, <4>3, NoWrap DEF Counter
      <4>5. inc' <=> curr_State = "increment1"
        BY <3>0, <3>3 DEF inc_i
      <4>6. curr_State' # "HALT"
        BY <3>0, <3>3 DEF goto_state, H_STATE, E_STATE
      <4>7. curr_State' = "increment1" => curr_State = "games"
        BY <3>0, <3>3 DEF goto_state, H_STATE, E_STATE, menu_screen
      <4>8. curr_State = "increment1" => ~inc
        BY DEF LevelInv
      <4>9. exits' = IF curr_State' = "increment1" THEN exits + 1 ELSE exits
        BY <2>2, <4>6, <4>7
      <4>10. count' + (IF inc' \/ curr_State' = "increment1" THEN 1 ELSE 0) = 1 + exits'
        <5>1. CASE curr_State' = "increment1"
          BY <1>0, <4>2, <4>4, <4>5, <4>7, <4>9, <5>1
        <5>2. CASE curr_State' # "increment1"
          BY <1>0, <4>2, <4>4, <4>5, <4>8, <4>9, <5>2
        <5> QED
          BY <5>1, <5>2
      <4> QED
        BY <4>6, <4>10 DEF ExitsInv, LevelCountsExits, H_STATE
    <3> QED
      BY <3>1, <3>2, <3>3
  <2> QED
    BY <2>2, <2>3, <2>4
<1>2. CASE UNCHANGED <<fsmVars, count, exits, clean>>
  BY <1>2 DEF ExitsInv, LevelCountsExits, fsmVars, H_STATE
<1>3. HFrameEdge => UNCHANGED <<fsmVars, count, exits, clean>>
  BY DEF HFrameEdge, FrameEdge
<1>4. \A k \in Keys : HSetKeycode(k) => UNCHANGED <<fsmVars, count, exits, clean>>
  BY DEF HSetKeycode, SetKeycode, hist
<1>5. UNCHANGED hvars => UNCHANGED <<fsmVars, count, exits, clean>>
  BY DEF hvars, vars, hist
<1> QED
  BY <1>1, <1>2, <1>3, <1>4, <1>5 DEF HNext

\* Without a reset no finish is lost or counted twice, for every number of
\* mazes: the level is one more than the mazes finished.
THEOREM LevelsCountExits == HSpec => []LevelCountsExits
<1>1. HInit => ExitsInv
  BY DEF HInit, Init, ExitsInv, LevelCountsExits, H_STATE
<1>2. ExitsInv => LevelCountsExits
  BY DEF ExitsInv
<1> QED
  BY <1>1, <1>2, ExitsStep, TypeCorrect, LevelInvariant, PTL DEF HSpec

-----------------------------------------------------------------------------
(* The score. *)

\* The first frame edge on the title screen loads clr and drops score_CU, the
\* second one clears the score.
ClearInv ==
    /\ titleFrames > 0 => H_STATE /\ clr /\ ~score_CU
    /\ TitleClearsScore

\* Every step keeps the clear signal of the title screen on its way to the
\* score, so that the second frame edge finds it there.
LEMMA ClearStep == HTypeOK /\ ClearInv /\ [HNext]_hvars => ClearInv'
<1> SUFFICES ASSUME HTypeOK, ClearInv, [HNext]_hvars PROVE ClearInv'
  OBVIOUS
<1>0. titleFrames \in 0..2
  BY DEF HTypeOK
<1>1. ASSUME NEW button \in BOOLEAN, HClkEdge(button) PROVE ClearInv'
  BY <1>0, <1>1 DEF HClkEdge, ClkEdge, ClearInv, TitleClearsScore, scoreVars, H_STATE
<1>2. ASSUME HFrameEdge PROVE ClearInv'
  <2>1. /\ clr' = H_STATE /\ score_CU' = (curr_State = "score4") /\ ScoreTrack
        /\ curr_State' = curr_State
        /\ titleFrames' = IF H_STATE /\ titleFrames < 2 THEN titleFrames + 1
                          ELSE titleFrames
    BY <1>2 DEF HFrameEdge, FrameEdge, fsmVars, clr_i, score_CUI
  <2>2. CASE H_STATE
    <3>1. clr' /\ ~score_CU' /\ H_STATE'
      BY <2>1, <2>2 DEF H_STATE
    <3>2. titleFrames > 0 => ones' = 0 /\ tens' = 0 /\ bounce' = 0
      BY <2>1 DEF ScoreTrack, ClearInv
    <3>3. titleFrames' = 2 => titleFrames > 0
      BY <1>0, <2>1
    <3> QED
      BY <3>1, <3>2, <3>3 DEF ClearInv, TitleClearsScore
  <2>3. CASE ~H_STATE
    BY <1>0, <2>1, <2>3 DEF ClearInv, TitleClearsScore
  <2> QED
    BY <2>2, <2>3
<1>3. CASE UNCHANGED <<curr_State, scoreVars, titleFrames>>
  BY <1>3 DEF ClearInv, TitleClearsScore, scoreVars, H_STATE
<1>4. \A k \in Keys : HSetKeycode(k) => UNCHANGED <<curr_State, scoreVars, titleFrames>>
  BY DEF HSetKeycode, SetKeycode, hist, fsmVars
<1>5. UNCHANGED hvars => UNCHANGED <<curr_State, scoreVars, titleFrames>>
  BY DEF hvars, vars, hist, fsmVars
<1> QED
  BY <1>1, <1>2, <1>3, <1>4, <1>5 DEF HNext

\* Two frames of title screen clear the score.
THEOREM TitleClears == HSpec => []TitleClearsScore
<1>1. HInit => ClearInv
  BY DEF HInit, Init, ClearInv, TitleClearsScore
<1>2. ClearInv => TitleClearsScore
  BY DEF ClearInv
<1> QED
  BY <1>1, <1>2, ClearStep, TypeCorrect, PTL DEF HSpec

-----------------------------------------------------------------------------
(* The two displays. *)

Agree(t, b, o, carries) ==
    /\ t = (3 * carries) % TensMod
    /\ b = (o + (OnesWrap + 1) * carries) % BounceMod

\* A collision that does not carry moves ones and bounce alike.
LEMMA AgreeCount ==
    ASSUME NEW o \in Nat, NEW c \in Nat, NEW t, NEW b, Agree(t, b, o, c)
    PROVE  Agree(t, (b + 1) % BounceMod, o + 1, c)
<1>1. PICK x \in Int : x = o + (OnesWrap + 1) * c
  OBVIOUS
<1>2. ((x % BounceMod) + 1) % BounceMod = (x + 1) % BounceMod
  BY BounceMod \in Nat \ {0}, 1 \in Int, ModAdd, Zenon
<1>3. x + 1 = (o + 1) + (OnesWrap + 1) * c
  BY <1>1
<1> QED BY <1>1, <1>2, <1>3 DEF Agree

\* One that carries counts as OnesWrap + 1 of them.
LEMMA AgreeCarry ==
    ASSUME NEW c \in Nat, NEW t, NEW b, Agree(t, b, OnesWrap, c)
    PROVE  Agree((t + 3) % TensMod, (b + 1) % BounceMod, 0, c + 1)
<1>1. PICK y \in Int : y = 3 * c
  OBVIOUS
<1>2. ((y % TensMod) + 3) % TensMod = (y + 3) % TensMod
  BY TensMod \in Nat \ {0}, 3 \in Int, ModAdd, Zenon
<1>3. y + 3 = 3 * (c + 1)
  BY <1>1
<1>4. PICK x \in Int : x = OnesWrap + (OnesWrap + 1) * c
  OBVIOUS
<1>5. ((x % BounceMod) + 1) % BounceMod = (x + 1) % BounceMod
  BY BounceMod \in Nat \ {0}, 1 \in Int, ModAdd, Zenon
<1>6. x + 1 = 0 + (OnesWrap + 1) * (c + 1)
  BY <1>4
<1> QED BY <1>1, <1>2, <1>3, <1>4, <1>5, <1>6 DEF Agree

\* After TensMod carries both are where they started.
LEMMA AgreeWrap ==
    ASSUME NEW t, NEW b, Agree(t, b, 0, TensMod) PROVE Agree(t, b, 0, 0)
<1>1. (3 * TensMod) % TensMod = 0 /\ (3 * 0) % TensMod = 0
  <2>1. TensMod % TensMod = 0
    BY 1 \in Int, 0 \in 0..TensMod-1, TensMod * 1 + 0 = TensMod, ModIs
  <2>2. (0 * TensMod) % TensMod = 0
    BY <2>1, ModMultiple
  <2> QED BY <2>1, <2>2, ModMultiple
<1>2. (0 + (OnesWrap + 1) * TensMod) % BounceMod = 0 /\ (0 + (OnesWrap + 1) * 0) % BounceMod = 0
  <2>1. PICK w \in Int : w = OnesWrap + 1
    OBVIOUS
  <2>2. (w * TensMod) % BounceMod = 0 /\ (0 * TensMod) % BounceMod = 0
    <3>1. TensMod % BounceMod = 0 /\ TensMod \in Nat /\ BounceMod \in Nat \ {0} /\ 0 \in Int
      BY WidthAssumption DEF WidthAssumption
    <3> QED BY <3>1, ModMultiple, Zenon
  <2>3. 0 + w * TensMod = w * TensMod /\ 0 + w * 0 = 0 * TensMod
    OBVIOUS
  <2> QED BY <2>1, <2>2, <2>3
<1> QED BY <1>1, <1>2 DEF Agree

\* Both start from zero.
LEMMA ZeroAgrees == Agree(0, 0, 0, 0)
<1>1. (TensMod * 0 + 0) % TensMod = 0 /\ (BounceMod * 0 + 0) % BounceMod = 0
  BY ModIs
<1> QED BY <1>1 DEF Agree

\* A frame edge keeps the two displays together.
LEMMA AgreeStep ==
    ASSUME HTypeOK, ScoresAgree, ScoreTrack PROVE ScoresAgree'
<1>1. PICK c \in 0..TensMod-1 : Agree(tens, bounce, ones, c)
  BY DEF ScoresAgree, Agree
<1>2. ones \in 0..OnesWrap
  BY DEF HTypeOK, TypeOK
<1>3. SUFFICES \E d \in 0..TensMod-1 : Agree(tens', bounce', ones', d)
  BY DEF ScoresAgree, Agree
<1>4. CASE score_CU /\ ones # OnesWrap
  <2>1. Agree(tens, (bounce + 1) % BounceMod, ones + 1, c)
    BY <1>1, <1>2, AgreeCount
  <2> QED BY <1>4, <2>1 DEF ScoreTrack
<1>5. CASE score_CU /\ ones = OnesWrap
  <2>1. Agree((tens + 3) % TensMod, (bounce + 1) % BounceMod, 0, c + 1)
    BY <1>1, <1>5, AgreeCarry
  <2>2. tens' = (tens + 3) % TensMod /\ bounce' = (bounce + 1) % BounceMod /\ ones' = 0
    BY <1>5 DEF ScoreTrack
  <2>3. CASE c + 1 \in 0..TensMod-1
    BY <2>1, <2>2, <2>3
  <2>4. CASE c + 1 = TensMod
    BY <2>1, <2>2, <2>4, AgreeWrap, 0 \in 0..TensMod-1
  <2> QED BY <2>3, <2>4
<1>6. CASE ~score_CU /\ clr
  <2>1. tens' = 0 /\ bounce' = 0 /\ ones' = 0
    BY <1>6 DEF ScoreTrack
  <2>2. Agree(0, 0, 0, 0)
    BY ZeroAgrees
  <2> QED BY <2>1, <2>2
<1>7. CASE ~score_CU /\ ~clr
  BY <1>1, <1>7 DEF ScoreTrack
<1> QED BY <1>4, <1>5, <1>6, <1>7
\* The score on the screen and the one on the hex display show the same number
\* of collisions, for every width of theirs that divides.
THEOREM DisplaysAgree == HSpec => []ScoresAgree
<1>1. HInit => ScoresAgree
  BY ZeroAgrees, 0 \in 0..TensMod-1 DEF HInit, Init, ScoresAgree, Agree
<1>2. HTypeOK /\ ScoresAgree /\ [HNext]_hvars => ScoresAgree'
  <2> SUFFICES ASSUME HTypeOK, ScoresAgree, [HNext]_hvars PROVE ScoresAgree'
    OBVIOUS
  <2>1. UNCHANGED <<bounce, ones, tens>> => ScoresAgree'
    BY DEF ScoresAgree
  <2>2. CASE HFrameEdge
    BY <2>2, AgreeStep DEF HFrameEdge, FrameEdge
  <2>3. CASE \E button \in BOOLEAN : HClkEdge(button)
    BY <2>1, <2>3 DEF HClkEdge, ClkEdge, scoreVars
  <2>4. CASE \E k \in Keys : HSetKeycode(k)
    BY <2>1, <2>4 DEF HSetKeycode, SetKeycode, scoreVars
  <2>5. CASE UNCHANGED hvars
    BY <2>1, <2>5 DEF hvars, vars, scoreVars
  <2> QED BY <2>2, <2>3, <2>4, <2>5 DEF HNext
<1> QED BY <1>1, <1>2, TypeCorrect, PTL DEF HSpec

-----------------------------------------------------------------------------
(* The finish line and the level. *)

\* Away from home, where he meets the walls, he has moved twice; in play the
\* history has seen those moves.
TravelInv ==
    /\ travel < 2 => place = "clear"
    /\ wall /\ ~menu_screen => travel = 2
    /\ curr_State \in {"menu"} \cup InPlay /\ ~inc => travel <= moved
    /\ patient /\ curr_State \in Advancing => moved = 2

\* Nobody starts past the finish line.
StartInv ==
    patient /\ (curr_State \in {"HALT", "done"} \/ (curr_State = "games" /\ inc))
        => place # "exit"

\* A maze beyond the last ends the game at once.
EndInv ==
    /\ curr_State = "games" /\ E_SIGNAL => travel = 0
    /\ curr_State \in Scoring => ~E_SIGNAL

\* The player is in the wall that is being scored, unless a move of these last
\* edges has taken him out of it.
Since == [score1 |-> 2, score2 |-> 3, score3 |-> 4, score4 |-> 5]
WallInv ==
    /\ rising > 0 => gap = 2 - rising
    /\ rising = 2 => ~Reset_h
    /\ curr_State \in Scoring => wall \/ travel = 0 \/ gap \in 2..Since[curr_State]

\* So he who is out of lives does not move as the game ends.
LivesInv ==
    /\ patient /\ menu_screen => ones = 0 /\ ~score_CU
    /\ patient /\ curr_State = "games" /\ rising = 1 /\ ~inc /\ F_LAG
           => wall \/ travel = 0

SkipInv == TravelInv /\ StartInv /\ EndInv /\ WallInv /\ LivesInv

\* The power-up state.
LEMMA SkipInit == HInit => SkipInv
<1> SUFFICES ASSUME HInit PROVE SkipInv
  OBVIOUS
<1> USE DEF HInit, Init, ArenaInit
<1>1. TravelInv /\ StartInv
  BY DEF TravelInv, StartInv, InPlay, Scoring, Advancing, menu_screen
<1>2. EndInv /\ WallInv /\ LivesInv
  BY DEF EndInv, WallInv, LivesInv, Scoring, menu_screen
<1> QED BY <1>1, <1>2 DEF SkipInv

\* The transitions of the state machine, with inc before and after.
Transits ==
    \/ H_STATE /\ curr_State' \in {"games", "menu"} /\ inc'
    \/ H_STATE /\ curr_State' = "HALT" /\ ~inc'
    \/ menu_screen /\ curr_State' \in {"menu", "games"} /\ ~inc'
    \/ /\ curr_State = "games" /\ ~inc'
       /\ \/ E_SIGNAL /\ curr_State' = "done"
          \/ ~E_SIGNAL /\ wall /\ curr_State' = "score1"
          \/ ~E_SIGNAL /\ ~wall /\ place = "exit" /\ curr_State' = "increment1"
          \/ ~E_SIGNAL /\ ~wall /\ place = "ball" /\ curr_State' = "done"
          \/ ~E_SIGNAL /\ ~wall /\ place = "clear" /\ F_LAG /\ curr_State' = "done"
          \/ ~E_SIGNAL /\ ~wall /\ place = "clear" /\ ~F_LAG /\ curr_State' = "games"
    \/ /\ curr_State \in Scoring /\ ~inc /\ ~inc'
       /\ \/ curr_State = "score1" /\ curr_State' = "score2"
          \/ curr_State = "score2" /\ curr_State' = "score3"
          \/ curr_State = "score3" /\ curr_State' = "score4"
          \/ curr_State = "score4" /\ curr_State' = "games"
    \/ curr_State = "increment1" /\ ~inc /\ inc' /\ curr_State' = "increment2"
    \/ curr_State = "increment2" /\ inc /\ ~inc' /\ curr_State' = "games"
    \/ E_STATE /\ ~inc /\ ~inc' /\ curr_State' \in {"done", "HALT"}

LEMMA TransitIs ==
    ASSUME HTypeOK, LevelInv, FSM, ~Reset_h PROVE Transits
<1>1. curr_State' = goto_state /\ inc' = inc_i /\ place \in {"clear", "ball", "exit"}
  BY DEF FSM, HTypeOK, TypeOK
<1> USE DEF H_STATE, menu_screen, E_STATE
<1>2. CASE H_STATE
  BY ZenonT(30), <1>1, <1>2 DEF Transits, goto_state, inc_i, KeyStart, KeyMenu, Advancing
<1>3. CASE menu_screen
  BY <1>1, <1>3 DEF Transits, goto_state, inc_i
<1>4. CASE curr_State = "games"
  <2>1. ~inc'
    BY <1>1, <1>4 DEF inc_i
  <2>2. curr_State' = IF E_SIGNAL THEN "done" ELSE IF wall THEN "score1"
                      ELSE IF place = "exit" THEN "increment1"
                      ELSE IF place = "ball" \/ F_LAG THEN "done" ELSE "games"
    BY <1>1, <1>4 DEF goto_state, coll_CU, my_end, sprite_coll, spr_on
  <2> QED BY <1>1, <1>4, <2>1, <2>2 DEF Transits
<1>5. CASE curr_State \in Scoring
  <2>1. ~inc /\ ~inc'
    BY <1>1, <1>5 DEF LevelInv, inc_i, Scoring
  <2>2. /\ curr_State = "score1" => goto_state = "score2"
        /\ curr_State = "score2" => goto_state = "score3"
        /\ curr_State = "score3" => goto_state = "score4"
        /\ curr_State = "score4" => goto_state = "games"
    BY DEF goto_state
  <2> QED BY <1>1, <1>5, <2>1, <2>2 DEF Transits, Scoring
<1>6. CASE curr_State \in Advancing
  BY <1>1, <1>6 DEF Transits, goto_state, inc_i, LevelInv, Advancing
<1>7. CASE E_STATE
  BY <1>1, <1>7 DEF Transits, goto_state, inc_i, LevelInv
<1> QED BY <1>2, <1>3, <1>4, <1>5, <1>6, <1>7 DEF HTypeOK, TypeOK, InPlay

\* What an edge does to the sprites: who does not move, or stands on a ball, does
\* not come past the finish; and a wall changes only with a move or the map.
LEMMA MoveIs ==
    ASSUME HTypeOK, Sprites
    PROVE  /\ travel' = IF Homing THEN 0 ELSE IF Moves /\ travel < 2 THEN travel + 1 ELSE travel
           /\ travel' < 2 => place' = "clear"
           /\ wall' /\ ~menu_screen' => travel' = 2
           /\ ~Moves \/ place = "ball" => place' \in {place, "clear"}
           /\ ~Homing /\ ~Moves /\ MapShown(count, curr_State) = MapShown(count', curr_State')
                  => travel' < 2 \/ wall' = wall
<1>1. /\ travel' = IF Homing THEN 0 ELSE IF Moves /\ travel < 2 THEN travel + 1 ELSE travel
      /\ place' \in IF travel' < 2 THEN {"clear"} ELSE IF Moves THEN Reachable(place) ELSE {place}
      /\ wall' \in IF travel' < 2 /\ MapShown(count', curr_State') # "menu" THEN {FALSE}
                   ELSE IF Moves \/ Homing \/ MapShown(count, curr_State) # MapShown(count', curr_State')
                   THEN BOOLEAN ELSE {wall}
  BY DEF Sprites, ArenaStep
<1>2. place = "ball" => Reachable(place) = {"ball", "clear"}
  BY DEF Reachable
<1>3. ~menu_screen' => MapShown(count', curr_State') # "menu"
  BY DEF menu_screen, MapShown
<1>4. travel' < 2 \/ travel' = 2
  BY <1>1 DEF HTypeOK, TypeOK
<1> QED BY <1>1, <1>2, <1>3, <1>4

\* In play the counter follows inc.
LEMMA CountIs ==
    ASSUME HTypeOK, LevelInv, Counter, ~Reset_h, ~H_STATE, ~E_STATE
    PROVE  /\ ~inc => count' = count
           /\ inc => count' = count + 1
<1>1. inc => count <= LastLevel
  BY DEF HTypeOK, TypeOK, LevelInv, InPlay, Advancing, H_STATE, E_STATE, menu_screen
<1> QED BY <1>1, NoWrap DEF Counter, spr_on, HTypeOK

\* A reset homes the sprites and goes to the title screen.
LEMMA SkipReset ==
    ASSUME HTypeOK, SkipInv, NEW button \in BOOLEAN, HClkEdge(button), Reset_h
    PROVE  SkipInv'
<1>1. curr_State' = "HALT" /\ Sprites
  BY DEF HClkEdge, ClkEdge, FSM
<1>2. travel' = 0 /\ place' = "clear"
  BY <1>1, MoveIs DEF Homing
<1>3. TravelInv' /\ StartInv' /\ EndInv'
  BY <1>1, <1>2, MoveIs DEF TravelInv, StartInv, EndInv, InPlay, Scoring, Advancing
<1>4. rising' = 0
  BY DEF HClkEdge, ClkEdge, FrameTiming, SkipInv, WallInv, HTypeOK, TypeOK
<1>5. WallInv' /\ LivesInv'
  BY <1>1, <1>4 DEF WallInv, LivesInv, Scoring, menu_screen
<1> QED BY <1>3, <1>5 DEF SkipInv

\* What the history sees of the moves.
LEMMA TravelStep ==
    ASSUME HTypeOK, LevelInv, SkipInv, NEW button \in BOOLEAN, HClkEdge(button), ~Reset_h
    PROVE  TravelInv'
<1>1. FSM /\ Counter /\ Sprites /\ Transits
  BY TransitIs DEF HClkEdge, ClkEdge
<1>2. moved' = IF count' # count THEN 0 ELSE IF Moves /\ moved < 2 THEN moved + 1 ELSE moved
  BY DEF HClkEdge
<1>3. travel \in 0..2 /\ moved \in 0..2 /\ inc \in BOOLEAN /\ count \in Nat
  BY DEF HTypeOK, TypeOK
<1>4. patient' => patient
  BY DEF HClkEdge
<1>5. /\ travel' < 2 => place' = "clear"
      /\ wall' /\ ~menu_screen' => travel' = 2
  BY <1>1, MoveIs
<1>6. ASSUME curr_State' \in {"menu"} \cup InPlay, ~inc' PROVE travel' <= moved'
  <2>1. curr_State \in {"menu"} \cup InPlay /\ ~H_STATE /\ ~E_STATE
    BY <1>1, <1>6 DEF Transits, H_STATE, E_STATE, menu_screen, InPlay, Scoring, Advancing
  <2>2. CASE inc
    BY <1>1, <1>2, <1>3, <2>1, <2>2, CountIs, MoveIs DEF Homing
  <2>3. CASE ~inc
    <3>1. count' = count /\ travel <= moved
      BY <1>1, <2>1, <2>3, CountIs DEF SkipInv, TravelInv
    <3> QED BY <1>1, <1>2, <1>3, <2>3, <3>1, MoveIs DEF Homing
  <2> QED BY <2>2, <2>3
<1>7. ASSUME patient', curr_State' \in Advancing PROVE moved' = 2
  <2>1. CASE curr_State = "games"
    <3>1. place = "exit" /\ ~inc
      BY <1>1, <1>4, <1>7, <2>1
         DEF Transits, SkipInv, StartInv, Advancing, H_STATE, E_STATE, menu_screen, Scoring
    <3>2. moved = 2 /\ count' = count
      BY <1>1, <1>3, <2>1, <3>1, CountIs DEF SkipInv, TravelInv, InPlay, H_STATE, E_STATE
    <3> QED BY <1>2, <3>2
  <2>2. CASE curr_State = "increment1"
    <3>1. moved = 2 /\ ~inc
      BY <1>4, <1>7, <2>2 DEF SkipInv, TravelInv, Advancing, LevelInv
    <3>2. count' = count
      BY <1>1, <2>2, <3>1, CountIs DEF H_STATE, E_STATE
    <3> QED BY <1>2, <3>1, <3>2
  <2> QED BY <1>1, <1>7, <2>1, <2>2
          DEF Transits, Advancing, H_STATE, E_STATE, menu_screen, Scoring
<1> QED BY <1>5, <1>6, <1>7 DEF TravelInv

\* Who starts, or ends a game, is before the finish line.
LEMMA StartStep ==
    ASSUME HTypeOK, LevelInv, SkipInv, NEW button \in BOOLEAN, HClkEdge(button), ~Reset_h
    PROVE  StartInv'
<1>1. FSM /\ Sprites /\ Transits /\ (patient' => patient)
  BY TransitIs DEF HClkEdge, ClkEdge
<1>2. travel \in 0..2 /\ rising \in 0..2 /\ place \in {"clear", "ball", "exit"}
  BY DEF HTypeOK, TypeOK
<1>3. SUFFICES ASSUME patient', curr_State' \in {"HALT", "done"} \/ (curr_State' = "games" /\ inc')
               PROVE  place' # "exit"
  BY DEF StartInv
<1>4. CASE H_STATE \/ E_STATE
  <2>1. place # "exit" /\ ~Moves
    BY <1>1, <1>3, <1>4 DEF SkipInv, StartInv, H_STATE, E_STATE, Moves, spr_on
  <2> QED BY <1>1, <2>1, MoveIs
<1>5. CASE curr_State = "games" /\ curr_State' = "done"
  <2>1. CASE Homing
    BY <1>1, <2>1, MoveIs
  <2>2. CASE E_SIGNAL
    <3>1. travel = 0
      BY <1>5, <2>2 DEF SkipInv, EndInv
    <3>2. travel' < 2
      BY <1>1, <3>1, MoveIs
    <3> QED BY <1>1, <3>2, MoveIs
  <2>3. CASE place = "ball"
    BY <1>1, <2>3, MoveIs
  <2>4. CASE ~Homing /\ ~E_SIGNAL /\ place # "ball"
    <3>1. place = "clear" /\ F_LAG /\ ~wall /\ ~inc
      BY <1>1, <1>5, <2>4 DEF Transits, Homing, H_STATE, E_STATE, menu_screen, Scoring
    <3>2. CASE Moves
      <4>1. travel = 0
        BY <1>1, <1>3, <1>5, <3>1, <3>2 DEF Moves, SkipInv, LivesInv
      <4>2. travel' < 2
        BY <1>1, <4>1, MoveIs
      <4> QED BY <1>1, <4>2, MoveIs
    <3>3. CASE ~Moves
      BY <1>1, <3>1, <3>3, MoveIs
    <3> QED BY <3>2, <3>3
  <2> QED BY <2>1, <2>2, <2>3, <2>4
<1> QED BY <1>1, <1>3, <1>4, <1>5 DEF Transits, H_STATE, E_STATE, menu_screen, Scoring

\* The edge that takes the counter beyond the last maze homes the sprites.
LEMMA EndStep ==
    ASSUME HTypeOK, LevelInv, SkipInv, NEW button \in BOOLEAN, HClkEdge(button), ~Reset_h
    PROVE  EndInv'
<1>1. FSM /\ Counter /\ Sprites /\ Transits
  BY TransitIs DEF HClkEdge, ClkEdge
<1>2. count \in Nat /\ inc \in BOOLEAN
  BY DEF HTypeOK, TypeOK
<1>3. CASE H_STATE
  <2>1. count <= 1 /\ (inc => count = 0)
    BY <1>3 DEF LevelInv
  <2>2. ~(count' > LastLevel)
    BY <1>1, <1>2, <2>1, NoWrap DEF Counter, HTypeOK
  <2> QED BY <2>2 DEF EndInv, E_SIGNAL
<1>4. CASE curr_State = "increment2"
  <2>1. travel' = 0
    BY <1>1, <1>4, MoveIs DEF Homing, LevelInv
  <2> QED BY <1>1, <1>4, <2>1
          DEF EndInv, Transits, H_STATE, E_STATE, menu_screen, Scoring
<1>5. CASE ~H_STATE /\ curr_State # "increment2" /\ curr_State' \in {"games"} \cup Scoring
  <2>1. ~E_SIGNAL /\ ~E_STATE /\ (inc => count <= 1) /\ (menu_screen => count <= 2)
    <3>1. \/ menu_screen
          \/ curr_State = "games" /\ ~E_SIGNAL
          \/ curr_State \in Scoring /\ ~inc
      BY <1>1, <1>5 DEF Transits, H_STATE, E_STATE, Scoring
    <3>2. CASE menu_screen
      BY <1>2, <3>2 DEF LevelInv, E_SIGNAL, menu_screen, E_STATE
    <3>3. CASE curr_State = "games" /\ ~E_SIGNAL
      BY <3>3 DEF LevelInv, menu_screen, E_STATE
    <3>4. CASE curr_State \in Scoring /\ ~inc
      BY <3>4 DEF SkipInv, EndInv, menu_screen, E_STATE, Scoring
    <3> QED BY <3>1, <3>2, <3>3, <3>4
  <2>2. ~(count' > LastLevel)
    BY <1>1, <1>2, <1>5, <2>1, CountIs DEF E_SIGNAL
  <2> QED BY <2>2 DEF EndInv, E_SIGNAL
<1> QED BY <1>3, <1>4, <1>5 DEF EndInv

\* While a contact is scored the sprites stay where they are, but for the edge
\* that began it and those right after a frame.
LEMMA WallStep ==
    ASSUME HTypeOK, LevelInv, SkipInv, NEW button \in BOOLEAN, HClkEdge(button), ~Reset_h
    PROVE  WallInv'
<1>1. FSM /\ Counter /\ Sprites /\ FrameTiming /\ Transits
  BY TransitIs DEF HClkEdge, ClkEdge
<1>2. travel \in 0..2 /\ rising \in 0..2 /\ gap \in 0..FrameGap /\ count \in Nat
  BY DEF HTypeOK, TypeOK
<1>3. rising' = (IF rising > 0 THEN rising - 1 ELSE 0)
      /\ gap' = (IF gap = FrameGap THEN FrameGap ELSE gap + 1)
      /\ (rising > 0 => gap = 2 - rising)
  BY <1>1 DEF FrameTiming, SkipInv, WallInv
<1>4. (rising' > 0 => gap' = 2 - rising') /\ rising' # 2
  BY <1>2, <1>3
<1>5. ASSUME curr_State' \in Scoring
      PROVE  wall' \/ travel' = 0 \/ gap' \in 2..Since[curr_State']
  <2>1. CASE Homing
    BY <1>1, <2>1, MoveIs
  <2>2. CASE Moves
    <3>1. gap' = 2
      BY <1>2, <1>3, <2>2 DEF Moves
    <3> QED BY <1>5, <3>1 DEF Since, Scoring
  <2>3. CASE ~Homing /\ ~Moves
    <3>1. curr_State \in {"games"} \cup Scoring /\ ~inc
      BY <1>1, <1>5, <2>3 DEF Transits, Homing, Scoring
    <3>2. MapShown(count, curr_State) = MapShown(count', curr_State')
      <4>1. count' = count
        BY <1>1, <3>1, CountIs DEF Scoring, H_STATE, E_STATE
      <4> QED BY <1>5, <3>1, <4>1 DEF MapShown, Scoring
    <3>3. CASE wall
      <4>1. travel' = 2
        BY <1>1, <2>3, <3>1, <3>3, MoveIs
           DEF SkipInv, TravelInv, Scoring, menu_screen
      <4> QED BY <1>1, <2>3, <3>2, <3>3, <4>1, MoveIs
    <3>4. CASE travel = 0
      BY <1>1, <2>3, <3>4, MoveIs
    <3>5. CASE curr_State \in Scoring /\ gap \in 2..Since[curr_State]
      <4>1. /\ curr_State \in {"score1", "score2", "score3"}
            /\ Since[curr_State'] = Since[curr_State] + 1
            /\ gap \in 2..4
        BY <1>1, <1>5, <3>5 DEF Transits, Since, Scoring, H_STATE, E_STATE, menu_screen
      <4>2. gap' = gap + 1 /\ Since[curr_State] \in Nat
        BY <1>3, <4>1, FrameAssumption DEF Since
      <4> QED BY <3>5, <4>1, <4>2
    <3>6. wall \/ travel = 0 \/ (curr_State \in Scoring /\ gap \in 2..Since[curr_State])
      BY <1>1, <1>5, <3>1
         DEF SkipInv, WallInv, Transits, Scoring, H_STATE, E_STATE, menu_screen
    <3> QED BY <3>3, <3>4, <3>5, <3>6
  <2> QED BY <2>1, <2>2, <2>3
<1> QED BY <1>4, <1>5 DEF WallInv

\* Who goes on with the maze after a contact that took his last life has not
\* moved when the game ends; who starts with no lives left starts from home.
LEMMA LivesStep ==
    ASSUME HTypeOK, LevelInv, ClearInv, SkipInv,
           NEW button \in BOOLEAN, HClkEdge(button), ~Reset_h
    PROVE  LivesInv'
<1>1. FSM /\ Counter /\ Sprites /\ FrameTiming /\ Transits
  BY TransitIs DEF HClkEdge, ClkEdge
<1>2. /\ ones' = ones /\ score_CU' = score_CU /\ (F_LAG' <=> F_LAG)
      /\ (patient' => patient /\ (H_STATE /\ curr_State' # "HALT" => titleFrames = 2))
  BY DEF HClkEdge, ClkEdge, scoreVars, F_LAG
<1>3. ASSUME patient', menu_screen' PROVE ones' = 0 /\ ~score_CU'
  <2>1. H_STATE \/ menu_screen
    BY <1>1, <1>3 DEF Transits, E_STATE, menu_screen, Scoring
  <2>2. CASE H_STATE
    BY <1>2, <1>3, <2>2 DEF ClearInv, TitleClearsScore, menu_screen
  <2>3. CASE menu_screen
    BY <1>2, <1>3, <2>3 DEF SkipInv, LivesInv
  <2> QED BY <2>1, <2>2, <2>3
<1>4. ASSUME patient', curr_State' = "games", rising' = 1, ~inc', F_LAG
      PROVE  wall' \/ travel' = 0
  <2>1. rising = 2 /\ gap = 0 /\ ~Moves
    BY <1>1, <1>4 DEF FrameTiming, SkipInv, WallInv, HTypeOK, TypeOK, Moves
  <2>2. curr_State \in {"increment2", "score4"}
    <3>1. ~menu_screen
      BY <1>2, <1>4, ScoreAssumption DEF SkipInv, LivesInv, F_LAG
    <3> QED BY <1>1, <1>4, <3>1 DEF Transits, H_STATE, E_STATE, menu_screen, Scoring
  <2>3. CASE Homing
    BY <1>1, <2>3, MoveIs
  <2>4. CASE ~Homing
    <3>1. curr_State = "score4" /\ ~inc
      BY <2>2, <2>4 DEF Homing, LevelInv
    <3>2. MapShown(count, curr_State) = MapShown(count', curr_State')
      <4>1. count' = count
        BY <1>1, <3>1, CountIs DEF H_STATE, E_STATE
      <4> QED BY <1>4, <3>1, <4>1 DEF MapShown
    <3>3. (wall /\ travel = 2) \/ travel = 0
      BY <2>1, <3>1 DEF SkipInv, WallInv, TravelInv, Scoring, Since, menu_screen
    <3>4. travel' = travel
      BY <1>1, <2>1, <2>4, MoveIs
    <3> QED BY <1>1, <2>1, <2>4, <3>2, <3>3, <3>4, MoveIs
  <2> QED BY <2>3, <2>4
<1> QED BY <1>2, <1>3, <1>4 DEF LivesInv

\* A frame edge that finds a contact being scored finds the player in the wall:
\* the last move was a frame ago.
LEMMA SkipFrame == ASSUME HTypeOK, SkipInv, HFrameEdge PROVE SkipInv'
<1>1. /\ gap = FrameGap /\ ~Reset_h /\ ScoreTrack /\ rising' = 2 /\ gap' = 0
      /\ score_CU' = (curr_State = "score4")
      /\ UNCHANGED <<Reset_h, curr_State, inc, count, travel, place, wall, moved, patient>>
  BY DEF HFrameEdge, FrameEdge, fsmVars, arenaVars, score_CUI
<1>2. TravelInv' /\ StartInv' /\ EndInv'
  BY <1>1 DEF SkipInv, TravelInv, StartInv, EndInv, E_SIGNAL, menu_screen
<1>3. WallInv'
  <2>1. curr_State \in Scoring => wall \/ travel = 0
    BY <1>1, FrameAssumption DEF SkipInv, WallInv, Scoring, Since
  <2> QED BY <1>1, <2>1 DEF WallInv
<1>4. LivesInv'
  <2>1. patient /\ menu_screen => ones' = 0 /\ ~score_CU'
    BY <1>1 DEF SkipInv, LivesInv, ScoreTrack, menu_screen
  <2> QED BY <1>1, <2>1 DEF LivesInv, menu_screen
<1> QED BY <1>2, <1>3, <1>4 DEF SkipInv

\* Every step keeps SkipInv.
LEMMA SkipStep == HTypeOK /\ LevelInv /\ ClearInv /\ SkipInv /\ [HNext]_hvars => SkipInv'
<1> SUFFICES ASSUME HTypeOK, LevelInv, ClearInv, SkipInv, [HNext]_hvars PROVE SkipInv'
  OBVIOUS
<1>1. ASSUME NEW button \in BOOLEAN, HClkEdge(button) PROVE SkipInv'
  <2>1. CASE Reset_h
    BY <1>1, <2>1, SkipReset
  <2>2. CASE ~Reset_h
    BY <1>1, <2>2, TravelStep, StartStep, EndStep, WallStep, LivesStep DEF SkipInv
  <2> QED BY <2>1, <2>2
<1>2. CASE HFrameEdge
  BY <1>2, SkipFrame
<1>3. CASE UNCHANGED <<Reset_h, fsmVars, count, scoreVars, arenaVars, frameVars, hist>>
  <2>1. /\ UNCHANGED <<Reset_h, curr_State, inc, count, score_CU, ones>>
        /\ UNCHANGED <<travel, place, wall, rising, gap, moved, patient>>
    BY <1>3 DEF fsmVars, scoreVars, arenaVars, frameVars, hist
  <2>2. TravelInv' /\ StartInv' /\ EndInv'
    BY <2>1 DEF SkipInv, TravelInv, StartInv, EndInv, E_SIGNAL, menu_screen
  <2>3. WallInv' /\ LivesInv'
    BY <2>1 DEF SkipInv, WallInv, LivesInv, F_LAG, menu_screen
  <2> QED BY <2>2, <2>3 DEF SkipInv
<1> QED BY <1>1, <1>2, <1>3 DEF HNext, HSetKeycode, SetKeycode, hvars, vars

\* No finish line is counted twice: between two changes of the level the sprites
\* have been homed and have moved twice.
THEOREM LevelsNotSkipped == HSpec => NoLevelSkipped
<1>1. HInit => ClearInv
  BY DEF HInit, Init, ClearInv, TitleClearsScore
<1>2. SkipInv /\ [HNext]_hvars
        => [patient /\ curr_State = "increment2" /\ count' = count + 1 => moved = 2]_hvars
  BY DEF SkipInv, TravelInv, Advancing
<1> QED
  BY <1>1, <1>2, SkipInit, SkipStep, ClearStep, TypeCorrect, LevelInvariant, PTL
     DEF HSpec, NoLevelSkipped
=============================================================================
