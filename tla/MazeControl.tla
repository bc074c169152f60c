---------------------------- MODULE MazeControl ----------------------------
(***************************************************************************)
(* The control of the maze game: the state machines of FSM.sv, the level   *)
(* counter of counter.sv, the score of scoretrack.sv and the glue of       *)
(* top.sv that joins them.                                                 *)
(*                                                                         *)
(* Two clocks drive these registers.  ClkEdge is a rising edge of the      *)
(* 50 MHz Clk, FrameEdge a rising edge of VGA_VS.  Within an edge every    *)
(* register takes its new value from the values before the edge, so the    *)
(* wires of the design are operators over the unprimed variables.          *)
(*                                                                         *)
(* The sprites are abstracted to the Arena, which is what the control sees *)
(* of them.                                                                *)
(***************************************************************************)
EXTENDS Integers, Arena

CONSTANTS
    Keys,       \* the values of the keycode PIO
    LastLevel,  \* number of mazes; top.sv ends the game beyond it (3)
    CountMod,   \* 2^width of the level counter (8)
    LivesLimit, \* smallest C_ones the score display has no image for (28)
    OnesWrap,   \* value of ones that carries into tens (30)
    TensMod,    \* 2^width of tens (512)
    BounceMod,  \* 2^width of bounce (256)
    FrameGap    \* least number of Clk edges between two frame edges (840000)

ASSUME KeysAssumption == Keys \subseteq 0..255 /\ 0 \in Keys
ASSUME LevelAssumption == /\ LastLevel \in Nat /\ LastLevel >= 2
                          /\ CountMod \in Nat /\ CountMod > LastLevel + 1
ASSUME ScoreAssumption == /\ OnesWrap \in Nat /\ LivesLimit \in 1..OnesWrap
                          /\ TensMod \in Nat \ {0}
                          /\ BounceMod \in Nat \ {0}
ASSUME WidthAssumption == TensMod % BounceMod = 0   \* tens is the wider of the two
ASSUME FrameAssumption == FrameGap \in Nat /\ FrameGap >= 6

VARIABLES
    keycode,    \* the keycode PIO, written by the firmware
    Reset_h,    \* synchronised push button KEY[0]
    curr_State, \* the game state machine
    pokemon,    \* curstate, the choice of the player's sprite
    pokeball,   \* curstate_, the choice of the enemy's sprite
    inc,        \* registered inc_i: increments the counter, homes the sprites
    count,      \* the level counter
    clr,        \* registered clr_i, in the frame domain
    score_CU,   \* registered score_CUI, in the frame domain
    bounce,     \* the score shown on the hex display
    ones,       \* low part of the score shown on the screen
    tens,       \* high part of the score shown on the screen
    rising,     \* 2, 1: Clk edges until the frame's move; 0: none pending
    gap         \* Clk edges since the last frame edge, at most FrameGap

fsmVars   == <<curr_State, pokemon, pokeball, inc>>
scoreVars == <<clr, score_CU, bounce, ones, tens>>
frameVars == <<rising, gap>>
vars == <<keycode, Reset_h, fsmVars, count, scoreVars, arenaVars, frameVars>>

-----------------------------------------------------------------------------
(* Key codes the design compares with. *)

KeyStart == 44                     \* space
KeyMenu  == 16                     \* M
KeyEnter == 40
KeyEsc   == 41

PokemonKey  == [k \in {13, 14, 15} |->
                   CASE k = 13 -> "pokemona" [] k = 14 -> "pokemonb"
                     [] k = 15 -> "pokemonc"]
PokeballKey == [k \in {6, 25, 5, 17} |->
                   CASE k = 6 -> "pokeballa" [] k = 25 -> "pokeballb"
                     [] k = 5 -> "pokeballc" [] k = 17 -> "pokeballd"]

Scoring   == {"score1", "score2", "score3", "score4"}
Advancing == {"increment1", "increment2"}
InPlay    == {"games"} \cup Scoring \cup Advancing

TypeOK ==
    /\ keycode \in Keys
    /\ Reset_h \in BOOLEAN
    /\ curr_State \in {"HALT", "menu", "done"} \cup InPlay
    /\ pokemon \in {"choose", "pokemona", "pokemonb", "pokemonc"}
    /\ pokeball \in {"choose_", "pokeballa", "pokeballb", "pokeballc", "pokeballd"}
    /\ inc \in BOOLEAN
    /\ count \in 0..CountMod-1
    /\ clr \in BOOLEAN /\ score_CU \in BOOLEAN
    /\ bounce \in 0..BounceMod-1
    /\ ones \in 0..OnesWrap
    /\ tens \in 0..TensMod-1
    /\ travel \in 0..2
    /\ place \in {"clear", "ball", "exit"}
    /\ wall \in BOOLEAN
    /\ rising \in 0..2
    /\ gap \in 0..FrameGap

-----------------------------------------------------------------------------
(* The wires between the modules. *)

H_STATE     == curr_State = "HALT"
E_STATE     == curr_State = "done"
menu_screen == curr_State = "menu"
spr_on      == ~(H_STATE \/ E_STATE)
E_SIGNAL    == count > LastLevel
F_LAG       == ones >= LivesLimit
my_end      == place = "exit" /\ spr_on
sprite_coll == place = "ball"
coll_CU     == wall

(* Mutations of the two definitions below, for the mutation runs. *)
inc_i_BothStates  == (H_STATE /\ keycode \in {KeyStart, KeyMenu}) \/ curr_State \in Advancing
clr_i_OnKeysOnly  == H_STATE /\ keycode \in {KeyStart, KeyMenu}

inc_i     == (H_STATE /\ keycode \in {KeyStart, KeyMenu}) \/ curr_State = "increment1"
clr_i     == H_STATE
score_CUI == curr_State = "score4"

goto_state_IgnoresLives ==
    CASE H_STATE /\ keycode = KeyStart     -> "games"
      [] E_STATE /\ keycode = KeyEsc       -> "HALT"
      [] curr_State = "games" -> IF E_SIGNAL THEN "done"
                                 ELSE IF coll_CU THEN "score1"
                                 ELSE IF my_end THEN "increment1"
                                 ELSE IF sprite_coll THEN "done"
                                 ELSE "games"
      [] curr_State = "increment1" -> "increment2"
      [] curr_State = "score1"     -> "score2"
      [] curr_State = "score2"     -> "score3"
      [] curr_State = "score3"     -> "score4"
      [] curr_State \in {"increment2", "score4"} -> "games"
      [] OTHER -> curr_State

goto_state_StaysOnLast ==
    CASE H_STATE /\ keycode = KeyStart     -> "games"
      [] E_STATE /\ keycode = KeyEsc       -> "HALT"
      [] curr_State = "games" -> IF coll_CU THEN "score1"
                                 ELSE IF my_end /\ ~E_SIGNAL THEN "increment1"
                                 ELSE IF sprite_coll \/ F_LAG THEN "done"
                                 ELSE "games"
      [] curr_State = "increment1" -> "increment2"
      [] curr_State = "score1"     -> "score2"
      [] curr_State = "score2"     -> "score3"
      [] curr_State = "score3"     -> "score4"
      [] curr_State \in {"increment2", "score4"} -> "games"
      [] OTHER -> curr_State

goto_state ==
    CASE H_STATE /\ keycode = KeyStart     -> "games"
      [] H_STATE /\ keycode = KeyMenu      -> "menu"
      [] menu_screen /\ keycode = KeyEnter -> "games"
      [] E_STATE /\ keycode = KeyEsc       -> "HALT"
      [] curr_State = "games" -> IF E_SIGNAL THEN "done"
                                 ELSE IF coll_CU THEN "score1"
                                 ELSE IF my_end THEN "increment1"
                                 ELSE IF sprite_coll \/ F_LAG THEN "done"
                                 ELSE "games"
      [] curr_State = "increment1" -> "increment2"
      [] curr_State = "score1"     -> "score2"
      [] curr_State = "score2"     -> "score3"
      [] curr_State = "score3"     -> "score4"
      [] curr_State \in {"increment2", "score4"} -> "games"
      [] OTHER -> curr_State

nextstate == IF menu_screen /\ keycode \in DOMAIN PokemonKey
             THEN PokemonKey[keycode] ELSE pokemon

nextstate_ == IF pokeball = "choose_"
              THEN IF keycode \in DOMAIN PokeballKey
                   THEN PokeballKey[keycode] ELSE pokeball
              ELSE IF menu_screen THEN "choose_" ELSE pokeball

(* The bitmap on the screen, which is also the map of the walls.  The menu *)
(* map is a wall everywhere; on the others the sprite's home is free.      *)
MapShown(level, state) ==
    CASE level = 0 -> "title"
      [] level # 0 /\ (state = "done" \/ level > LastLevel) -> "over"
      [] level = 1 /\ state = "menu" -> "menu"
      [] OTHER -> "maze"

-----------------------------------------------------------------------------
Init ==
    /\ keycode = 0
    /\ Reset_h = FALSE
    /\ curr_State = "HALT" /\ pokemon = "choose" /\ pokeball = "choose_"
    /\ inc = FALSE /\ count = 0
    /\ clr = FALSE /\ score_CU = FALSE
    /\ bounce = 0 /\ ones = 0 /\ tens = 0
    /\ ArenaInit
    /\ rising = 0 /\ gap = FrameGap

(* FSM.sv: the state machines and the registered inc. *)
FSM ==
    /\ inc' = inc_i
    /\ curr_State' = IF Reset_h THEN "HALT" ELSE goto_state
    /\ pokemon'    = IF Reset_h THEN "choose" ELSE nextstate
    /\ pokeball'   = IF Reset_h THEN "choose_" ELSE nextstate_

Counter_KeptOnEsc ==
    count' = IF Reset_h THEN 0
             ELSE IF inc THEN (count + 1) % CountMod
             ELSE count

(* counter.sv, with the reset term top.sv feeds it. *)
Counter ==
    count' = IF Reset_h \/ (keycode = KeyEsc /\ ~spr_on) THEN 0
             ELSE IF inc THEN (count + 1) % CountMod
             ELSE count

Homing_OnResetOnly == Reset_h
Homing == Reset_h \/ inc
Moves  == rising = 1 /\ spr_on /\ ~Homing

(* The position registers of pokemon.sv and pokeball.sv. *)
Sprites == ArenaStep(Homing, Moves, MapShown(count, curr_State),
                                    MapShown(count', curr_State'))

(* The edge detectors of the sprites, and the VGA controller's period.     *)
(* Reset_h restarts the VGA controller, which raises VGA_VS on release.    *)
FrameTiming ==
    /\ rising' = IF rising > 0 THEN rising - 1 ELSE 0
    /\ gap' = IF Reset_h \/ gap = FrameGap THEN FrameGap ELSE gap + 1

(* One edge of Clk; button is the level of KEY[0] that the edge samples.   *)
ClkEdge(button) ==
    /\ FSM /\ Counter /\ Sprites /\ FrameTiming
    /\ Reset_h' = button
    /\ UNCHANGED <<keycode, scoreVars>>

ScoreTrack_LateCarry ==
    CASE score_CU -> /\ bounce' = (bounce + 1) % BounceMod
                     /\ ones' = IF ones > OnesWrap THEN 0 ELSE ones + 1
                     /\ tens' = IF ones > OnesWrap THEN (tens + 3) % TensMod
                                                   ELSE tens
      [] ~score_CU /\ clr -> bounce' = 0 /\ ones' = 0 /\ tens' = 0
      [] OTHER -> UNCHANGED <<bounce, ones, tens>>

ScoreTrack_KeepsBounce ==
    CASE score_CU -> /\ bounce' = (bounce + 1) % BounceMod
                     /\ ones' = IF ones = OnesWrap THEN 0 ELSE ones + 1
                     /\ tens' = IF ones = OnesWrap THEN (tens + 3) % TensMod
                                                   ELSE tens
      [] ~score_CU /\ clr -> UNCHANGED bounce /\ ones' = 0 /\ tens' = 0
      [] OTHER -> UNCHANGED <<bounce, ones, tens>>

(* scoretrack.sv: score_CU and clr are the values before the edge. *)
ScoreTrack ==
    CASE score_CU -> /\ bounce' = (bounce + 1) % BounceMod
                     /\ ones' = IF ones = OnesWrap THEN 0 ELSE ones + 1
                     /\ tens' = IF ones = OnesWrap THEN (tens + 3) % TensMod
                                                   ELSE tens
      [] ~score_CU /\ clr -> bounce' = 0 /\ ones' = 0 /\ tens' = 0
      [] OTHER -> UNCHANGED <<bounce, ones, tens>>

(* One rising edge of VGA_VS. *)
FrameEdge ==
    /\ gap = FrameGap /\ rising = 0 /\ ~Reset_h
    /\ clr' = clr_i
    /\ score_CU' = score_CUI
    /\ ScoreTrack
    /\ rising' = 2 /\ gap' = 0
    /\ UNCHANGED <<keycode, Reset_h, fsmVars, count, arenaVars>>

(* The firmware writes a new key code. *)
SetKeycode(k) ==
    /\ keycode' = k
    /\ UNCHANGED <<Reset_h, fsmVars, count, scoreVars, arenaVars, frameVars>>

Next == \/ \E button \in BOOLEAN : ClkEdge(button)
        \/ FrameEdge
        \/ \E k \in Keys : SetKeycode(k)

Spec == Init /\ [][Next]_vars

(* The oscillators keep running; the player owes nothing. *)
Fairness == /\ WF_vars(\E button \in BOOLEAN : ClkEdge(button))
            /\ WF_vars(FrameEdge)

-----------------------------------------------------------------------------
(* Liveness, under Fairness. *)

Over == curr_State \in {"done", "HALT"}

\* A player on a pokeball or out of lives loses, unless he gets off the ball
\* in time or runs into a wall without end: the four wait states of a score
\* cannot hide the end from the FSM for ever.
DoomEndsGame ==
    (curr_State \in InPlay /\ (sprite_coll \/ F_LAG))
        ~> (Over \/ ~(sprite_coll \/ F_LAG) \/ []coll_CU)

\* A player who keeps clear of the walls and keeps reaching the finish line
\* gets to the end screen: the last level is reached and ends the game.
FinishingEndsGame ==
    (curr_State \in InPlay /\ [](~Reset_h /\ ~coll_CU) /\ []<>(my_end \/ Over))
        ~> E_STATE
=============================================================================
