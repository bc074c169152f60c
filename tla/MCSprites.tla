----------------------------- MODULE MCSprites -----------------------------
(***************************************************************************)
(* A screen of eight by nine bits for Sprites, with two pixels to a bit    *)
(* and sprites of four: two rooms with a gap on the right, and a door.     *)
(***************************************************************************)
EXTENDS Sprites

Maze == {  0,  1,  2,  3,  4,  5,  6,  7,
           8,                         15,
          16,                         23,
          24,                         31,
          32, 33, 34, 35,             39,
          40, 41, 42,                 47,
          48,                         55,
          56,
          64                              }

MCWalls == [title |-> {}, menu |-> 0..71, maze |-> Maze, over |-> {18, 35, 52}]

MCBallRow == <<7, 7>>
=============================================================================
