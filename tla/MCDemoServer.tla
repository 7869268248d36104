----------------------------- MODULE MCDemoServer -----------------------------
(* Two small maps: three bots, of which two shoot together, and one bot with  *)
(* a cover that players and emitters wear down.  (A map of the code has a     *)
(* cover; those of the first are out of everybody's reach, and left out.)     *)
(* Three impacts fit; the ids of the fourth and the fifth are scoreboards'.   *)
EXTENDS DemoServer

MCScenes == {[bots |-> 3, effects |-> 1, covers |-> 0], [bots |-> 1, effects |-> 1, covers |-> 1]}
===============================================================================
