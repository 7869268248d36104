----------------------------- MODULE MCServerParts -----------------------------
(* Points for the grid; the other parts take their values from the .cfg. *)
EXTENDS ServerParts

At(x, y) == [x |-> x, y |-> y, z |-> 0]

\* a plane: negative coordinates, cell edges, and one beyond the last cell
MCPoint == {At(-7, 0), At(-1, -1), At(0, 0), At(0, 3), At(2, 3), At(3, 0), At(9, 3)}

MCMinCell == -2
===============================================================================
