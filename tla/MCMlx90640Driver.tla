------------------------- MODULE MCMlx90640Driver -------------------------
(* Instances of Mlx90640Driver for TLC. *)
EXTENDS Mlx90640Driver

CONSTANTS NULL, a1

OneTask == {a1}
=============================================================================
