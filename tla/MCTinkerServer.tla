--------------------------- MODULE MCTinkerServer ---------------------------
(* Instances of TinkerServer: each name has a directory of its own, or two *)
(* names differ only in what state_path_to_local replaces.                 *)
EXTENDS TinkerServer, TLC

OwnDir(n) == n
OneDir(n) == CHOOSE d \in Dirs : TRUE
Symmetry == Permutations(Requests)
=============================================================================
