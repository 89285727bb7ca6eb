---------------------------- MODULE MCNamespace -----------------------------
(* Mount on Namespace, and fsck of it, with every path of up to three names, *)
(* and for one run those that begin with ".".                               *)
EXTENDS Mount, FsckWalk, TLC

CONSTANTS i1, i2

MCNames == {"kernel.bin", "a", "b"}
MCOrder == <<"a", "b", "kernel.bin">>
MCPaths ==
  LET N == MCNames IN
  {<<x>> : x \in N} \cup {<<x, y>> : x \in N, y \in N} \cup {<<x, y, z>> : x \in N, y \in N, z \in N}
MCDotPaths == MCPaths \cup {<<".">> \o p : p \in MCPaths}
MCSymmetry == Permutations({i1, i2})
=============================================================================
