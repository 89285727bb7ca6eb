---------------------------- MODULE MCDirectory -----------------------------
(* Directory, with names whose hashes are far apart, near, and alike. *)
EXTENDS Directory, TLC

MCNames == {"a", "b", "c", "d", "e", "f", "g"}

(* In 4 bits: a, b and c begin with the same 3 bits, d shares 2 of them, e *)
(* shares 1; f and g share none, and nothing but the first bit with each   *)
(* other.                                                                  *)
MCHashOf == [n \in MCNames |->
  CASE n = "a" -> 0 [] n = "b" -> 0 [] n = "c" -> 1
    [] n = "d" -> 2 [] n = "e" -> 5 [] n = "f" -> 12 [] n = "g" -> 8]

(* f takes twice the room of the others. *)
MCSizeOf == [n \in MCNames |-> IF n = "f" THEN 2 ELSE 1]
=============================================================================
