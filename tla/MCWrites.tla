------------------------------ MODULE MCWrites ------------------------------
(***************************************************************************)
(* Writes for TLC.  Threads, keys and columns are interchangeable: no      *)
(* operator of Writes orders them or singles one out.                      *)
(***************************************************************************)
EXTENDS Writes, TLC

Symmetry == {p @@ q @@ r : p \in Permutations(Threads), q \in Permutations(Keys),
                           r \in Permutations(Columns)}
=============================================================================
