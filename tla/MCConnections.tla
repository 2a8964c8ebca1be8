--------------------------- MODULE MCConnections ---------------------------
(***************************************************************************)
(* Connections for TLC.  Connection names are interchangeable, and so are  *)
(* callbacks with the same deferredCommitRecursion flag: no operator of    *)
(* Connections orders them or singles one out.  The liveness run does not  *)
(* use the symmetry.                                                       *)
(***************************************************************************)
EXTENDS Connections, TLC

Symmetry ==
  {p @@ q @@ r : p \in Permutations(Names), q \in Permutations(Callbacks \ Recursive),
                 r \in Permutations(Recursive)}
=============================================================================
