------------------------------ MODULE MCARCMrc ------------------------------
(* A cache of size 2 with one key more than its directory can hold; the    *)
(* curve of the sizes 1 and 2; an empty curve.                             *)
EXTENDS ARCMrc

CONSTANTS k1, k2, k3, k4, k5

Arguments(from, to, low, high, keys) ==
  [min_size |-> from, max_size |-> to, min_ticks |-> low, max_ticks |-> high, keys |-> keys]

MCArgs ==
  {Arguments(2, 3, 2, 4, {k1, k2, k3, k4, k5}), Arguments(1, 3, 1, 2, {k1, k2, k3, k4}),
   Arguments(3, 1, 0, 2, {k1})}
SizeTwo == {Arguments(2, 3, 1, 1, Key)}
=============================================================================
