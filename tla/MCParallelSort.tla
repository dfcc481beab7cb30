--------------------------- MODULE MCParallelSort ---------------------------
(* All inputs of up to five numbers, and some longer ones, of which each    *)
(* half holds numbers that are too far apart to subtract.                   *)
EXTENDS ParallelSort

Ints == -IntMax - 1 .. IntMax

MCInputs ==
  UNION {[1 .. n -> Ints] : n \in 0 .. 5}
    \cup {<<1, 0, -1, 1, 0>>, <<0, 1, -2, -1, 1, 0>>, <<1, -1, 0, 0, -2, 1>>}

=============================================================================
