---------------------------- MODULE MCMemoryInit ----------------------------
(* The NB1's memory, no memory at all, and one node of each size on either *)
(* side of the bounds of the three layouts.                                *)
EXTENDS MemoryInit

Sizes == {2048, 3072, 3073, 4607, 4608, 5120, 5121, 6655, 6656, 7168, 7169,
          8192, 8703, 8704}

MCDeviceTrees ==
  {Nb1Memory, <<>>} \union {<<[base |-> \h80000, size |-> mb * SIZE_MB]>> : mb \in Sizes}

MCNb1Trees == {Nb1Memory}
=============================================================================
