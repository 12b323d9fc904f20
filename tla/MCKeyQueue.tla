----------------------------- MODULE MCKeyQueue -----------------------------
(* A ring of four slots (capacity three): long enough for Head and Tail to *)
(* wrap independently and for the full and empty cases to meet.            *)
EXTENDS KeyQueue
CONSTANTS k0, k1, k2

MCKeyData == {k0, k1, k2}
=============================================================================
