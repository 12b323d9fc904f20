---------------------------- MODULE MCPageTables ----------------------------
(* Tables of two entries under a root of two: eight pages, blocks of four, *)
(* of two and of one of them.                                              *)
EXTENDS PageTables

Asks(api, type, ro, xn) == [api |-> api, type |-> type, ro |-> ro, xn |-> xn]

MCRequests == {
  Asks("FillTranslationTable", "WriteBack", FALSE, FALSE),
  Asks("FillTranslationTable", "Device", FALSE, FALSE),
  Asks("ArmSetMemoryAttributes", "none", TRUE, FALSE)}
=============================================================================
