--------------------------- MODULE MCModelManager ---------------------------
(* Three jobs asking for models at once, on a card of any size band.       *)
EXTENDS ModelManager, TLC

(* "Unknown", the two edges of budgetForVram() and what is beyond them.    *)
MCVramSizes == {0, 5, 6, 9, 10}
=============================================================================
