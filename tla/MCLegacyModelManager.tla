------------------------ MODULE MCLegacyModelManager ------------------------
(* Chat requests on a card of any size band, and the idle timer.           *)
EXTENDS LegacyModelManager, TLC

(* One total of each band of budgetForVram(), and "unknown".               *)
MCVramSizes == {0, 6, 10}
=============================================================================
