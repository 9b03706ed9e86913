----------------------------- MODULE VramBudget -----------------------------
(***************************************************************************)
(* models/vramBudget.ts and the table of keys, shared by the two model     *)
(* managers: how many models a card holds, and which model an intent uses. *)
(***************************************************************************)
EXTENDS Naturals

Keys == {"fe", "be", "advisor"}

KeyOf(intent) ==
    CASE intent = "advisor" -> "advisor"
      [] intent = "frontend" -> "fe"
      [] OTHER -> "be"

(* How many models may be resident at once; 0: the total is unknown.       *)
BudgetForVram(gb) ==
    CASE gb <= 5 -> 1
      [] gb > 5 /\ gb <= 9 -> 2
      [] OTHER -> 3

=============================================================================
