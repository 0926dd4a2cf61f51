------------------------------ MODULE MCAkill ------------------------------
(* Small instances of Akill: one operator with full access to the autokill    *)
(* list and OVERRIDE, one with restricted access to it who edits the ignore   *)
(* list.                                                                      *)
EXTENDS Akill, TLC

CONSTANTS sra, oper

MCFlags == (sra :> {"akill", "ahurt", "override"}) @@ (oper :> {"rakill", "ignore"})
=============================================================================
