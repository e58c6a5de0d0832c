---------------------------- MODULE MCToolCache ----------------------------
(***************************************************************************)
(* Two spellings of one query and a second query, for TLC.                 *)
(***************************************************************************)
EXTENDS ToolCache

Spellings == {"fpt", "FPT ", "vnm"}
Lowered == {"fpt", "vnm"}
LowerAndTrim == [q \in Spellings |-> IF q = "vnm" THEN "vnm" ELSE "fpt"]
=============================================================================
