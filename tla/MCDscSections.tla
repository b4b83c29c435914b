--------------------------- MODULE MCDscSections ---------------------------
(***************************************************************************)
(* Instance of DscSections for TLC: every kind of line, in every order, in *)
(* documents of a few lines of one byte each.                              *)
(***************************************************************************)
EXTENDS DscSections

MCKinds == AllKinds \ {BeginOf["Feature"], EndOf["Feature"], BeginOf["ProcSet"],
                       EndOf["ProcSet"]}
=============================================================================
