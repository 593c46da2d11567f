--------------------------- MODULE MCCaseScreening ---------------------------
(* An instance of CaseScreening for TLC: two diamond patterns, one of them *)
(* with rules of its own, and a conventional one.                          *)
EXTENDS CaseScreening

CONSTANTS gan, dia, pkg
=============================================================================
