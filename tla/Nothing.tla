------------------------------- MODULE Nothing -------------------------------
(***************************************************************************)
(* The value that stands for null and undefined in the windows of the page: *)
(* one constant, since the page has all of them.                             *)
(***************************************************************************)
CONSTANT None
=============================================================================
