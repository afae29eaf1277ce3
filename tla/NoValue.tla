------------------------------- MODULE NoValue -------------------------------
(* What stands for no value, in modules that are composed with one another. *)
CONSTANT None
=============================================================================
