------------------------ MODULE MCTypingIndicators ------------------------
(* Instances of TypingIndicators for TLC. *)
EXTENDS TypingIndicators
=============================================================================
