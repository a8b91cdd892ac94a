--------------------------- MODULE MCCallLifecycle ---------------------------
(* Instances of CallLifecycle for TLC: call_rings.cfg and                   *)
(* call_missed_after_answer.cfg.  Users, calls and slots are model values.  *)
EXTENDS CallLifecycle, TLC
==============================================================================
