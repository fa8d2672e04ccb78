-------------------------- MODULE MCHardStateStore --------------------------
(* Two candidates and two terms are enough for a vote to be lost and cast  *)
(* again; three generations let several persists fail or complete.          *)
EXTENDS HardStateStore
=============================================================================
