----------------------------- MODULE MCWindowMap -----------------------------
(* Small instances of WindowMap for TLC. *)
EXTENDS WindowMap

==============================================================================
