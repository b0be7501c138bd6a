----------------------------- MODULE MCNetServer -----------------------------
(* The network server with small pools. *)
EXTENDS NetServer
=============================================================================
