----------------------------- MODULE ByteChannel -----------------------------
(***************************************************************************)
(* What a pipe promises its reader and its writer: a bounded channel that  *)
(* delivers the bytes in order.  The k-th byte put in has the value k.     *)
(***************************************************************************)
EXTENDS Naturals, Sequences

CONSTANT Capacity

VARIABLES chan, put, got

Init == chan = << >> /\ put = 0 /\ got = 0

Put ==
  /\ Len(chan) < Capacity
  /\ chan' = Append(chan, put + 1)
  /\ put' = put + 1
  /\ UNCHANGED got

Get ==
  /\ chan # << >>
  /\ got' = Head(chan)
  /\ chan' = Tail(chan)
  /\ UNCHANGED put

Spec == Init /\ [][Put \/ Get]_<<chan, put, got>>
=============================================================================
