---------------------------- MODULE MCRingBuffer ----------------------------
(***************************************************************************)
(* Two distinct samples, capacities from the clamped 0 to 4: small enough  *)
(* to explore every content of every buffer, large enough to wrap around,  *)
(* to grow and to shrink.                                                  *)
(***************************************************************************)
EXTENDS RingBuffer
MCRetentions == {0, 2, 3, 4}
=============================================================================
