---------------------------- MODULE MCDelivery ----------------------------
(* Delivery on small instances. *)
EXTENDS Delivery, TLC

\* Relays are interchangeable.
RelaySymmetry == Permutations(Relays)
=============================================================================
