-------------------------- MODULE MCCoffeeInvites --------------------------
(* Instances of CoffeeInvites for TLC. *)
EXTENDS CoffeeInvites, TLC

CONSTANTS host, g1, g2, w1, w2, sweeper

Symmetry == Permutations({w1, w2}) \union Permutations({g1, g2})

(* The other run's threads are never interchangeable with the sweeper's. *)
GuestSymmetry == Permutations({g1, g2})
=============================================================================
