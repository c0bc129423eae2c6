-------------------------- MODULE MCRegistration --------------------------
(* Instances of Registration for TLC. *)
EXTENDS Registration, TLC

Interchangeable ==
    Permutations(Students) \cup Permutations(Invites) \cup Permutations(Registrars)
=============================================================================
