--------------------------- MODULE MCTrustedLocal ---------------------------
(* Instances of TrustedLocal for TLC. *)
EXTENDS TrustedLocal, TLC

Interchangeable ==
    Permutations(ClientToken) \cup Permutations(LaunchToken) \cup Permutations(RequestId)
=============================================================================
