--------------------------- MODULE MCLoadBalancer ---------------------------
(* The instance of LoadBalancer that TLC checks. *)
EXTENDS LoadBalancer, TLC

\* Blocks and clients are interchangeable; no property is a liveness property.
Symmetry == Permutations(Client) \cup Permutations(Back)

=============================================================================
