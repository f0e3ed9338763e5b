-------------------------- MODULE MCSonicEnforcer --------------------------
(* Instances of SonicEnforcer, and what the repository says of the backend   *)
(* where the code differs.                                                   *)
EXTENDS SonicEnforcer, TLC

PortSymmetry == Permutations(Ports)

\* "a backend that cannot confirm it programmed the dataplane MUST return an
\* error" (crates/enforce/src/lib.rs:14): after a call that succeeded the port
\* is bound to the ACL of its grant.
SuccessMeansBound ==
  \A p \in serving : ~call[p].busy /\ applied[p].filter_id # None =>
    p \in acl_ports[applied[p].filter_id]
=============================================================================
