------------------------------ MODULE MCTenantRpc ------------------------------
(***************************************************************************)
(* Instances of TenantRpc for TLC.                                         *)
(***************************************************************************)
EXTENDS TenantRpc, TLC

CONSTANTS A, B

\* Either tenant's context around the code, or one without tenancy.
Around == {<<TenantFrame(A)>>, <<TenantFrame(B)>>, <<BypassFrame>>}

\* Nothing configured; the transport named and the policy 'throw'; the policy
\* alone.
Configured == {[transport |-> "auto", throws |-> FALSE],
               [transport |-> "bull", throws |-> TRUE]}
Undetected == {[transport |-> "auto", throws |-> TRUE]}

Symmetry == Permutations(Messages) \cup Permutations(Deliveries)
===============================================================================
