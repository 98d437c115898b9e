----------------------------- MODULE MCTenants ------------------------------
(***************************************************************************)
(* Two processes, two ids, an org besides the default one and a rival.     *)
(***************************************************************************)
EXTENDS Tenants, TLC

CONSTANTS p1, p2

Managers == {[org |-> "acme", tenant |-> "acme-eu"], [org |-> "rival", tenant |-> "default"]}

Symmetric == Permutations(Procs)
=============================================================================
