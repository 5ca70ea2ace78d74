------------------------------ MODULE Routing ------------------------------
(***************************************************************************)
(* What every component speaks about: exact targets and the two paths.     *)
(***************************************************************************)
EXTENDS Naturals, FiniteSets

CONSTANT Targets  \* exact targets (profile, host, port, transport)

ASSUME FiniteTargets == IsFiniteSet(Targets)

Direct == "direct"
Proxy  == "proxy"
Paths  == {Direct, Proxy}
=============================================================================
