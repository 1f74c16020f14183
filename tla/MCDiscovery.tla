----------------------------- MODULE MCDiscovery -----------------------------
(***************************************************************************)
(* An instance that may move from one host to another, and one that shares *)
(* its first host.                                                         *)
(***************************************************************************)
EXTENDS Discovery

CONSTANTS i1, i2, h1, h2

MCInstances == {i1, i2}
MCHosts     == {h1, h2}
MCAddrs     == {<<i1, h1>>, <<i1, h2>>, <<i2, h1>>}

=============================================================================
