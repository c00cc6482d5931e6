---------------------------- MODULE MCGcpInfra ----------------------------
(* A small project for GcpInfra: all resources ask for one network.        *)
EXTENDS GcpInfra

CONSTANTS r1, r2, percona, other, default

SameName == [r \in Resource |-> percona]
===========================================================================
