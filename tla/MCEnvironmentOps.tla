-------------------------- MODULE MCEnvironmentOps --------------------------
(* Instances of EnvironmentOps: a setup, and a removal that a reinstall    *)
(* follows with another setup; one plan with a host step, one without it   *)
(* that names another image.                                               *)
EXTENDS EnvironmentOps, TLC
CONSTANTS setup, rm, again, host, other

MCKind == [o \in Ops |-> IF o = rm THEN "remove" ELSE "setup"]
MCTarget == [o \in Ops |-> "runtime"]
MCFollowUp == [o \in Ops |-> IF o = rm THEN again ELSE None]
MCBasis == [d \in Digests |-> d]
MCSymmetry == Permutations(Cores)
=============================================================================
