------------------------------ MODULE OneOwner ------------------------------
(***************************************************************************)
(* What the instance lock promises (src/src/lock/instance-lock.ts): a data *)
(* folder has at most one owner; ownership is taken only when nobody has   *)
(* it, and is never handed over directly.                                  *)
(***************************************************************************)
CONSTANT Procs
VARIABLE owners

Init == owners = {}

(* InstanceLock.acquire returns a lock. *)
Take(p) == owners = {} /\ owners' = {p}

(* release, or the owner dies. *)
Leave(p) == p \in owners /\ owners' = owners \ {p}

Next == \E p \in Procs : Take(p) \/ Leave(p)

Spec == Init /\ [][Next]_owners
=============================================================================
