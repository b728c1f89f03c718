----------------------------- MODULE MCAppLease -----------------------------
(* Instance of AppLease: two apps, two registration ids, a lease of        *)
(* three heartbeats as in the code, a check every unit, and stalls of up   *)
(* to five units (longer than the lease and a check together).             *)
EXTENDS AppLease

MCCheck == 1
MCHeartbeat == 1
MCExpiry == 3
MCMaxStall == 5
=============================================================================
