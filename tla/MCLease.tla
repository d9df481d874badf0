------------------------------ MODULE MCLease ------------------------------
(* The lease of one attempt, with an execution shorter than what is left of *)
(* start-up, so that the phase deadline moves closer, and a grace period    *)
(* longer than what is left of the lease.                                   *)
EXTENDS LeaseAuthority
=============================================================================
