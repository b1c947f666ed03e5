-------------------------- MODULE MCSwarmTransport --------------------------
(***************************************************************************)
(* Three drones that all hear each other, the direct link between the      *)
(* first and the last one only at times.                                   *)
(***************************************************************************)
EXTENDS SwarmTransport

MCLink == {{1, 2}, {2, 3}, {1, 3}}
MCLossy == {{1, 3}}
=============================================================================
