---------------------------- MODULE MCHubWorkers ----------------------------
(***************************************************************************)
(* Two users, two ports and two concurrent requests; two processes, for a  *)
(* worker of each user, or for a lost or stopping worker of one user and   *)
(* its replacement.                                                        *)
(***************************************************************************)
EXTENDS HubWorkers

CONSTANTS u1, u2, w1, w2, p1, p2, r1, r2, g1

MCUsers == {u1, u2}
MCWorkers == {w1, w2}
MCPorts == {p1, p2}
MCRequests == {r1, r2}
MCRegisters == {g1}

=============================================================================
