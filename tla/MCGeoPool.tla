------------------------------ MODULE MCGeoPool ------------------------------
(***************************************************************************)
(* One client for two extractions and a sample, so that somebody always    *)
(* waits for it; two callers that ask for one key or for two.              *)
(***************************************************************************)
EXTENDS GeoPool

CONSTANTS k1, k2, t1, t2, c1, c2, s1, g1

MCKeys == {k1, k2}
MCTasks == {t1, t2}
MCCallers == {c1, c2}
MCSamplers == {s1}
MCClients == {g1}

=============================================================================
