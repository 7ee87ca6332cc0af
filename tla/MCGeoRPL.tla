------------------------------ MODULE MCGeoRPL ------------------------------
(***************************************************************************)
(* GeoRPL on four nodes: a root, two relays and one more node, with every  *)
(* metric of {0, 1, 3} on the links of two cycles, so that equal and zero- *)
(* metric alternatives, late improvements and detours that beat the direct *)
(* link all occur.                                                         *)
(***************************************************************************)
EXTENDS GeoRPLReports

CONSTANTS r, a, b, c

MCNodeIds == {r, a, b, c}

Root(k)  == [connected |-> TRUE, relay |-> TRUE, rank |-> k]
Relay    == [connected |-> FALSE, relay |-> TRUE, rank |-> Inf]
Leaf     == [connected |-> FALSE, relay |-> FALSE, rank |-> Inf]
MuteRoot == [connected |-> TRUE, relay |-> FALSE, rank |-> 0]

\* All relays behind one root; a second root of another rank and a leaf; no
\* root that may relay, so that run_RPL raises.
MCTables ==
  { [n \in MCNodeIds |-> IF n = r THEN Root(0) ELSE Relay],
    [n \in MCNodeIds |-> CASE n = r -> Root(0) [] n = c -> Root(1)
                           [] n = a -> Relay [] OTHER -> Leaf],
    [n \in {r, a} |-> IF n = r THEN MuteRoot ELSE Relay] }

Links == {{r, a}, {r, b}, {a, b}, {b, c}, {a, c}}

\* All metrics at once, that of one link fixed; or one link alone, as an
\* update does.
MCUpdates ==
  {u \in [Links -> {0, 1, 3}] : u[{a, c}] = 1}
    \cup [{{r, a}} -> {0, 3}]

MCLabels == 0..3

\* c is a gateway in one table and a client in the others.
MCPrimary == {r, c}

=============================================================================
