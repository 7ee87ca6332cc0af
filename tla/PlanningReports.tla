--------------------------- MODULE PlanningReports ---------------------------
(***************************************************************************)
(* What is reported of a solved network: GraphPlanner.to_result_dict makes *)
(* a record of it, PlanningSolution and CellPlanningSolution               *)
(* (planning_solution.py, cell_planning_solution.py) read that record, and *)
(* planner_reports.py reads the RPL graph itself.                          *)
(*                                                                         *)
(* The operators work on the state of GeoRPL: nodes, metrics and network.  *)
(* Of the columns of a table those are kept that say who is served by whom *)
(* and how well.  Edges are pairs without a direction: every look-up tries *)
(* both.                                                                   *)
(***************************************************************************)
EXTENDS Integers, FiniteSets

CONSTANTS
  None,        \* null
  Inf,         \* math.inf
  Primary      \* the interfaces of the primary technology

\* _json_value: an infinite rank becomes null.
JsonValue(x) == IF x = Inf THEN None ELSE x

\* The edges of G_res: the parent links, with their metrics.
PlannedEdges(metric, network) ==
  [e \in {{n, network.parent[n]} : n \in {m \in network.members : network.parent[m] # None}} |->
     metric[e]]

\* to_result_dict: every RPL node as it was set, and the nodes of the network.
ToResultDict(nodes, metric, network) ==
  [rpl_nodes     |-> [n \in DOMAIN nodes |->
                        [connected |-> nodes[n].connected, rank |-> JsonValue(nodes[n].rank),
                         parent |-> None]],
   planned_nodes |-> [n \in network.members |->
                        [connected |-> nodes[n].connected, rank |-> JsonValue(network.rank[n]),
                         parent |-> network.parent[n]]],
   planned_edges |-> PlannedEdges(metric, network)]

\* Variant: the RPL nodes overlay the planned ones.
MergedUnplanned(result) ==
  [n \in DOMAIN result.rpl_nodes \cup DOMAIN result.planned_nodes |->
     IF n \in DOMAIN result.rpl_nodes THEN result.rpl_nodes[n] ELSE result.planned_nodes[n]]

\* _merged_node_records: the planned nodes overlay the RPL nodes.
MergedNodeRecords(result) ==
  [n \in DOMAIN result.rpl_nodes \cup DOMAIN result.planned_nodes |->
     IF n \in DOMAIN result.planned_nodes THEN result.planned_nodes[n] ELSE result.rpl_nodes[n]]

Quality(row, threshold) ==
  CASE row.connected -> "connected"
    [] ~row.connected /\ row.rank \in {None, Inf} -> "unserved"
    [] ~row.connected /\ row.rank \notin {None, Inf} /\ row.rank <= threshold -> "good"
    [] OTHER -> "poor"

\* quality_table
QualityTable(result, threshold) ==
  LET rows == MergedNodeRecords(result)
  IN [n \in DOMAIN rows |-> Quality(rows[n], threshold)]

\* quality_summary
QualitySummary(table) ==
  LET count(q) == Cardinality({n \in DOMAIN table : table[n] = q})
  IN [targets  |-> Cardinality({n \in DOMAIN table : table[n] # "connected"}),
      good     |-> count("good"), poor |-> count("poor"), unserved |-> count("unserved"),
      success  |-> /\ \E n \in DOMAIN table : table[n] # "connected"
                   /\ count("poor") = 0 /\ count("unserved") = 0]

\* service_table, and client_service_table which renames its columns.
ServiceTable(result) ==
  LET rows    == MergedNodeRecords(result)
      clients == {n \in DOMAIN rows : ~rows[n].connected /\ n \in Primary}
  IN [n \in clients |->
        [parent |-> rows[n].parent,
         served |-> rows[n].parent # None,
         rank   |-> rows[n].rank,
         metric |-> IF {n, rows[n].parent} \in DOMAIN result.planned_edges
                    THEN result.planned_edges[{n, rows[n].parent}] ELSE None]]

\* cell_load_table: clients per connected interface of the primary technology.
CellLoadTable(result) ==
  LET rows    == MergedNodeRecords(result)
      service == ServiceTable(result)
      cells   == {n \in DOMAIN rows : rows[n].connected /\ n \in Primary}
  IN [cell \in cells |->
        Cardinality({n \in DOMAIN service : service[n].served /\ service[n].parent = cell})]

\* planning_result_graph and planning_quality_table: the network, and the other
\* nodes of the RPL graph with the ranks they have there.
LiveQualityTable(nodes, rank, network, threshold) ==
  [n \in DOMAIN nodes |->
     Quality([connected |-> nodes[n].connected,
              rank |-> IF n \in network.members THEN network.rank[n] ELSE rank[n]], threshold)]

=============================================================================
