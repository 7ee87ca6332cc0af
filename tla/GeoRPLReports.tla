--------------------------- MODULE GeoRPLReports ---------------------------
(***************************************************************************)
(* GeoRPL with the reports made of its network: what a finished run_RPL    *)
(* left is what the tables of the result and of the live graph say.        *)
(***************************************************************************)
EXTENDS GeoRPL

CONSTANTS
  Primary,      \* the interfaces of the primary technology
  Thresholds    \* quality thresholds a report may be asked for

ASSUME ReportsAssumption == None \notin Int /\ Thresholds \subseteq Int

Reports == INSTANCE PlanningReports

Near(shortest, n, threshold) == shortest[n] # Inf /\ shortest[n] <= threshold

\* The qualities told with one threshold, of the serialized result and of the graph.
QualitiesAreTold(shortest, result, threshold) ==
  LET table   == Reports!QualityTable(result, threshold)
      targets == {n \in DOMAIN nodes : ~nodes[n].connected}
  IN /\ table = Reports!LiveQualityTable(nodes, rank', network', threshold)
     /\ \A n \in targets :
          /\ table[n] = "unserved" <=> shortest[n] = Inf
          /\ table[n] = "good" <=> Near(shortest, n, threshold)
     /\ Reports!QualitySummary(table).success <=>
          targets # {} /\ \A n \in targets : Near(shortest, n, threshold)

ServiceIsTold(shortest, service, load) ==
  /\ \A n \in DOMAIN service :
       /\ service[n].served <=> shortest[n] # Inf
       /\ service[n].served =>
            shortest[n] = shortest[service[n].parent] + service[n].metric
  /\ \A cell \in DOMAIN load :
       load[cell] = Cardinality({n \in DOMAIN service : service[n].parent = cell})

RunIsReported(shortest) ==
  LET result == Reports!ToResultDict(nodes, metric, network')
  IN /\ \A threshold \in Thresholds : QualitiesAreTold(shortest, result, threshold)
     /\ ServiceIsTold(shortest, Reports!ServiceTable(result), Reports!CellLoadTable(result))

\* A finished run is reported as it is, whichever way and whatever earlier run
\* left: the saved result and the RPL graph give the same qualities; a node is
\* unserved exactly when no relay path reaches it, and good exactly when the
\* shortest one is within the threshold; the plan succeeds exactly when that is
\* so for every node to be served; each client's metric is its last step on
\* that path; and the loads of the cells count the clients one step from them
\* (to_result_dict, PlanningSolution, CellPlanningSolution, planner_reports.py).
ReportsTellTheNetwork == [][RunEnd => \A shortest \in {PathRank} : RunIsReported(shortest)]_vars

=============================================================================
