---------------------------- MODULE BuildingBlocks ----------------------------
(***************************************************************************)
(* Parts that are used by one caller at a time and share nothing: the link *)
(* planner, the selection of poles, the preparation of the footprints, the *)
(* antenna gain, the link profile, the tables of sites and the compiler of *)
(* metrics, with what each of them promises.                               *)
(***************************************************************************)
EXTENDS LinkPlanning

CONSTANTS
  Cases,
  Buildings, Tiles, BatchSize, MaxFailures, MaxCrashes, MaxRuns, Garbled,
  Queries, Raised,
  Views, Radius,
  Profiles, Tables, Grids, ZoneOf, MaxCopies, Inf, Unlimited, Blank,
  Specs, Links, Undefined, Dependencies(_, _), Fits(_, _), Eval(_, _, _, _)

VARIABLES
  case, step, radius, near, band, sector, ring, picked,
  height, progress, processed, todo, batch, updates, stage, parquets, index,
  unread, crashes, runs,
  query, gain,
  view, reading, slices, ribbons, features,
  table, crs, held, origin, copies,
  spec, phase, visited, stack, order, link, derived, outcome

Selection == INSTANCE PoleSelection
Footprints == INSTANCE FootprintData
Antenna == INSTANCE AntennaGain
Profile == INSTANCE LinkProfile WITH stage <- reading
Rows == INSTANCE SiteTables
Metric == INSTANCE MetricCompiler

ASSUME SelectionAssumption == Selection!CasesAreDistinct

ASSUME FootprintAssumption == Footprints!BuildingsArePlaced

ASSUME AntennaAssumption == Antenna!QueriesAreOfLibrary

ASSUME ProfileAssumption == Profile!ViewsAreRasters

ASSUME TablesAssumption == Rows!TablesAreWritten

ASSUME SpecsAssumption == Metric!SpecsAreWritten

-----------------------------------------------------------------------------
\* The poles picked are spread over sectors and rings and are the highest of
\* theirs, and poles far away or off the path are taken for want of better ones only
\* (pole_graph_async.py, _get_poles_by_sector_band, _adaptive_radius_filter and
\* _cone_angle_filter).
PolesAreWellPicked == Selection!SelectionIsSpread /\ Selection!DetoursAreNeeded

\* A tile noted as processed has given its buildings their heights, whatever died
\* in between (gob_footprints_utils.py, update_height).
NotedTilesAreMeasured == Footprints!NotedTilesAreMeasured

\* A building is in every parquet file that is indexed where it stands, and where that
\* is south and west, its file is indexed there (gob_footprints_utils.py,
\* shatter_duckdb_with_heights and create_parquet_index).
IndexedWhereItStands == Footprints!IndexedWhereItStands

\* The gain is that of the direction seen from the antenna, around the whole circle
\* (antenna_planner.py, effective_gain_dbi).
GainIsOfItsDirection == Antenna!GainIsOfItsDirection

\* Nothing in the way of a link is lost between the rasters and its features
\* (dem_utils.py, extract_and_profile to get_path_segments; geo_info.py,
\* fresnel_matrix_invasion and extract_link_features).
ObstaclesAreKept == Profile!ObstaclesAreKept

\* A scenario gives the planner the same nodes after any copies through bundles, JSON
\* and the client SDK (planning_scenario.py and client_sdk, bundle.py).
CopiesPlanAlike == Rows!CopiesPlanAlike

\* A specification that is compiled has an order that can be evaluated and holds what
\* its result needs, one that is refused is refused for a reason, and a compiled metric
\* returns for every link what the specification means, or fails where the meaning is
\* undefined (metric_compiler.py, _topological_order and CompiledMetric.__call__).
CompiledMetricIsSound == Metric!OrderIsUsable /\ Metric!MetricIsMeaning

\* The land cover of a ribbon is that of the nearest points: "Select ID of the closest
\* lateral neighbor" (dem_utils.py, sample_lulc_ids).
CoverIsNearest == Profile!CoverIsNearest

=============================================================================
