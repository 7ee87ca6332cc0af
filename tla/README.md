# Network planner microservice: specifications, model checking and proofs

This directory specifies the CISEI network planning service in TLA+: the hub
that runs one worker process per user, the planning worker's shared state, the
pool of geo-service clients, the radio worker processes with their engines, the
editing and saving of planning scenarios, the ways their tables of sites take to the planner, the candidate graphs of cells and rules,
the RPL computation that turns metrics into a network, the reports made of it, the
repair of obstructed links with repeaters, and the pure parts these rest on: compiled
metrics, the choice of poles, antenna gains, the profile of a link and the preparation
of building footprints. TLC checks the specifications on small instances; TLAPS proves
the main properties of eleven of them for every value of their constants.

Every definition is translated from the Python sources (`PROJECT.json`, `map`,
names the lines). The repository has no README; its documentation is the
docstrings, `descricao_etapas_revisada.md`, the notebooks and the manual test
`tests/jupyter/test_jamhour.py`, and was used to learn what the code promises,
never as the source of a definition.

## 1. Inventory

```
client SDK ──HTTP──> hub (main_hub.py) ──proxy──> worker of the user (main.py)
                                                    │ RuntimeState (session.py)
                                                    │   planning_scenarios, planning_planners, geo_pools
                                                    ├─ stage routes (routes_planning.py)
                                                    │     PlanningScenario ─> GraphPlanner ─> GeoRPL ─> solution
                                                    │                         CellPlanner, LinkPlanner (pole graph)
                                                    └─ AsyncGeoServicePool ──threads──> geo service (rf, profiles, dem)
```

| Component | State | Operations | What is hard |
|---|---|---|---|
| **Hub** `app/main_hub.py` | `user_registry` (token, port, process, last_active), `STARTUP_LOCK`, child processes | `/register`, `/{user}/{path}` (just-in-time start, proxy), reaper, shutdown | handlers interleave at every await; processes die on their own; entries held across awaits; ports are reused |
| **Worker runtime** `app/session.py`, `routes_planning.py`, `main.py` | three dictionaries of shared objects | define, delete, build, tune, metrics, solve, workflow, shutdown | `def` handlers run on a thread pool with no lock, `async def` handlers on the event loop; a stage may go on with an object that was replaced |
| **Geo pool** `io/async_geo_service_pool.py` | client queue, cache, in-flight tasks, life cycle | start, get_request, point_samples, clear_cache, close | single flight, cancellation under `shield`, "busy" answers and retry, one link session per client, close against work in flight |
| **Geo service client** `io/geo_service_client.py`, the older `geo_service_pool.py`, `geo_notebook.py` | the link session of one worker at the service | set_src, set_dst, extract, samples, release | three calls that belong together |
| **Object storage** `io/minio_access.py` | local copies | download when missing | a download fails in the middle of a load |
| **GeoRPL** `planners/geo_rpl_agnostic.py` | nodes, metrics, ranks and parents on a graph | set_nodes, set_edge_metrics, run_RPL | a work list in arbitrary order, ties and zero metrics, repeated runs |
| **Graph planner** `planners/graph_planner.py` | candidate edges, features, metrics, RPL result | add candidates, compute/assign metrics, run_rpl, exports | derived state that must be dropped when its source changes |
| **Planning scenario** `planners/planning_scenario.py`, `planner_classes.py` | catalogs of profiles, sites, manual edges, connectivity rules; a TOML file and a companion CSV | add, replace, remove, import, save, load | errors half way through a batch, references between tables, a process that ends between two files |
| **Cell planner** `planners/cell_planner.py` | a scenario shared with a graph planner | candidates by sector, rotation search, tuning, pruning | edits records the scenario and the graph planner share; reports read the graph of an earlier rotation |
| **Pole graph, link planner** `planners/pole_graph_async.py`, `link_planner.py` | graph of evaluated edges, path, next hops | set_link, plan_link, graph_expansion | concurrent evaluations that may fail, repeated planning, the repeater limit |
| **Backhaul planners** `planners/bhPlan.py`, `mesh_bh_planner.py` | results per link | batches over the link planner | – |
| **Antenna planner** `planners/antenna_planner.py` | library of patterns | gain towards a destination, suggested orientation | the seam of the circle, uneven tables |
| **Metric compiler** `planners/metric_compiler.py` | compiled expressions | compile, evaluate | dependencies among expressions, features a link does not have |
| **Solutions, reports** `planners/planning_solution.py`, `cell_planning_solution.py`, `planner_reports.py` | the solved network | paths, descendants, summaries | pure functions on a forest |
| **Serializer, legacy planners** | – | JSON conversion | – |
| **Radio workers** `core/rf/geo_supervisor.py` | task and answer queues, worker processes | submit, collect, retire, respawn, shutdown | processes that retire or crash with a link in their hands |
| **Radio engine** `core/rf/rf_engine.py`, `core/profiles/geo_info.py`, `geo_info_vector.py` | open tiles, chosen data sets, paged buildings, the loaded link's dictionaries | load a link, evaluate it | state that outlives a link |
| **Terrain profiles** `core/profiles/geo_info.py`, `dem/dem_utils.py` | slices across a corridor | sample ribbons, segments, invasions, peaks | two frames of reference, points in the order of the raster |
| **Footprint data** `dem/gob_footprints_utils.py` | heights in a database, a progress file, parquet files, an index | measure, restart, split, index | the process dies between two of them |
| **core/plot** | – | figures | – |
| **importer, monitoring, usermng, tools** | data frames, database rows, home folders | conversion, import, configuration | repeated import, rules that fail softly |
| **Client SDK** `client_sdk/src/cisei_planning_sdk` | last payload per stage | load a bundle and make sites of its rows, one method per stage | it reads the files the service reads, with code of its own |

Left aside: `client_sdk/build` (a copy of the SDK), `.Trash-0`, `.codex_tmp`,
`.ipynb_checkpoints`, `planners/legacy`, `home` and `dist` (data, wheels).

What makes each part correct, in one line each:

* hub: one worker per user, requests reach the user's own worker, every request
  is answered, idle workers go away, nothing is left at shutdown;
* worker runtime: a planner belongs to the scenario it is offered for, a network
  comes from metrics that were saved and accepted, pools are reused, and none is lost but those of handlers
  that start the pool of a key together;
* geo pool: one extraction per key, features cached under the link they
  describe, no client lost, nobody waits for ever, close waits for work;
* GeoRPL: the result is a shortest-rank forest, whatever the order of work;
* graph and cell planner: one edge per link, metrics belong to the candidate graph,
  a suggested rotation loses clients only as far as the weights pay for in balance, tuning removes idle sectors only;
* link planner: the next hops spell the plan and planning never makes it worse;
* scenario: references between tables stay closed, an import that stopped half way can be
  completed, a saved bundle loads as it was saved;
* scenario and SDK: the planner gets the same nodes whatever way a table of sites took;
* radio workers and engine: an answer is the one a new process would give, and
  none is waited for in vain;
* metric compiler: a compiled metric is what its specification means;
* poles, antennas, profiles, footprints: the choice is spread out, a gain is that of its
  direction, no obstacle between raster and features is lost, heights are there before they are noted.

## 2. Modules

| Module | Models | Checked by | Proved in |
|---|---|---|---|
| `RplRouting` | what RPL planning promises, without paths or work lists (abstract) | as `RoutingSpec` of `GeoRPL` | `GeoRPLProofs` |
| `GeoRPL` | `geo_rpl_agnostic.py` | `MCGeoRPL` | `GeoRPLProofs` |
| `PlanningReports` | result dictionary of `graph_planner.py`, `planning_solution.py`, `cell_planning_solution.py`, `planner_reports.py` (operators) | `MCGeoRPL` | `GeoRPLProofs` |
| `GeoRPLReports` | `GeoRPL` with the reports made of its network; no state of its own | `MCGeoRPL` | `GeoRPLProofs` |
| `HubWorkers` | `main_hub.py`; processes and ports external | `MCHubWorkers` | `HubWorkersProofs` |
| `GeoPool` | `async_geo_service_pool.py`, link sessions of the service | `MCGeoPool` | `GeoPoolProofs` |
| `PlanningRuntime` | `session.py`, `routes_planning.py`, `run_rpl` of `graph_planner.py` | `MCPlanningRuntime` | `PlanningRuntimeProofs` |
| `CellPlanning` | `cell_planner.py` on `graph_planner.py`, manual edges of the scenario | `MCCellPlanning` | `CellPlanningProofs` |
| `ScenarioEditing` | `planning_scenario.py` with the records of `planner_classes.py` | `MCScenarioEditing` | `ScenarioEditingProofs` |
| `SiteTables` | reading and writing of sites: `planning_scenario.py`, `planner_classes.py`, `bundle.py` of the SDK | `MCBuildingBlocks` | `BuildingBlocksProofs` |
| `RfEngine` | the engine of a radio worker: `rf_engine.py` on `geo_info.py`, `geo_info_vector.py` (operators) | through `RfWorkers` | `RfWorkersProofs` |
| `RfWorkers` | `geo_supervisor.py`, each process with an `RfEngine` | `MCRfWorkers` | `RfWorkersProofs` |
| `LinkPlanning` | `link_planner.py` on `pole_graph_async.py` | `MCBuildingBlocks` | `BuildingBlocksProofs` |
| `PoleSelection` | the sector and band search of `pole_graph_async.py` | `MCBuildingBlocks` | `BuildingBlocksProofs` |
| `MetricCompiler` | `metric_compiler.py`, with the expressions as constants | `MCBuildingBlocks` | `BuildingBlocksProofs` |
| `MetricExpressions` | the expressions of `metric_compiler.py`: references, checks, value (operators) | `MCBuildingBlocks` | – |
| `FootprintData` | `gob_footprints_utils.py` | `MCBuildingBlocks` | `BuildingBlocksProofs` |
| `AntennaGain` | the gain of `antenna_planner.py` | `MCBuildingBlocks` | `BuildingBlocksProofs` |
| `LinkProfile` | corridor, ribbons, segments and peaks of `geo_info.py` and `dem_utils.py` | `MCBuildingBlocks` | `BuildingBlocksProofs` |

Compositions: `RfWorkers` extends `RfEngine`, one engine per process; `GeoRPLReports` reads the network of
`GeoRPL` through the reports of `PlanningReports`, and `GeoRPL` implements `RplRouting`
(`Routing == INSTANCE RplRouting WITH ...`, the property `RoutingSpec`); `CellPlanning` composes the cell planner, the graph planner
and the scenario they share. `BuildingBlocks` brings together the parts that one caller at a time uses and that share nothing, with what each
promises; `MCBuildingBlocks` runs one of the seven per behaviour, so that their states add up and do not multiply, and gives the metric compiler the
expressions of `MetricExpressions` (trees, read by recursive operators, which the proofs must not reach).

Definitions called *variant* in a comment are deliberately wrong forms of the
definition that follows them. No specification uses them: each shows that the
property named for it in `PROJECT.json` (`mutants`) really depends on that part
of the code.

### GeoRPL and RplRouting

State: `nodes` (the table given to `set_nodes`: connected, relay, rank), `metric`
(edges of `self.G`), `rank` and `parent` (node attributes), `todo` (the set
`run_RPL` pops from), `running`, `network` (the result graph). `SetNodes`,
`SetEdgeMetrics` (with and without `update`; a call that raises on a bad item has
applied the items before it, so the action takes any mapping of applied items),
`RunStart`, `Expand` (one pop, all its neighbours) and `RunEnd`. `set.pop`
returns any element, so `Expand` takes any node of `todo`. A run is one synchronous call:
the other operations wait for `~running`.

`RplRouting` says what the caller relies on. `Solve` changes the network into one
whose labelling is *stable* (no relay link could improve it), *realised* by parents
that never loop, and *greatest* (no stable labelling lies above it): the lengths of
the shortest relay paths, without mentioning paths. The refinement maps the variables
of the same name; the propagation itself is a stutter.

### HubWorkers

A step is what runs between two awaits. `registered`, `worker` and `idle` are
`user_registry`; `proc`, `owner` and `port` describe the child processes; `lock` is
`STARTUP_LOCK`; `req`, `stop` and `left` are the suspended handlers: proxied
requests, calls of `stop_worker` (by `/register`, the reaper, the shutdown) and the
two loops over the registry. A health check is one step (`Healthy`), it succeeds when anybody
listens on the port. The process that died, the start that timed out and the unexpected `httpx`
error that leaves the process running unregistered are the outcomes of `StartFails`. External: `Boot`, `Exit` and `Crash` of processes, which happen when the
operating system likes. `stop_worker` resumes some time after the exit (`StopEnd`):
asyncio wakes the waiters of `Process.wait` only once the pipes are closed, while
`returncode` shows at once; otherwise the five-second timeout does. Token checks only
reject requests and are left out, and time is the flag `idle`.

### GeoPool

`life` combines `_started`, `_closed` and the place where `close` waits; `free` is the
client queue (a set: the order in which clients are handed out does not matter to
any property; the strong fairness of `Take` is what the FIFO queue gives); `cache` maps a
key to the key its features describe, so a mixed-up link session is visible; `task` is one
extraction with its client and result; `caller` and `sampler` are the coroutines;
`link` and `remote` are the service's side. An extraction is `Take`, `SetLink`,
`LinkFeatures` (on a thread, so other coroutines run between them), then `Resume`,
`ResumeBusy` (give the client back, sleep, retry) or an error. `CancelCaller` leaves the
shielded task running. Restrictions: `start` and `close` are called by one coroutine, as
`get_geo_pool` and `lifespan` do; the thread of a cancelled sample may still use its
client, which `point_samples` does without touching the link session.

### PlanningRuntime

Scenarios, planners and pools are object identities, a metric mapping is its content.
The `def` handlers are split at every access to shared state, `compute_metrics` and
`run_workflow` at their awaits. `saved` is a history variable: the mappings callers
stored in a planner. `GetPool` is the look into the table, `PoolStarted` and `PoolFails` what follows the await of
`start`, where the pool is stored without a second look: `LostPools` are the open pools this leaves out of the table. `Serial` holds the ids whose clients wait for each answer, as the
SDK's `ScenarioSession` does; `PlannerIsCurrent` is claimed of those only, because a client that overlaps
stages of one id can have a planner stored for a scenario that was replaced while it was built. Left out:
read-only handlers, edges and features of a planner, and the effect of tuning on the scenario.

### CellPlanning

`installed` and `manual` are the scenario's interfaces and candidate edges, `nodes` the
planner's `rpl_nodes` (made once, while pruning edits the site nodes behind `installed`),
`rotation` the cell planner's offsets, `edges` the candidate graph with the rule each edge
comes from, `attrs` its attributes (`candidate_edge_attrs`: of the edges that were built last), `metrics`, `features` and `rpl` the results.
`BuildGraph`, `BuildCell` and `Tune` are the stage
handlers, which make a planner of their own for a scenario that validates; `Rebuild`, `Rotate`,
`Suggest`, `Prune`, `RemoveSectors` are the calls a notebook makes on the planner it holds.
`compute_edge_metrics` stores all metrics at its end or fails. Without `candidate_edges` (`Compute`) it takes the graph there is, or builds the
rules' graph when there is none; with them (`ComputeRequested`) they become the candidate graph, and nothing else of the planner is cleared.
`Assign` and `Solve` are as in `PlanningRuntime`, here without overlaps. Angles are units of a discrete circle,
distances and bearings tables. `Score` is the weighted sum of `_rotation_score`, for whatever weights the caller gives: the ratio of uncovered clients and the standard
deviation of the loads over their mean, as one fraction; the square root in it is rounded up to a multiple of `1/Precision`, where the code has
a float. `LossIsPaidFor` compares what the directional antennas of a cell reach now with what the rebuilt graph offers them after a suggestion: the clients lost, at the
weight of coverage, cost no more than the imbalance there was, at its own. What `GeoRPL` computes is left to that module.

Two things the model shows of the code, promised by no document and so no finding: pruning a
sector that a manual edge names leaves a scenario `validate` refuses, so that every later build and tune of it fails
(`remove_site_node` drops such edges, `remove_sector_interfaces` does not); and a planner that is rebuilt after
pruning offers the removed sectors again, because `rpl_nodes` still holds them.

### ScenarioEditing

`sc` is a scenario: three catalogs (of an interface profile only its antenna is kept, of a device profile the list of
its interface profiles), the rules in their order, metric specifications, the sites with the antennas of their interfaces, `edges` and
`attrs` (the list and the dictionary of `candidate_edges`), and the name of the companion CSV. `csv` and `toml` are the files,
`saving` the call between the two, `edits` and `saves` the bounds. One action per public operation. A call that is refused before it changes
anything is a stutter. The batch operations make all their nodes before they insert the first, so that a bad row leaves nothing behind; a site that exists stops
the insertion where it is (`WithNodes`), and the rows before it stay. The corrected table is then refused at its first row (unless with `update`), but the
rows that are missing can be imported on their own: `ImportsCanBeResumed`, which also says that no site there was is touched. `SaveInstances` and `SaveToml` are the two halves of `save_bundle`,
between which the process may end, so that a CSV may be newer than the TOML that names it, or be left over
from sites since removed; `Reload` is a new process. `CarefulEdit` names the operations without `force`.

Coordinates, ranks and frequency fields are carried along unread, so that two profiles of one antenna are the same here;
`SiteTables` has what becomes of them.

### SiteTables

`table` is the CSV file of a scenario, `crs` its working CRS, `held` the sites as the service holds them, or `Refused` when a reader
raised, `origin` says who read the file, `copies` is the bound. `Open` is the service's own reading (`add_node_instances`), `Upload` that of the SDK
(`_instantiate_sites`), whose records the service takes through JSON (`_site_node_from_config`). The copies are a bundle read again by
the service (`CopyBundle`) or sent by the SDK (`CopyBySdk`), a TOML file with its sites (`CopyWithSites`) and a JSON definition
(`CopyAsJson`). Each of them says absence in its own way: a CSV cell is blank where another row has a value, TOML has no key for
an unlimited number of links, JSON none for an infinite rank, and every reader has defaults of its own for what is not there. A
position is a place or a place on a grid, so that coordinates projected to another grid show; `kind` and extra columns are left out.

`CopiesPlanAlike` speaks of tables a planner accepts when the service reads them. Of the tables the SDK reads it asks
that they name and place every row (`Explicit`) and that no profile uses the word `unlimited`; what happens otherwise is among the differences below.

### RfEngine and RfWorkers

An engine is a record: the open tiles (oldest first), for each kind of raster the data set that is selected and the one whose
band is set, the buildings that are paged in, and for the loaded link what each dictionary was made from. An answer is what it was
made from, not a number: a stale tile, a data set of another link or missing buildings show as a different answer, and `FreshAnswer` is what
a new process would say. `Evaluate` is one call of the worker; a load may fail at any of its places (a
tile that cannot be read, a download that fails) and leaves the engine as far as it came.

`RfWorkers` has the two queues, the processes (`proc`), the supervisor's `workers` and `seq`, and the caller's blocking
`collect`. `Take`, `Serve`, the retirement after `MaxLinks` links and `Crash` are the processes' steps; `ReapAndRespawn` is part of
`Submit` and `Collect`, because the supervisor looks for ended processes only there. `RequestsAnswered`
speaks of requests that no process died with, which the code gives up by design (`lost`). `AnswersAsFresh` speaks of engines that no
failed load went through (`clean`) and of links whose building tiles are those of their ends (`EndsSuffice`), since the engine
pages in no others and an earlier link may have left more.

### LinkPlanning and PoleSelection

`terrain` is what the feature service and the metric function say of each pair of
positions; `edges` and `tested` are `self.G`; `nextHop`, `path` the plan; `at`, `k`,
`round`, `left`, `improved` the loop of `plan_link`. `Improve` takes one path of the beam,
selects its worst untested edge and expands it with any set of candidate poles, any of
whose evaluations may come back empty; `ImproveFails` is a raised exception, which leaves `plan_link` half way. An expansion
is one step because the graph is changed only after its await and a planner belongs to
one coroutine. Which poles the geometric search proposes is left open here and modelled in `PoleSelection`, step by step: the radius
that grows until it holds enough poles, the cone around the link, the sectors with their exclusions, the rings and the turns in which
the highest pole of a ring is taken. A pole is its distance, bearing, deviation and elevation; a `case` is a link, its poles and a planner context.
Where two poles are equal for a sort of the code, pandas leaves their order open; the elevation of a pole, and the deviation of one off the path, stand for the place it gets.

### MetricCompiler

The compiler's depth-first visit with its explicit stack (`VisitDeclared`, `VisitDependency`, `Finish`), the cut to what the
result needs (`Compile`) and the evaluation of a link, one expression per step. `Undefined` is whatever makes an evaluation raise.
What an expression names (`Dependencies`), whether it passes the other checks (`Fits`) and its value for given values of those names (`Eval`) are
constants of the compiler; for the runs `MetricExpressions` defines them on trees of operations (`TreeDependencies`, `TreeFits`, `TreeEvaluate`).
`Meaning` and `Cyclic` are the reference definitions: the value of an expression by recursion over its names, without an order.

### FootprintData

`update_height` as the stages of a batch: fetch, pool, commit, note, write; `height` is the database, `progress` the JSON file, which a
death in the middle of the write leaves `Garbled` (and the next start then reads as empty). `Shatter`, `Export` and `MakeIndex` are the later tools. An export replaces the files one by one and may die in between; the index is made of the files there are, of
whatever exports, whenever somebody calls `create_parquet_index`. `Degree` is the code's `CAST(ABS(FLOOR(..)))`, which drops the sign, and `Bounds` the comment's "S24 means -24 to -23":
`IndexedWhereItStands` therefore claims of all buildings that a file indexed where one stands holds it, and of the south-western ones that
they stand within the bounds of their file.
`unread` remembers tiles whose worker could not read its raster: they are noted and never tried again, so the property excepts them.

### AntennaGain

`EffectiveGain` of one query, in whole degrees with exact fractions, against `GainIsOfItsDirection`: the gain lies on the plane
through the samples around the direction, found by going round the circle instead of by bisection and wrapping. Uneven tables, for which
the code raises although the sample it needs exists, give `Raised`.

### LinkProfile

`Read` turns the pixels of the corridor into slices across the link, for elevation, surface and land cover; `Ribbon` samples one Fresnel
band (ground, trees, cover) and cuts it into segments; `Extract` makes the features: invasions, peaks, clearance. All three are parts
of one synchronous evaluation. Distances are whole metres, heights and offsets millimetres, radii centimetres; the ground of the
instances lies in multiples of three metres, so that the interpolation between pixels is exact, and the radius at the ends of a link is one unit in
place of the code's epsilon. `ObstaclesAreKept` joins what an obstacle goes through: a high pixel under a ribbon shows in its ground, segments are maximal runs, trees only add
to the obstruction, and the first peak is the worst.

## 3. Runs

| Run | Question | Bounds |
|---|---|---|
| `geo_rpl` | does every order of propagation end in a shortest forest, as `RplRouting` has it, and do the reports tell it? | 4 nodes, 3 node tables (one root, two roots of different rank with a leaf, no usable root), metrics 0, 1, 3 on 5 links with two cycles, one-link updates between runs |
| `hub_safety` | do requests reach the right worker and does the registry end empty? | 2 users, 2 processes, 2 ports, 2 requests, 1 concurrent `/register` |
| `hub_liveness` | are requests answered and idle workers reaped? | the same with 1 user |
| `geo_pool` | are extractions shared, cached right, the client kept, every request answered, and does close wait and end? | 2 keys, 2 tasks, 2 callers, 1 sample, 1 client |
| `planning_runtime` | what survives any overlap of stage handlers, and how many pools are lost? | 2 ids, 2 handlers at a time, 2 scenarios, 2 planners, a good and a refused mapping, 3 pools of one key |
| `runtime_lost_metrics` (violation) | do saved metrics stay? | the same |
| `runtime_lost_pools` (violation) | are all pools closed at the shutdown? | 1 id, 2 handlers, 3 pools of one key |
| `cell_planning` | is the candidate graph sound, what follows its changes, and is a rotation worth what it loses? | 7 interfaces at 5 sites (two sectors, an omni cell, three clients, a mesh radio), a circle of 8, 2 rules, a manual edge, 3 parameter sets, 2 site filters, 2 manual rotations, an explicit request, weights 10:1 and 1:2, square roots to a tenth |
| `scenario_editing` | do the tables of a scenario agree, does a bundle survive, and can an import that stopped be completed? | 2 antennas, 1 interface profile, 1 device profile, 2 sites, 3 edits, 2 saves, from nothing or from a configuration with every kind of reference; a process end between CSV and TOML |
| `rf_workers` | is an answer that of a new process, and does it come? | 3 links, 4 requests, 3 open tiles, 1 worker slot, 3 links per process, 6 processes, 1 crash, 2 failed loads |
| `building_blocks` | is the plan walkable and never worse; a metric its meaning; a choice of poles spread out; a noted tile measured and a file indexed where its buildings stand; a gain that of its direction; an obstacle kept; a copied scenario planned alike? | see below |
| `profile_cover` (violation) | is the land cover of a ribbon that of the nearest points? | the 104 profile views of `building_blocks` |

Why the bounds are enough to be interesting. Four nodes with zero metrics are the smallest
RPL graph with a tie on a cycle, a late improvement of a node that already has
descendants, and a detour that beats a direct link. Two processes per user are the stopped
one and its successor; two ports let a port be given up and reused. One client for two
extractions and a sample is the contended case, in which somebody always waits and one that is not given back is missed at once (what `GeoPoolProofs` shows holds
for any number of them); task
identities are reused, so stale references would show. In `PlanningRuntime` two handlers
suffice for every hazard listed (each is a pair), and two objects of a kind are the replaced
and the replacing one; three pools (those whose start failed are used again) are the one that is offered, one that is lost and one more, which a handler that did not look would lose too. In `cell_planning` one sector is idle until the cell is turned, one client is on the
edge of a beam, and the balanced rotation is not the one that covers most, so that at 10:1 a client is kept and at 1:2 it is traded away. In `scenario_editing` three edits from a full
configuration are enough to build a reference, remove what it names and save, and two saves are an old bundle and a new one.
In `rf_workers` each link displaces the tiles of another, one needs a building tile of neither end, and one falls
back to the coarse data set.
`building_blocks`: the link planner has 2 poles with metrics 1, 2, 5 around a break-even of 2, a beam of 2 and 2 repeaters, so that
detours tie, win or need repair themselves; the metric specifications have 3 expressions in three orders of writing, cycles, missing names and
a link for each way a feature can be missing; the poles are all subsets of 7 under 5 contexts, with rings at their rim and sectors with too few;
4 buildings stand on the edges of 4 tiles and of a degree, one of them north of the equator, with a batch of 2, 1 unreadable tile and 2 deaths in 3 runs; the antenna
queries look at samples, between them, across the seam and outside the table; the link profiles run along the axes in both
senses and once across the grid (a 3-4-5 triangle), from a corner, from inside and from the centre of a pixel, over five grounds and four covers,
one too short for a sample and one without cover; the tables are a gateway and a row
of three device profiles or an unknown one, whose cells are blank, absent (five sets of dropped columns) or contradict the profile, with and without a working
CRS, and two copies, so that each way is taken after each other. `PolesAreWellPicked` joins two promises of the pole search: the choice is spread out, and
the search goes further or off the path only when there are too few poles nearer to it. `planning_runtime` uses a view without the contents of unreachable
planners (never read again) and symmetry over object identities, both only for invariants.

`CHECK_DEADLOCK FALSE` is set where the system stops: the hub and the worker
after their shutdown, the pool after close.

**Fairness.** `GeoRPL`: once entered, the loop of `run_RPL` is executed (weak fairness of
`Expand` and `RunEnd`). `HubWorkers`: the handlers have timeouts (30 health checks, 5 s for
SIGTERM, 600 s for the proxy), so their steps are weakly fair; `asyncio.Lock` wakes waiters in
order, so `Acquire` is strongly fair; the reaper's sleep ends. Nothing is assumed of processes: they
may never boot, never obey SIGTERM and crash at will. `GeoPool`: the executor
and the queue serve in order (strong fairness of `Take`, `SampleTake`); a thread's call returns
something other than "busy" now and then (`SF(ThreadEnds)`): a service that is busy for
ever keeps a caller waiting for ever, since the code retries without limit. `Drain` and `CloseEnd` are strongly
fair because the gather they resume from is not disturbed by other coroutines once its tasks are done.
`RfWorkers`: a process that can run does run (weak fairness of the steps of some process), and a
caller that waits for answers calls `collect` with a timeout again (weak fairness of `Collect(FALSE)`) and the call returns; nothing makes
the caller submit, block or shut down, and nothing keeps a process from crashing. The other modules claim no liveness: their actions are calls that somebody may never make.

**What the violation runs show** (details under `findings`):

1. `runtime_lost_metrics`: `run_rpl` writes back a normalised copy of the metrics it read;
   metrics assigned in between are lost although the assignment was acknowledged.
2. `profile_cover`: `sample_lulc_ids` promises the closest lateral neighbour and bisects the offsets of a slice, which
   come in the reading order of the raster. They ascend for a link to the west or south; for one to the east or
   north they descend, and the land cover at the rim of the corridor is taken. The other samplers sort first or take a minimum.
3. `runtime_lost_pools`: `close_geo_pools` says that it closes "all reusable geo-service pools owned by this runtime". Two handlers that ask for the pool of a key at the
   same time each start one, because `get_geo_pool` looks before its await and stores after it; the pool stored first leaves the table and is never closed. How bad it can get
   is what `LostPoolsAreFew` says: fewer pools of a key are lost than there are handlers at one time, however many requests follow.

**Differences without a run.** Met while modelling; the model does what the code does.

* `stop_worker` keeps the registry entry across `proc.wait()` (`main_hub.py:98`, `112`). If the waiter is woken late, a request has
  meanwhile started a new worker, and its port and process are cleared: it runs on without an entry (`StopEnd`).
* `/register` promises that the old process is killed, but a worker that is being started is not yet in
  the entry, and survives (`main_hub.py:165`, `169`; `RegisterAgain`).
* The link planner tests `max_repeaters` before a round and expands paths that have reached it; the best path of the whole graph is
  then taken (`link_planner.py:247`, `255`, `278`). With a limit of 1 a plan can have two repeaters.
* "dtm_h does not change at the endpoints" (`geo_info.py:629`) fails for a pixel exactly 30 m beside an end: the epsilon of the
  end radius moves the window's edge.
* An antenna table whose azimuths are sampled at different elevations raises although the samples that are needed exist.
* The dual cone strategy reads an edge attribute `len_dm` that nothing sets (`pole_graph_async.py:695`) and raises a `TypeError`;
  the search radius may pass `radius_max` by one increment; when all poles left stand on the centre, the rings are not numbers and the code raises.
* The SDK says that `get_solution` before `solve` "will fail" (`client_sdk/.../session.py:25`), while the worker answers with empty
  lists; and that assigned metrics behave "exactly like" computed ones, while they leave the features of the edges as they were.
* The scenario's documentation asks of a site "either lat/lon or x/y" (`planning_scenario.py:85`), but only sites made from a profile or a pattern are
  projected. Those that come as `[[sites]]` records, as all sites of the SDK do, keep lat/lon alone, even with a working CRS, and the planner
  raises "Site ... is not resolved" (`planner_classes.py:248`; `FromConfig`, `Plannable`).
* Two readers of one table (`SiteTables`): a row without an id is `site_<count of such rows>` in the service and `site_<number of the row>` in the SDK, so
  that manual edges by name can miss; `max_links = "unlimited"` is known to the service and raises in the SDK; a CSV file that is missing means no sites in the service
  and raises in the SDK; a connected device of infinite rank gets rank 0 on its way through JSON, while the service's own reading keeps a rank that
  `set_nodes` refuses. In both, a blank cell of `connected`, `can_route` or `rank` overrides the profile, and a blank height does not.
* Without `working_crs` each site is projected to the UTM zone it lies in, so that distances across the border of two zones mix grids
  (`planner_classes.py:185`).
* `_clear_results` says that "candidate graph mutations invalidate all downstream execution state" (`graph_planner.py:737`), but
  `compute_edge_metrics` with `candidate_edges` replaces the graph, its metrics and features (line 512) and leaves the RPL result of the graph before
  (`ComputeRequested`). No route of the worker passes `candidate_edges`; a notebook may. `MetricsFollowGraph` therefore claims of the RPL result only that it is dropped or left beside complete
  metrics of the new graph.
* A building at 24.5 degrees north is exported to `S24`, and the index gives that file the bounds "-24 to -23" (`gob_footprints_utils.py:1027`, `1081`):
  no box around the building finds it. The data of the repository lies in the south-west.
* `add_site_nodes` and the imports built on it are not atomic (`planning_scenario.py:557`): after "Site node already exists" the rows before it are in the scenario.
* Between the CSV and the TOML of `save_bundle` (`planning_scenario.py:935`) the process may end, and a CSV of an earlier save stays when a scenario without sites is saved:
  the next load reads a TOML and a CSV of different times. `SavedBundleReloads` is about saves that were completed.
* A client that overlaps stages of one id (`routes_planning.py:242`) can have a planner stored whose scenario was defined anew or deleted while it was built.
* A gather of link evaluations of which one raises (`pole_graph_async.py:380`) throws the finished ones away; the graph lacks their edges until they are asked for again.
* A footprint tile whose worker failed is noted as processed and never measured again.
* The rotation search counts the clients "not covered by any sector from that site" (`cell_planner.py:211`), but looks only at sectors with an
  azimuth (`cell_planner.py:641`), while an interface without one accepts every bearing when candidates are built. In a cell that mixes the two
  a suggestion may turn a sector away from a client that the omnidirectional interface does not reach; `LossIsPaidFor` is about the directional ones.

## 4. Proofs

| Theorem | Statement | For every |
|---|---|---|
| `GeoRPLProofs!TypeCorrect` | `[]TypeOK` | set of nodes, tables, metric updates |
| `NeverLoops` | `[]ParentsAcyclic` | |
| `RanksFollow` | `[]RanksFollowParents` | |
| `RanksAreShortest` | `[]RanksAreShortestPaths` | |
| `Implements` | `Spec => RoutingSpec` | |
| `ReportsAreTrue` | `ReportsTellTheNetwork` | and thresholds, interfaces of the primary technology |
| `GeoPoolProofs!TypeCorrect` | `[]TypeOK` | number of clients, keys, tasks, callers, samplers |
| `ExtractsOnce` | `[]NoRepeatedExtraction` | |
| `CacheCorrect` | `[]CachedUnderItsKey` | |
| `KeepsClients` | `[]ClientsConserved` | |
| `AwaitsLiveTasks` | `[]CallersAwaitLiveTasks` | |
| `ClosesAfterInFlight` | `CloseWaitsForInFlight` | |
| `PlanningRuntimeProofs!TypeCorrect` | `[]TypeOK` | number of handlers, ids, scenarios, planners, pools; set of mappings |
| `PlannersAreCurrent` | `[]PlannerIsCurrent` | |
| `NetworksComeFromSavedMetrics` | `[]NetworkFromSavedMetrics` | |
| `LostPoolsStayFew` | `[]LostPoolsAreFew` | |
| `HubWorkersProofs!TypeCorrect` | `[]TypeOK` | number of users, requests, processes, ports |
| `StartsAreSerial` | `[]OneStarter` | |
| `ShutdownClearsTheRegistry` | `[]ClosedRegistryIsEmpty` | |
| `RequestsReachTheirOwnWorker` | `RoutedToOwnWorker` | |
| `ScenarioEditingProofs!TypeCorrect` | `[]TypeOK` | set of names, finite node table, start configuration, number of edits and saves |
| `EdgesStayMatched` | `[]EdgesMatchAttributes` | |
| `BundlesReload` | `[]SavedBundleReloads` | |
| `ImportsResume` | `ImportsCanBeResumed` | |
| `CarefulEditsAreSafe` | `CarefulEditsKeepValid` | |
| `CellPlanningProofs!TypeCorrect` | `[]TypeOK` | finite set of interfaces, geometry, rules, parameters, weights, precision |
| `LinksAreSingle` | `[]NoDuplicateLinks` | |
| `SuggestionsPayForLosses` | `[]LossIsPaidFor` | |
| `MetricsAreOfTheGraph` | `MetricsFollowGraph` | |
| `PruningIsSafe` | `RemovedSectorsWereIdle` | |
| `BuildingBlocksProofs!TypeCorrect` | `[]TypeOK` of the link planner | finite set of poles, metrics, beam, repeaters, rounds |
| `PlansCanBeWalked` | `[]HopsFollowPlan` | |
| `PlansNeverGetWorse` | `PlanNeverWorse` | |
| `NotedTilesStayMeasured` | `Footprints!Spec => []NotedTilesAreMeasured` | set of tiles, buildings, batch size, deaths |
| `BuildingsAreFound` | `[]IndexedWhereItStands` | |
| `CopiesStayAlike` | `Rows!Spec => []CopiesPlanAlike` | device profiles, tables, grids and zones, number of copies |
| `PolesStayWellPicked` | `Selection!Init /\ [][Selection!Next] => []PolesAreWellPicked` | poles, centre, sectors and their exclusions, rings, limits of the search |
| `GainsAreOfTheirDirection` | `Antenna!Init /\ [][Antenna!Next] => []GainIsOfItsDirection` | patterns and their tables, direction, shadow |
| `MetricsAreSound` | `Metric!Spec => []CompiledMetricIsSound` | specifications, what expressions name, allow and compute, links |
| `ObstaclesStayKept` | `Profile!Init /\ [][Profile!Next] => []ObstaclesAreKept` | links, rasters, radii of the Fresnel zone |
| `RfWorkersProofs!AnswersStayFresh` | `[]AnswersAsFresh` | links, data sets and their tiles, footprint tiles, cache size, number of processes, requests, crashes, failures |

Each module also has its `Invariance`, the inductive invariant (for the footprints, the tables, the poles, the antenna, the metrics and the profile, the lemmas of their invariants).

Assumptions: only the named `ASSUME`s of the modules, which TLC evaluates in the runs. They say that special
values are distinct from the data, that thresholds are integers, that metrics are naturals (`set_edge_metrics` refuses others), that node tables pass the checks of `set_nodes`,
that bounds and weights are naturals, that the handlers of a worker are finitely many, that an explicit list of links names a link once, that the dictionaries and lists a loop goes over are finite, and that a footprint has a
place in integer units with pixels in tiles that cover it. For the tables (`TablesAreWritten`) they say that the words for nothing (`None`, `Blank`) are
neither a boolean, a number, a profile, a generated id nor a position. For the poles (`CasesAreDistinct`) they say that the limits of the context are naturals, that there is
a ring, and that elevations, and deviations off the path, are places in the order of the sorts, hence distinct. For the antenna (`QueriesAreOfLibrary`) they say that angles, gains and losses are integers, and that a table,
as `_normalize_attenuation` leaves it, has azimuths in `0..359`, one at least, and elevations, one at least, for each of them; nothing is assumed of how they are spaced or that they are alike.
For the metrics (`SpecsAreWritten`) they say that the expressions of a specification are written one after the other and that names, which the compiler sorts, are numbers.
For the profiles (`ViewsAreRasters`) they say that a raster has whole rows, a positive pixel size and heights that are masked or integers, that positions, antenna heights and
directions are integers, and that the Fresnel zone has a width between the ends of a link; nothing is assumed of the ground, the cover or how fine the rasters are.

*GeoRPL.* `TypeOK` and acyclicity alone do not say that a run ends in a shortest forest. The inductive
invariant adds `RootsFixed`, `WorklistRelays` and, while a run is going on, three facts of the work list: a parent offers no more
than the rank (`ParentsOffer`), a ranked relay off the list has improved all its
neighbours (`OthersSettled`), and no stable labelling lies above the ranks (`RanksAbove`). `Expand` preserves each
(one lemma per fact); with an empty list they are exactly `ShortestForest`, which the
refinement needs at `RunEnd`. Acyclicity needs no paths: were a set closed under the new
parents, it would contain the popped relay, and those of its nodes whose rank is at most the relay's would already
have been closed under the old parents. That the comparison in `Improves` is strict is what makes zero metrics harmless.
`RanksAreShortestPaths` compares the ranks with the sums of metrics along the paths of at most as many links as there are nodes. No path is
shorter than the rank of its last node (along the links, `NoShorterPath`), and every rank is the length of some path: of the nodes for which no path of `k` links is
that short, one has a parent for which there is one, by acyclicity, and joins with the next link, so that all have joined after as many links as there are nodes.
`ReportsTellTheNetwork` rests on the same facts at `RunEnd`: the nodes the result graph drops have no parent, and the rank they keep in the RPL nodes is the one the run gave
them (`FinishedRun`), so the merged records are the nodes as the run left them (`RowsOf`); a client's metric is its last step because the parent's offer is then exact.

*GeoPool.* `Registration` (a live task is the one registered for its key, and callers await
live tasks), `Lending` (each client is in the queue, held by one coroutine or being closed)
and `Linking` (what `set_link` set is still there when the features are asked for). `Linking` needs `Lending`,
`NoRepeatedExtraction` needs `Registration`; `CloseWaitsForInFlight` is an action property
shown from the invariant and the step.

*PlanningRuntime.* `SerialStages` (a serial id has one handler, and a build goes on with the scenario still offered), `Provenance` (of every
planner, the metrics and the network are of mappings saved for it, and so is what a handler holds between its two steps) and `PoolHolding` (while serving, an
open pool's key has an entry, an entry names an open pool of its key, a pool is started by one handler). None of the three needs another; all need the types.
`LostPoolsAreFew` counts: `PoolCount` says that while the worker serves, the pools of a key that are open or being started are no more than the handlers. A handler starts one only
while the table has none for the key, and then (`PoolHolding`) all of them are still being started, each by a handler of its own (`OneHandlerEach`) and none by this one; after the first
is stored the number only falls. Of the open ones one is in the table (`LostWhileServing`), and the shutdown closes that one.

*HubWorkers.* `RoutedToOwnWorker` is about the port a request was given and the process that answers there, with five tables between them. `Entries` says
that an entry names a process of its own user that is neither booting nor free, and that one under SIGTERM has somebody waiting for its exit; `Starts` that nobody else listens on the port of a starting process, from the moment
`get_free_port` found it free, which holds only because one request starts at a time (`OneStarter`); `Listeners` that two processes never listen on one port
and every booting process has its starter; `Closing` what is left while the hub shuts down. A request suspended in `stop_worker` is the case the property excepts.

*ScenarioEditing.* `EdgesMatchAttributes` is inductive with the types once it is also said of the TOML file (`EdgesMatch(toml)`), since `Reload` reads it back. `SavedBundleReloads`
needs `BundleMatches`: between the two halves of a save the CSV is already that of the scenario, and nothing edits it in between. The action
properties follow from the types and the step. For `ImportsCanBeResumed`, `Resumed` follows one table through `WithNodes` three times: what the first call left holds every row before the
one it stopped at, so the second stops at once, and the rows that are missing meet no site that exists. `CarefulEditsKeepValid` has one lemma per kind of edit.

*CellPlanning.* `NoDuplicateLinks` needs `ManualOnce` (no manual edge is there in both directions) and the way `AddCandidates` skips pairs that are taken. `RequestedGraph` adds that an explicit
list names each link once. `PlannerTyped` is the part of `TypeOK` that edges, attributes and features are of the present nodes and graph; from it and the step follows `MetricsFollowGraph`.
`LossIsPaidFor` is shown of the search: scores are fractions, `Lower` is an order of them (`LowerIsAnOrder`), the best of the turns tried therefore exists (`BestExists`), and the turn that is
suggested scores no higher than the present one (`BestTurnIsLower`). Multiplied out (`LossAgainstSpread`), the difference of the uncovered clients, at its weight, is at most the spread of the present
loads at theirs, since the spread after the turn is not negative. What a cell reaches after the turn is what the rebuilt graph offers it (`ReachIsOffered`), which is where the two
beam tests meet; the loads are subsets of the finite set of interfaces, whatever their number, and the square root is any natural that `Root` picks (`RootIsNat`).

*LinkPlanning.* `HopsFollowPlan` speaks of the walk along the hops; that it is inductive takes the direct edge (`DirectEdge`: the fallback plan is always there), `NoRound` and `LastHop`
(the destination hands nothing on, so a walk ends there). The lemmas are about routes: a route is a sequence of different nodes, splitting one by a pole
gives a route, and its hops walk it. `PlanNeverWorse` needs that the cheapest path of a finite non-empty set exists, hence the finite poles.

*FootprintData.* `MeasureInv` follows a batch through its stages: what is pooled is complete (`BatchIsComplete`), so are the updates when they are committed (`UpdatesAreComplete`),
and what is about to be noted is measured (`BatchIsMeasured`); a death leaves only `NotedAreMeasured`. `FilesInv` says of every parquet file that it holds exactly the buildings
its name stands for, and of the index that it lists files there are with the bounds of their names, so that it does not matter when either was made. The rest is arithmetic: `DegreeIsFloor` relates the degree of a name
to the floor of a position, with the sign for the south-west and without it elsewhere, and `StandsInFile` concludes that bounds with a building in them are those of its own file.

*SiteTables.* The invariant `TablesInv` says of every site held, whichever reader made it, that it can take the place (`Follows`) of the one the service makes of the table. That is inductive
because such a site is `Settled`: no field is left to a default of the next reader, its interfaces are those of its profile with the defaults filled in, and its position is on
the grid the next reader would project to, the zone of its own place when there is no CRS. One lemma per way of writing says that a settled site is read back (`ReadRow`, `ReadFromConfig`, `ReadFromJson`): a row,
whose columns depend on the other sites, gives the same site; JSON loses an infinite rank, and the reader makes it again, since a
scenario that is planned with has infinite ranks for the unconnected only (`Planned`). A height is the one field that may stay blank; it is then that of the profile, which is where the reader looks.
`UploadFollows` is where `Explicit` is needed: without it the ids of the two readers differ.

*PoleSelection.* `Spread` keeps `Chosen` for the sector being picked: sectors before it are settled, those after it untouched, and the poles taken from it were taken `InTurns`: for
some round `m`, the rings before the one whose turn it is have given at most `m + 1` poles and the others at most `m`, exactly so many where poles are left. The rounds are not counted by the
code; the invariant has to find `m`, and a ring that is passed over for want of poles is why the bounds are not equations. Balance at the end of a sector follows, and `HigherIn` says that within a ring the picks were
the highest. `Detours` follows the radius (one step back it held too few poles) and the cone; that at most `cone_poles` deviating poles are kept takes the one of them that deviates most (`HighestExists`).
The sector of a pole is opaque to the proof: sectors are equal or different, and the exclusions were checked before.

*AntennaGain.* The invariant only says which query the gain was computed for; the theorem is about the computation. `SortedLists` is where the samples become a list: the members of a finite set of
integers in order of how many of it are smaller. From it come the two brackets. On the circle (`CircleBracket`) the pair found by going up the list, with the
first sample once more a turn later, is the pair found by going round from the angle both ways; on the line (`LineBracket`) the outermost sample stands for what lies beyond it, and a value met exactly is
bracketed from below with the whole share (`Spanned`), so that both sides of a bracket can be the same point. `PlaneOfFour` and `PlaneOfTwo` say that the code's interpolation, elevations first,
is the plane's through the four samples. A gain is missing exactly when the azimuth on the right lacks an elevation of the bracket, and then the two azimuths differ in theirs.
That a shadow does not depend on where north is (`ShadowIs`) comes down to the signed difference of two angles being the shorter way round (`TurnIs`).

*MetricCompiler.* `CompileInv` says of a visit that the names on the stack are a path (`Path`): each has the next one among what it names, and what it names is still to be visited, done, or the
next one; and that the names done are `Ordered`, each once and behind those it names. A name met on the path then lies on a circle (`PathCycle`: a closed set with what it names
holds the whole rest of the path), and names that are ordered do not (`OrderedIsAcyclic`: those before a name in the order are closed). `CallInv` says of a call that what is derived so far is what the
names mean. `Meaning` is a recursive function, a `CHOOSE` of a solution of its equation, so what has to be shown is that there is one: a least-counterexample argument over the order gives values
to its first names, one after the other (`WorthsExist`). A name without a value leaves none to the result (`MeaningSpreads`), which is why the call may stop at the first that raises.

*LinkProfile.* `ReadInv` says of every ribbon measured so far what the property says of it, with the slices still those of the rasters (`AreRead`). A pixel of the corridor is a point of
the slice at its key, so where a ribbon has a sample at that distance the interpolation ends at this slice, and its highest point beside the ribbon is no lower than the pixel (`HighGroundSeen`);
the distances of a ribbon are those of the land cover, which is why the property speaks of samples at the distance of a slice only. `get_path_segments` is
followed sample by sample: after each, the segments closed are the long runs that have ended, in order, and the one being extended is the run of the
sample (`InRun`, `RunStep`). That a loop over the samples has a value at all is a least-counterexample argument (`RunsExist`). The metres obstructed are counted as a set of metres, so that they grow with the samples that
are hit (`MetresGrow`), and a sample hit without trees, or in a higher band, is hit with them, or in a deeper one (`HitSpreads`). Severities are fractions: that `Worse` is transitive (`FractionsChain`)
gives the first of a finite set in the order of the sort (`FirstExists`), every obstructing sample lies in a lobe (`LobeAround`), and the peak of a lobe is no better than any of its samples (`PeakIs`).

*RfWorkers.* Each process has a worn engine; the proof runs a new one beside it (`Follows`). What the two share is the end of their caches: the open tiles of the
new one are the newest of the worn one's (`Tails`), a touch keeps that (`TouchKeepsTails`: it moves the tile to the end in both, appends it to both, or moves it in one
and appends it in the other), so whether all tiles of a link are still open when they are merged does not depend on what was read before (`TouchAllsAlike`). The data set
chosen for a covered link is the first that fits in both; the dictionaries are reset first; the buildings found are those of the corridor if they lie at the
ends. The inductive invariant says of a process that has failed no load that the link it holds is loaded as a new engine would load it (`Kept`), for the repeated link is not read again.

Checked by TLC only: all liveness properties (no fairness reasoning about `ENABLED` is within reach), and what the trees of `MetricExpressions` evaluate to, a recursive
operator. Every other safety property of the passing runs is stated by a theorem.
`TypeOK` of the proved modules is no property of their runs.

## 5. Not modelled, and why

* The formulas of `core/rf` (diffraction, path loss) and `core/plot`: transcendental functions and
  drawing. What they read is modelled, what they compute is opaque. Of the profile: the averaging of invasions into zones
  (`fresnel_matrix_to_radial`), buildings in the Fresnel zone and the values of the clutter dictionary, which nothing reads.
* Data-frame conversions (`importer`, the CSV import of footprints, the reports' layout), raster warping and geometry of `dem`.
* `bhPlan.py` and `monitoring/import_metrics.py` import packages the repository does not have; `mesh_bh_planner.py` calls the
  legacy RPL, which no longer fits it. None of them can run as it stands.
* Of the client SDK, the loading of bundles is in `SiteTables` and the order in which a session waits for its answers in `PlanningRuntime`; the rest wraps
  the routes of the worker one by one, and the payloads it caches are never read back.
* Tokens and user files: they reject or read, and share no state with what is modelled.
* In `HubWorkers`: full pipes of the workers, the wording of error answers, requests longer than the idle time.
* In `GeoPool`: a pool used by concurrent `start` calls. Requests that come after `close` began can wait for ever;
  `RequestsAnswered` claims nothing of them. A start that fails leaves the clients registered so far open at the service. With the default
  prefix and a pool of one client, every worker uses one user id at the service (`routes_planning.py:83`); what the service does then is not in the repository.
  A `set_link` that timed out at the client is taken to have no later effect at the service.
* In `LinkPlanning`: changing the metric function between two plans.
* In `RfEngine`: a tile that cannot be opened after the oldest was closed for it.
* In `AntennaGain`: the suggested orientation, a circular mean.

**How much of the code this is.** Of the lines counted as implementation, a large part is no program of its own: notebooks and their checkpoints (`.ipynb_checkpoints`
hold second copies of `dem_utils.py`, `geo_info.py` and others), `.Trash-0`, the legacy planners and the copy of the SDK. Of the rest,
`dem`, `core/plot`, the importers and the table code are numerical or formatting code without control worth a state machine. What
carries state, order or failure is modelled.

## 6. Plan

Order of work for the next steps:

1. Proofs: referential integrity after imports.
2. `add_candidate_edges` of the graph planner on its own, whose loop can raise half way.
3. `CellPlanning` composed with `GeoRPL` through `run_rpl`, and with the workflow route.
4. The suggestion of antenna orientations over a discrete circle.
