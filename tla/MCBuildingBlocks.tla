--------------------------- MODULE MCBuildingBlocks ---------------------------
(***************************************************************************)
(* The parts of BuildingBlocks on small inputs, the compiler of metrics on *)
(* trees of expressions: a behaviour runs one of the seven.                *)
(***************************************************************************)
EXTENDS BuildingBlocks

CONSTANTS
  FeaturePaths, PeakPaths, MaxNodes,
  p1, p2, u1, u2, grid, x1

VARIABLE part

Trees == INSTANCE MetricExpressions

MCDependencies(s, n) == Trees!TreeDependencies(s, n)
MCFits(s, n) == Trees!TreeFits(s, n)
MCEval(s, n, f, values) == Trees!TreeEvaluate(s, n, f, values)

metricVars == <<spec, phase, visited, stack, order, link, derived, outcome>>
poleVars == <<case, step, radius, near, band, sector, ring, picked>>
footprintVars == <<height, progress, processed, todo, batch, updates, stage, parquets, index,
                   unread, crashes, runs>>
antennaVars == <<query, gain>>
profileVars == <<view, reading, slices, ribbons, features>>
tableVars == <<table, crs, held, origin, copies>>

blockVars ==
  <<part, vars, metricVars, poleVars, footprintVars, antennaVars, profileVars, tableVars>>

NoPlan ==
  /\ terrain = <<>>
  /\ edges = {} /\ tested = {} /\ nextHop = [n \in {} |-> None] /\ path = None
  /\ at = "idle" /\ k = 0 /\ round = {} /\ left = {} /\ improved = FALSE

NoMetric ==
  /\ spec = Undefined /\ phase = "idle"
  /\ visited = {} /\ stack = <<>> /\ order = <<>>
  /\ link = Undefined /\ derived = <<>> /\ outcome = Undefined

NoPoles ==
  /\ case = None /\ step = "start"
  /\ radius = 0 /\ near = {} /\ band = <<>>
  /\ sector = 0 /\ ring = 0 /\ picked = <<>>

NoAntenna == query = None /\ gain = None

NoProfile ==
  /\ view = None /\ reading = "read"
  /\ slices = None /\ ribbons = <<>> /\ features = None

NoTable == table = <<>> /\ crs = None /\ held = Rows!Refused /\ origin = "none" /\ copies = 0

BlocksInit ==
  /\ part \in {"planner", "metric", "poles", "footprints", "antenna", "profile", "tables"}
  /\ IF part = "planner" THEN Init ELSE NoPlan
  /\ IF part = "metric" THEN Metric!Init ELSE NoMetric
  /\ IF part = "poles" THEN Selection!Init ELSE NoPoles
  /\ IF part = "antenna" THEN Antenna!Init ELSE NoAntenna
  /\ IF part = "profile" THEN Profile!Init ELSE NoProfile
  /\ IF part = "tables" THEN Rows!Init ELSE NoTable
  /\ Footprints!Init

BlocksNext ==
  \/ /\ part = "planner" /\ Next
     /\ UNCHANGED <<part, metricVars, poleVars, footprintVars, antennaVars, profileVars, tableVars>>
  \/ /\ part = "metric" /\ Metric!Next
     /\ UNCHANGED <<part, vars, poleVars, footprintVars, antennaVars, profileVars, tableVars>>
  \/ /\ part = "poles" /\ Selection!Next
     /\ UNCHANGED <<part, vars, metricVars, footprintVars, antennaVars, profileVars, tableVars>>
  \/ /\ part = "footprints" /\ Footprints!Next
     /\ UNCHANGED <<part, vars, metricVars, poleVars, antennaVars, profileVars, tableVars>>
  \/ /\ part = "antenna" /\ Antenna!Next
     /\ UNCHANGED <<part, vars, metricVars, poleVars, footprintVars, profileVars, tableVars>>
  \/ /\ part = "profile" /\ Profile!Next
     /\ UNCHANGED <<part, vars, metricVars, poleVars, footprintVars, antennaVars, tableVars>>
  \/ /\ part = "tables" /\ Rows!Next
     /\ UNCHANGED <<part, vars, metricVars, poleVars, footprintVars, antennaVars, profileVars>>

BlocksSpec == BlocksInit /\ [][BlocksNext]_blockVars

-----------------------------------------------------------------------------
\* Metrics at the break-even value of 2, below and above it, so that detours tie with
\* the direct edge, beat it, or need repair themselves.
MCTerrains == {t \in [Edges -> {1, 2, 5}] : t[{Src, Dst}] = 5}

-----------------------------------------------------------------------------
\* Specifications: three expressions in every order of writing, each one of some
\* shapes that name features, a parameter and each other.
Constant(n) == [op |-> "const", id |-> n]
Feature(f) == [op |-> "feature", id |-> f]
Param(p) == [op |-> "param", id |-> p]
Name(n) == [op |-> "name", id |-> n]
Apply(op, args) == [op |-> op, args |-> args]

Shapes ==
  << {Apply("sub", <<Feature("loss"), Param("gain")>>),
      Apply("add", <<Name(2), Name(3)>>),
      Apply("if", <<Feature("clear"), Constant(1), Name(2)>>)},
     {Apply("div", <<Constant(6), Feature("clear")>>),
      Apply("add", <<Name(3), Name(3)>>),
      Apply("add", <<Name(1), Constant(1)>>),
      Feature("peak")},
     {Feature("loss"), Name(2), Name(3),
      Apply("sub", <<Name(1), Feature("peak")>>),
      Apply("add", <<Constant(1), Apply("add", <<Constant(1), Feature("loss")>>)>>)} >>

MCSpecs ==
  { [expressions |-> e, declared |-> d, parameters |-> [g \in {"gain"} |-> 2], result |-> r] :
      e \in {f \in [1..3 -> UNION {Shapes[i] : i \in 1..3}] : \A i \in 1..3 : f[i] \in Shapes[i]},
      d \in {<<1, 2, 3>>, <<3, 1, 2>>, <<2, 3, 1>>},
      r \in {1, 2} }
  \cup
  { [expressions |-> [n \in {1} |-> t], declared |-> <<1>>,
     parameters |-> [g \in {} |-> 0], result |-> r] :
      t \in {Feature("unknown"), Param("gain"), Name(2), Constant(4)}, r \in {1, 2} }

\* A link with a peak, one without, one that is obstructed and one whose loss was
\* not computed.
MCLinks ==
  { [f \in {"loss", "clear", "peak"} |-> CASE f = "loss" -> 5 [] f = "clear" -> 2 [] OTHER -> 1],
    [f \in {"loss", "clear"} |-> CASE f = "loss" -> 1 [] OTHER -> 3],
    [f \in {"loss", "clear"} |-> CASE f = "loss" -> 3 [] OTHER -> 0],
    [f \in {"loss", "clear"} |-> CASE f = "loss" -> Undefined [] OTHER -> 1] }

-----------------------------------------------------------------------------
\* Poles around an obstacle, and the contexts of the planner.
Stand(dist, bearing, deviation, elevation) ==
  [dist |-> dist, bearing |-> bearing, deviation |-> deviation, elevation |-> elevation]

Stands ==
  << Stand(0, 0, 5, 10), Stand(50, 10, 8, 30), Stand(90, 20, 40, 50), Stand(150, 350, 12, 40),
     Stand(180, 30, 60, 20), Stand(260, 100, 20, 60), Stand(190, 40, 15, 55) >>

Planner(min, max, poles, cone, coned, count, exclusions, bands, each) ==
  [radius_min |-> min, radius_percent |-> 10, radius_max |-> max, radius_increment |-> 100,
   radius_poles |-> poles, cone_angle |-> cone, cone_poles |-> coned, sector_count |-> count,
   sector_exclusions |-> exclusions, sector_bands |-> bands, sector_poles |-> each]

Planners ==
  { Planner(100, 300, 4, 30, 2, 4, <<2>>, 2, 3),
    Planner(100, 250, 3, 10, 3, 4, <<>>, 3, 2),
    Planner(200, 300, 5, 0, 0, 2, <<1>>, 2, 4),
    Planner(100, 200, 2, 30, 2, 3, <<>>, 2, 2),
    Planner(100, 200, 2, 30, 2, 4, <<4>>, 2, 2) }

MCCases ==
  { [context |-> c, length |-> l, centre |-> o, poles |-> [p \in s |-> Stands[p]]] :
      c \in Planners, l \in {500, 1500}, o \in {None, "obstacle"}, s \in SUBSET (1..7) }

-----------------------------------------------------------------------------
\* A building on the edge of two rasters and of two degrees, one in their overlap
\* that one raster cannot measure, one no raster can, and one of the third raster that
\* stands north of the equator.
House(lat, lon, tiles, pixels) == [lat |-> lat, lon |-> lon, tiles |-> tiles, pixels |-> pixels]

MCBuildings ==
  << House(-240, -515, {"t1", "t2"}, {"t1", "t2"}), House(-245, -510, {"t1", "t2"}, {"t2"}),
     House(-249, -511, {"t2"}, {}), House(245, -502, {"t3"}, {"t3"}) >>

MCTiles == {"t1", "t2", "t3", "t4"}

-----------------------------------------------------------------------------
\* A directional antenna that is best known for one band, one known by its gain
\* only, and a table whose azimuths are not sampled at the same elevations.
Ways == {0, 25, 90, 180, 270, 335}

Table ==
  [a \in Ways |-> [e \in {-45, 0, 45} |->
     (CASE a = 0 -> 0 [] a \in {25, 335} -> 3 [] OTHER -> 15) + (IF e = 0 THEN 0 ELSE 12)]]

Uneven ==
  [a \in {0, 120} |-> IF a = 0 THEN [e \in {-10, 0, 10} |-> 10 + e] ELSE [e \in {0, 10} |-> e]]

Pattern(frequency, range, max, attenuation) ==
  [frequency |-> frequency, band |-> range, gain |-> max, attenuation |-> attenuation]

Models ==
  { << Pattern(915, <<902, 928>>, 12, Table), Pattern(930, None, 9, <<>>) >>,
    << Pattern(930, None, 9, Uneven), Pattern(900, None, 7, [a \in {0} |-> [e \in {0} |-> 1]]) >> }

Shadows ==
  { None, [azimuth |-> 350, width |-> 60, loss |-> 8], [azimuth |-> 90, width |-> 0, loss |-> 8] }

MCQueries ==
  [patterns : Models, frequency : {926, 915, 870}, bearing : {0, 20, 55, 180, 340},
   azimuth : {0, 55, 345}, elevation : {-60, -5, 10}, downtilt : {0, 5}, shadow : Shadows]

-----------------------------------------------------------------------------
Way(x, y, unit) == [x |-> x, y |-> y, unit |-> unit]

\* Rasters of 30 and of 10 metres over the corridor of a link.
Raster(bin, reach, west, east, south, north, Value(_, _)) ==
  [bin |-> bin, reach |-> reach, west |-> west, north |-> north,
   rows |-> [i \in 1..((north - south) \div bin) |->
              [j \in 1..((east - west) \div bin) |->
                 Value(west + bin * j - bin \div 2, north - bin * i + bin \div 2)]]]

\* How far a pixel is from the middle of the map, along the axes.
Steps(x, y) == Max({x, -x}) + Max({y, -y})

\* Flat ground, a ridge, two hills with one higher on a side, ground that is known
\* only off the link, none.
GroundAt(n, x, y) ==
  CASE n = 1 -> 30000
    [] n = 2 -> IF Steps(x, y) \in 45..75 THEN 45000 ELSE 30000
    [] n = 3 -> (CASE Steps(x, y) \in 45..59 /\ x > 0 -> 48000 [] Steps(x, y) \in 90..110 -> 42000
                   [] OTHER -> 33000)
    [] n = 4 -> IF Steps(x, y) < 60 THEN None ELSE 36000
    [] OTHER -> None

CoverClass(n, x, y) ==
  CASE n = 1 -> IF Steps(x, y) \in 40..80 THEN "tree" ELSE "grass"
    [] n = 2 -> IF x > 0 /\ y > 0 THEN "tree" ELSE "grass"
    [] n = 4 -> None
    [] OTHER -> IF (x \div 10) % 5 \in {0, 3} THEN "tree" ELSE IF y > 40 THEN None ELSE "grass"

SurfaceAt(g, c, x, y) ==
  IF GroundAt(g, x, y) = None THEN 33000
  ELSE GroundAt(g, x, y) + (IF CoverClass(c, x, y) = "tree" THEN 9000 ELSE 0)

Link(way, off, length, box, g, c) ==
  [tx |-> off, way |-> way, length |-> length,
   dtm |-> Raster(30, 46, box[1], box[2], box[3], box[4], LAMBDA x, y : GroundAt(g, x, y)),
   dsm |-> Raster(30, 46, box[1], box[2], box[3], box[4], LAMBDA x, y : SurfaceAt(g, c, x, y)),
   cover |-> Raster(10, 18, box[1], box[2], box[3], box[4], LAMBDA x, y : CoverClass(c, x, y)),
   tx_ha |-> 9000, rx_ha |-> 6000, tree |-> "tree"]

Offsets == {[x |-> 0, y |-> 0], [x |-> 5, y |-> 5], [x |-> 15, y |-> 15]}

\* Links in four directions and across the grid, from a corner, from inside and from
\* the centre of a pixel; a short link, and one without land cover.
LinksFrom(o, g, c) ==
  {Link(Way(1, 0, 1), o, 120, <<-30, 150, -60, 60>>, g, c),
   Link(Way(-1, 0, 1), o, 120, <<-150, 30, -60, 60>>, g, c),
   Link(Way(0, 1, 1), o, 120, <<-60, 60, -30, 150>>, g, c),
   Link(Way(0, -1, 1), o, 110, <<-60, 60, -150, 30>>, g, c),
   Link(Way(4, -3, 5), o, 100, <<-30, 120, -90, 30>>, g, c)}

MCViews ==
  UNION {LinksFrom(o, g, c) : o \in {[x |-> 0, y |-> 0], [x |-> 5, y |-> 5]}, g \in 2..4, c \in 1..3}
  \cup UNION {LinksFrom([x |-> 15, y |-> 15], g, 1) : g \in {1, 5}}
  \cup {Link(Way(1, 0, 1), [x |-> 15, y |-> 15], length, <<-30, 150, -60, 60>>, 1, c) :
          length \in {10, 20}, c \in {1, 4}}

\* Radii at 900 MHz, rounded down, in centimetres.
MCRadius ==
  [last \in 1..130 |-> [d \in 0..last |->
     CHOOSE r \in 0..400 : 3 * last * r * r <= 10000 * d * (last - d)
                           /\ 10000 * d * (last - d) < 3 * last * (r + 1) * (r + 1)]]
-----------------------------------------------------------------------------
\* Device profiles that leave keys out or say them in every form, and tables of a
\* varied row and a gateway, with and without some columns.
Interface(relay, links) == [relay |-> relay, links |-> links]

DeviceProfile(connected, can_route, rank, mount, radios) ==
  [connected |-> connected, can_route |-> can_route, rank |-> rank, height |-> mount,
   radios |-> radios]

MCProfiles ==
  [gateway |-> DeviceProfile(TRUE, None, 0, None, <<Interface(TRUE, None), Interface(None, 3)>>),
   meter   |-> DeviceProfile(None, FALSE, None, 7, <<Interface(TRUE, Inf)>>),
   router  |-> DeviceProfile(FALSE, TRUE, Inf, 12, <<Interface(FALSE, Unlimited), Interface(FALSE, 2)>>)]

TableRow(id, profile, connected, rank, device, pos) ==
  [id |-> id, profile |-> profile, connected |-> connected, rank |-> rank,
   can_route |-> device[1], height |-> device[2], geo |-> pos[1], xy |-> pos[2]]

FirstRows ==
  {TableRow(id, profile, connected, rank, device, pos) :
     id \in {Blank, x1}, profile \in {"gateway", "meter", "router", "unknown"},
     connected \in {Blank, TRUE, FALSE}, rank \in {Blank, 0, Inf},
     device \in {<<Blank, Blank>>, <<TRUE, 20>>},
     pos \in {<<p1, Blank>>, <<Blank, p1>>, <<p1, p1>>, <<Blank, Blank>>}}

SecondRows ==
  {TableRow(id, "gateway", TRUE, 0, <<FALSE, Blank>>, pos) :
     id \in {Blank, <<"site", 1>>}, pos \in {<<p2, Blank>>, <<p2, p2>>}}

DroppedColumns == {{}, {"connected"}, {"rank"}, {"connected", "rank", "can_route", "height"}, {"xy"}}

MCTables ==
  {<<Restrict(a, DOMAIN a \ d), Restrict(b, DOMAIN b \ d)>> :
     a \in FirstRows, b \in SecondRows, d \in DroppedColumns}

MCGrids == {None, grid}

MCZoneOf == [p \in {p1, p2} |-> IF p = p1 THEN u1 ELSE u2]
=============================================================================
