------------------------------ MODULE SiteTables ------------------------------
(***************************************************************************)
(* The ways a table of sites takes to the planner:                         *)
(* PlanningScenario.add_node_instances (planning_scenario.py) and          *)
(* _instantiate_sites of the client SDK (client_sdk, bundle.py) both make  *)
(* sites of the rows of a CSV file and of device profiles, the SDK sends   *)
(* its sites as JSON, and the scenario is written again as a bundle with   *)
(* or without sites or as JSON.  The planner takes its nodes from the      *)
(* sites (planner_classes.py).                                             *)
(*                                                                         *)
(* A row maps the columns of its table to cells.  Numbers and booleans are *)
(* their values; a latitude with its longitude is a place, x with y a      *)
(* place on a grid (a CRS), and one without the other counts as none.      *)
(* None stands for a key that is absent, Blank for an empty cell.          *)
(* Kind, extra columns and the constant fields of an interface are left    *)
(* out.                                                                    *)
(***************************************************************************)
EXTENDS Naturals, Sequences, FiniteSets

CONSTANTS
  Profiles,   \* device profile -> [connected, can_route, rank, height, radios]
  Tables,     \* sequences of rows
  Grids,      \* values of working_crs, None among them
  ZoneOf,     \* place -> its UTM zone (get_utm_epsg)
  MaxCopies,  \* bound on the copies of a scenario
  Inf,        \* float("inf")
  Unlimited,  \* the word for it in a hand-written profile
  Blank, None

VARIABLES
  table,      \* the rows of the CSV file
  crs,        \* working_crs
  held,       \* the sites of the scenario, when they could be read
  origin,     \* who read the table: "none", "service" or "sdk"
  copies

vars == <<table, crs, held, origin, copies>>

Get(row, key, default) == IF key \in DOMAIN row THEN row[key] ELSE default

IsBlank(v) == v \in {None, Blank}

\* _bool_value
Truth(v, default) == IF IsBlank(v) THEN default ELSE v

\* _max_links_value
LinkLimit(v) == IF IsBlank(v) \/ v = Unlimited THEN Inf ELSE v

\* A rank that is not given is zero for a device that is connected already.
RankOf(v, connected) == IF ~IsBlank(v) THEN v ELSE IF connected THEN 0 ELSE Inf

\* What JSON can say of a number.
Finite(v) == IF v = Inf THEN None ELSE v

-----------------------------------------------------------------------------
\* Names and positions

Named(row) == ~IsBlank(Get(row, "id", None))

Generated(n) == <<"site", n>>

\* The service numbers the rows without an id, the SDK all rows.
ServiceIds(rows) ==
  [i \in DOMAIN rows |-> IF Named(rows[i]) THEN rows[i].id
                         ELSE Generated(Cardinality({j \in 1..i : ~Named(rows[j])}))]

SdkIds(rows) ==
  [i \in DOMAIN rows |-> IF Named(rows[i]) THEN rows[i].id ELSE Generated(i)]

NoDuplicates(ids) == \A i, j \in DOMAIN ids : ids[i] = ids[j] => i = j

\* Site.resolve: where it raises, and what it adds.
Resolvable(site, grid) == site.geo # None \/ (site.xy # None /\ grid # None)

Resolved(site, grid) ==
  IF site.xy = None
  THEN [site EXCEPT !.xy = [grid |-> IF grid = None THEN ZoneOf[site.geo] ELSE grid,
                            place |-> site.geo]]
  ELSE [site EXCEPT !.geo = IF @ = None THEN site.xy.place ELSE @]

\* Coordinates of a table are on the grid of the scenario, or of the place.
Projected(row, grid) ==
  LET xy  == Get(row, "xy", None)
      geo == Get(row, "geo", None)
  IN IF IsBlank(xy) THEN None
     ELSE [place |-> xy,
           grid  |-> IF grid = None /\ ~IsBlank(geo) THEN ZoneOf[geo] ELSE grid]

\* The words for nothing are none of the values a cell may have, a generated id or
\* a position.
TablesAreWritten ==
  /\ ~IsBlank(FALSE) /\ ~IsBlank(0) /\ ~IsBlank(Inf)
  /\ None \notin DOMAIN Profiles
  /\ \A t \in Tables : \A i \in DOMAIN t :
       /\ i \in Nat \ {0}
       /\ \A n \in 1..i : ~IsBlank(Generated(n))
       /\ \A g \in Grids : ~IsBlank(Get(t[i], "xy", None)) => Projected(t[i], g) # None

-----------------------------------------------------------------------------
\* Reading rows

\* _site_node_from_profile_record up to the position.  A blank cell overrides
\* what the profile says of connected, can_route and rank, and no height.
SiteOf(row, id, grid) ==
  LET profile   == Profiles[row.profile]
      connected == Truth(Get(row, "connected", profile.connected), FALSE)
      height    == Get(row, "height", None)
      geo       == Get(row, "geo", None)
  IN [id        |-> id,
      profile   |-> row.profile,
      geo       |-> IF IsBlank(geo) THEN None ELSE geo,
      xy        |-> Projected(row, grid),
      connected |-> connected,
      can_route |-> Truth(Get(row, "can_route", profile.can_route), FALSE),
      rank      |-> RankOf(Get(row, "rank", profile.rank), connected),
      height    |-> IF IsBlank(height) THEN profile.height ELSE height,
      radios    |-> [k \in DOMAIN profile.radios |->
                       [relay |-> Truth(profile.radios[k].relay, FALSE),
                        links |-> LinkLimit(profile.radios[k].links)]]]

Known(rows) == \A i \in DOMAIN rows : rows[i].profile \in DOMAIN Profiles

\* What a reading comes to.
Accepted(sites) == [ok |-> TRUE, sites |-> sites]
Refused == [ok |-> FALSE, sites |-> <<>>]

\* add_node_instances: every row is read before any site is added.
ServiceRead(rows, grid) ==
  LET sites == [i \in DOMAIN rows |-> SiteOf(rows[i], ServiceIds(rows)[i], grid)]
  IN IF /\ Known(rows)
        /\ NoDuplicates(ServiceIds(rows))
        /\ \A i \in DOMAIN rows : Resolvable(sites[i], grid)
     THEN Accepted([i \in DOMAIN rows |-> Resolved(sites[i], grid)])
     ELSE Refused

\* Variant: keys with a false value are dropped with those without one.
SdkSiteDroppingFalse(row, id, grid) ==
  LET site == SiteOf(row, id, grid)
  IN [site EXCEPT !.rank = Finite(@),
                  !.radios = [k \in DOMAIN @ |-> [relay |-> IF @[k].relay THEN TRUE ELSE None,
                                                  links |-> Finite(@[k].links)]]]

\* Interfaces as they are written: no key for an unlimited number of links.
Said(radios) ==
  [k \in DOMAIN radios |-> [relay |-> radios[k].relay, links |-> Finite(radios[k].links)]]

\* The record _instantiate_sites makes of a row.
SdkSite(row, id, grid) ==
  LET site == SiteOf(row, id, grid)
      said == [site EXCEPT !.radios = Said(@)]
  IN [said EXCEPT !.rank = Finite(@)]

\* float("unlimited") raises in the SDK: it reads the file, the service what
\* add_interface_profile has made of it.
Words(rows) ==
  \E i \in DOMAIN rows :
    \E k \in DOMAIN Profiles[rows[i].profile].radios :
      Profiles[rows[i].profile].radios[k].links = Unlimited

\* _site_node_from_config; no position is resolved.
FromConfig(record) ==
  LET connected == Truth(record.connected, FALSE)
  IN [id        |-> record.id,
      profile   |-> record.profile,
      geo       |-> record.geo,
      xy        |-> record.xy,
      connected |-> connected,
      can_route |-> Truth(record.can_route, FALSE),
      rank      |-> RankOf(record.rank, connected),
      height    |-> record.height,
      radios    |-> [k \in DOMAIN record.radios |->
                       [relay |-> Truth(record.radios[k].relay, TRUE),
                        links |-> LinkLimit(record.radios[k].links)]]]

\* load_scenario_bundle, define_scenario and from_config_dict.
SdkRead(rows, grid) ==
  IF Known(rows) /\ NoDuplicates(SdkIds(rows))
  THEN Accepted([i \in DOMAIN rows |-> FromConfig(SdkSite(rows[i], SdkIds(rows)[i], grid))])
  ELSE Refused

-----------------------------------------------------------------------------
\* Writing sites

\* to_config_dict: no key for what is None.
ToConfig(site) == [site EXCEPT !.radios = Said(@)]

\* to_json_dict: no infinite rank either.
ToJson(site) == [ToConfig(site) EXCEPT !.rank = Finite(@)]

\* to_instance_csv: a column for every key some record has, and a blank cell
\* where another has none.
CsvRows(sites) ==
  LET Columns == {"id", "profile", "connected", "can_route", "rank"}
                 \cup {key \in {"height", "geo", "xy"} :
                         \E i \in DOMAIN sites : sites[i][key] # None}
      CellOf(site, key) ==
        IF site[key] = None THEN Blank ELSE IF key = "xy" THEN site.xy.place ELSE site[key]
  IN [i \in DOMAIN sites |-> [key \in Columns |-> CellOf(sites[i], key)]]

-----------------------------------------------------------------------------

Init ==
  /\ table \in Tables
  /\ crs \in Grids
  /\ held = Refused
  /\ origin = "none"
  /\ copies = 0

Open ==
  /\ origin = "none"
  /\ held' = ServiceRead(table, crs)
  /\ origin' = "service"
  /\ UNCHANGED <<table, crs, copies>>

Upload ==
  /\ origin = "none"
  /\ held' = IF ~Known(table) \/ Words(table) THEN Refused ELSE SdkRead(table, crs)
  /\ origin' = "sdk"
  /\ UNCHANGED <<table, crs, copies>>

Copy(reading) ==
  /\ held.ok
  /\ copies < MaxCopies
  /\ held' = reading
  /\ copies' = copies + 1
  /\ UNCHANGED <<table, crs, origin>>

\* save_bundle, read again by the service or sent by the SDK; with the sites in
\* the TOML file; to_json_dict, defined again.
CopyBundle == Copy(ServiceRead(CsvRows(held.sites), crs))
CopyBySdk == Copy(SdkRead(CsvRows(held.sites), crs))
CopyWithSites ==
  Copy(Accepted([i \in DOMAIN held.sites |-> FromConfig(ToConfig(held.sites[i]))]))
CopyAsJson ==
  Copy(Accepted([i \in DOMAIN held.sites |-> FromConfig(ToJson(held.sites[i]))]))

Next == Open \/ Upload \/ CopyBundle \/ CopyBySdk \/ CopyWithSites \/ CopyAsJson

Spec == Init /\ [][Next]_vars

-----------------------------------------------------------------------------
\* SiteNode.rpl_nodes
Nodes(sites) ==
  UNION {{[site      |-> sites[i].id,
           interface |-> k,
           connected |-> sites[i].connected,
           relay     |-> sites[i].radios[k].relay \/ sites[i].can_route,
           rank      |-> sites[i].rank,
           pos       |-> sites[i].xy,
           height    |-> sites[i].height,
           links     |-> sites[i].radios[k].links] : k \in DOMAIN sites[i].radios}
         : i \in DOMAIN sites}

\* GraphPlanner takes the positions of all nodes, and GeoRPL.set_nodes accepts
\* their ranks.
Plannable(reading) ==
  /\ reading.ok
  /\ \A i \in DOMAIN reading.sites : reading.sites[i].xy # None
  /\ \A n \in Nodes(reading.sites) : n.connected <=> n.rank # Inf
  /\ \E n \in Nodes(reading.sites) : n.connected

\* The table leaves nothing to the reader.
Explicit(rows) ==
  \A i \in DOMAIN rows : Named(rows[i]) /\ ~IsBlank(Get(rows[i], "xy", None))

\* A scenario that can be planned with gives the planner the same nodes after
\* any sequence of copies, through files, through JSON and through the SDK; so
\* does a table the SDK has read, if it names and places its rows itself.
CopiesPlanAlike ==
  LET reading == ServiceRead(table, crs)
  IN /\ origin # "none"
     /\ Plannable(reading)
     /\ origin = "sdk" => Explicit(table) /\ ~Words(table)
     => /\ held.ok
        /\ Nodes(held.sites) = Nodes(reading.sites)

=============================================================================
