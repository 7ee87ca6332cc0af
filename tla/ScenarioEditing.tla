--------------------------- MODULE ScenarioEditing ---------------------------
(***************************************************************************)
(* cisei_lib/planners/planning_scenario.py with the records of             *)
(* planner_classes.py: the catalogs of antenna, interface and device       *)
(* profiles, the sites instantiated from them or from patterns, the manual *)
(* candidate edges between their interfaces, the connectivity rules, and   *)
(* the bundle (a TOML file and a CSV of instances beside it) a scenario is *)
(* saved to and loaded from, which a crash may leave half written.         *)
(*                                                                         *)
(* Of an interface profile only its antenna is kept, of a site its device  *)
(* profile and the antennas of its interfaces; coordinates, ranks and the  *)
(* other fields are carried along by the code unread.  An interface is     *)
(* named by its site and its place in the device.  The order of            *)
(* dictionaries is kept for the rules only, whose ids are made from it.    *)
(* One caller edits a scenario at a time.  A call that is refused changes  *)
(* nothing and is a stuttering step, unless it fails half way.             *)
(***************************************************************************)
EXTENDS Integers, Sequences, FiniteSets, Functions

CONSTANTS
  Antennas, InterfaceProfiles, DeviceProfiles, Sites,
  Layouts,      \* lists of interface profiles a device profile may have
  Patterns,     \* SitePatterns: lists of antennas, one per interface
  Batches,      \* lists of sites to import together
  EdgePairs,    \* pairs of interfaces add_candidate_edge is called with
  Attrs,        \* attributes of a candidate edge
  RuleIds,      \* explicit rule ids, a set of Nat
  Rules,        \* bodies of connectivity rules
  Techs, Specs, \* metric specifications by technology
  Configs,      \* configuration dictionaries a scenario may start from
  MaxEdits,     \* bound on the edits of a behaviour
  MaxSaves,     \* bound on its saves
  File,         \* the name of the companion CSV
  None

ASSUME ScenarioAssumption ==
  /\ MaxEdits \in Nat /\ MaxSaves \in Nat
  /\ RuleIds \subseteq Nat
  /\ \A p \in EdgePairs : p[1] # p[2]
  /\ Patterns \subseteq Seq(Antennas)
  /\ Batches \subseteq Seq(Sites)
  /\ None \notin BOOLEAN \cup DeviceProfiles \cup {File}
  /\ \A X \in SUBSET Sites : None \notin [X -> DeviceProfiles]

VARIABLES
  sc,       \* the scenario in memory
  saving,   \* include_sites of a save_bundle between its two files, or None
  toml,     \* the configuration in the TOML file, or None
  csv,      \* site -> device profile in the CSV, or None
  edits, saves

files == <<toml, csv>>
vars == <<sc, saving, files, edits, saves>>

Empty ==
  [antennas |-> {}, interfaces |-> <<>>, devices |-> <<>>, metrics |-> <<>>,
   rules |-> <<>>, sites |-> <<>>, edges |-> {}, attrs |-> <<>>, source |-> None]

Put(f, k, v) == [x \in DOMAIN f \cup {k} |-> IF x = k THEN v ELSE f[x]]

Drop(f, ks) == Restrict(f, DOMAIN f \ ks)

InterfaceIds(sites) ==
  UNION {{<<x, k>> : k \in DOMAIN sites[x].radios} : x \in DOMAIN sites}

-----------------------------------------------------------------------------
\* validate(): no problem to report.
Valid(s) ==
  /\ Range(s.interfaces) \subseteq s.antennas
  /\ \A d \in DOMAIN s.devices : Range(s.devices[d]) \subseteq DOMAIN s.interfaces
  /\ \A x \in DOMAIN s.sites : Range(s.sites[x].radios) \subseteq s.antennas
  /\ UNION {{e[1], e[2]} : e \in s.edges} \subseteq InterfaceIds(s.sites)

\* Variant: the concrete interfaces are not looked at.
AntennaUsedByProfiles(s, a) == a \in Range(s.interfaces)

\* What _antenna_profile_users, _interface_profile_users and
\* _device_profile_users look for.
AntennaUsed(s, a) ==
  \/ a \in Range(s.interfaces)
  \/ \E x \in DOMAIN s.sites : a \in Range(s.sites[x].radios)

InterfaceProfileUsed(s, p) == \E d \in DOMAIN s.devices : p \in Range(s.devices[d])

DeviceProfileUsed(s, d) == \E x \in DOMAIN s.sites : s.sites[x].profile = d

\* _site_node_from_profile_record, where it does not raise, and where it does.
Instance(s, d) ==
  [profile |-> d, radios |-> [k \in DOMAIN s.devices[d] |-> s.interfaces[s.devices[d][k]]]]

Instantiable(s, d) == d \in DOMAIN s.devices /\ Range(s.devices[d]) \subseteq DOMAIN s.interfaces

\* What the rows of a table are instantiated to.
NodesOf(s, batch, profileOf) == [x \in Range(batch) |-> Instance(s, profileOf[x])]

\* _next_rule_id
NextRuleId(rules) ==
  CHOOSE n \in 0..Len(rules) :
    /\ \A i \in DOMAIN rules : rules[i].id # n
    /\ \A m \in 0..(n - 1) : \E i \in DOMAIN rules : rules[i].id = m

\* add_site_nodes: one node after the other, up to the first that exists
\* already and may not be replaced.
WithNodes(sites, batch, node, update) ==
  LET added == {batch[i] : i \in {j \in DOMAIN batch :
                  update \/ \A k \in 1..j : batch[k] \notin DOMAIN sites}}
  IN [x \in DOMAIN sites \cup added |-> IF x \in added THEN node[x] ELSE sites[x]]

Distinct(batch) == \A i, j \in DOMAIN batch : batch[i] = batch[j] => i = j

\* An edge of the table between the two, whatever its orientation.
EdgeKey(s, p) == {e \in s.edges : {e[1], e[2]} = {p[1], p[2]}}

-----------------------------------------------------------------------------
\* Saving and loading

\* from_config_dict gives the rules new ids, by their order.
Renumbered(rules) == [i \in DOMAIN rules |-> [rules[i] EXCEPT !.id = i - 1]]

ToConfig(s, include) == [s EXCEPT !.sites = IF include THEN @ ELSE <<>>]

FromConfig(t) == [t EXCEPT !.rules = Renumbered(@)]

\* to_instance_records refuses sites that were not made from a profile.
Exportable(s) == \A x \in DOMAIN s.sites : s.sites[x].profile # None

InstanceRecords(s) == [x \in DOMAIN s.sites |-> s.sites[x].profile]

\* load_instance_source: every row is instantiated before any is added.
LoadInstances(s, c) ==
  IF \A x \in DOMAIN c : Instantiable(s, c[x])
  THEN [s EXCEPT !.sites = [x \in DOMAIN c |-> Instance(s, c[x])]]
  ELSE None

\* from_toml: embedded sites come before the companion CSV; None if it raises.
FromToml(t, c) ==
  LET s == FromConfig(t)
  IN IF s.sites # <<>> \/ s.source = None \/ c = None THEN s ELSE LoadInstances(s, c)

Init ==
  /\ sc \in {Empty} \cup {FromConfig(t) : t \in Configs}
  /\ saving = None
  /\ toml = None /\ csv = None
  /\ edits = 0 /\ saves = 0

-----------------------------------------------------------------------------
\* Profiles

Edit(s) ==
  /\ saving = None /\ edits < MaxEdits
  /\ sc' = s
  /\ edits' = edits + 1
  /\ UNCHANGED <<saving, files, saves>>

AddAntennaProfile(a) == Edit([sc EXCEPT !.antennas = @ \cup {a}])

RemoveAntennaProfile(a, force) ==
  /\ a \in sc.antennas
  /\ force \/ ~AntennaUsed(sc, a)
  /\ Edit([sc EXCEPT !.antennas = @ \ {a}])

AddInterfaceProfile(p, a) == Edit([sc EXCEPT !.interfaces = Put(@, p, a)])

RemoveInterfaceProfile(p, force) ==
  /\ p \in DOMAIN sc.interfaces
  /\ force \/ ~InterfaceProfileUsed(sc, p)
  /\ Edit([sc EXCEPT !.interfaces = Drop(@, {p})])

AddDeviceProfile(d, layout) == Edit([sc EXCEPT !.devices = Put(@, d, layout)])

RemoveDeviceProfile(d, force) ==
  /\ d \in DOMAIN sc.devices
  /\ force \/ ~DeviceProfileUsed(sc, d)
  /\ Edit([sc EXCEPT !.devices = Drop(@, {d})])

-----------------------------------------------------------------------------
\* Metric specifications and rules

AddMetricSpec(tech, spec) == Edit([sc EXCEPT !.metrics = Put(@, tech, spec)])

RemoveMetricSpec(tech) ==
  tech \in DOMAIN sc.metrics /\ Edit([sc EXCEPT !.metrics = Drop(@, {tech})])

ClearMetricSpecs == Edit([sc EXCEPT !.metrics = <<>>])

\* With an explicit id, or with the next one; an existing rule keeps its place.
AddConnectivityRule(body, given) ==
  LET id   == IF given = None THEN NextRuleId(sc.rules) ELSE given
      rule == [id |-> id, body |-> body]
      old  == {i \in DOMAIN sc.rules : sc.rules[i].id = id}
  IN Edit([sc EXCEPT !.rules =
             IF old = {} THEN Append(@, rule)
             ELSE [i \in DOMAIN @ |-> IF i \in old THEN rule ELSE @[i]]])

RemoveConnectivityRule(id) ==
  /\ \E i \in DOMAIN sc.rules : sc.rules[i].id = id
  /\ Edit([sc EXCEPT !.rules = SelectSeq(@, LAMBDA r : r.id # id)])

ClearConnectivityRules == Edit([sc EXCEPT !.rules = <<>>])

-----------------------------------------------------------------------------
\* Sites

\* SitePattern.instantiate_many: the interfaces of all devices of the pattern at
\* every site, with no profile to their name.
PatternNodes(batch, pattern) == [x \in Range(batch) |-> [profile |-> None, radios |-> pattern]]

\* add_site_records: nodes of a pattern, instantiated before any is added.
AddSiteRecords(batch, pattern, update) ==
  Edit(IF Distinct(batch)
       THEN [sc EXCEPT !.sites = WithNodes(@, batch, PatternNodes(batch, pattern), update)]
       ELSE sc)

\* Variant: each node is added as soon as it is made.
AddNodeInstancesRowByRow(batch, profileOf, update) ==
  LET before == {i \in DOMAIN batch : \A j \in 1..i : Instantiable(sc, profileOf[batch[j]])}
      rows   == SubSeq(batch, 1, Cardinality(before))
  IN Edit([sc EXCEPT !.sites = WithNodes(@, rows, NodesOf(sc, rows, profileOf), update)])

\* add_node_instances: each row names its device profile (None where the row
\* has none, or a position that cannot be resolved: both raise).
AddNodeInstances(batch, profileOf, update) ==
  LET good == Distinct(batch) /\ \A x \in Range(batch) : Instantiable(sc, profileOf[x])
      node == NodesOf(sc, batch, profileOf)
  IN Edit(IF good THEN [sc EXCEPT !.sites = WithNodes(@, batch, node, update)] ELSE sc)

AddSiteRecordsFromProfile(batch, d, update) ==
  /\ d \in DOMAIN sc.devices
  /\ AddNodeInstances(batch, [x \in Range(batch) |-> d], update)

\* remove_site_node, and _drop_candidate_edges_for_site.
RemoveSiteNode(x) ==
  LET ids  == {<<x, k>> : k \in DOMAIN sc.sites[x].radios}
      gone == {e \in sc.edges : e[1] \in ids \/ e[2] \in ids}
  IN /\ x \in DOMAIN sc.sites
     /\ Edit([sc EXCEPT !.sites = Drop(@, {x}),
                        !.edges = @ \ gone,
                        !.attrs = Drop(@, gone)])

\* What CellPlanner.remove_sector_interfaces does to a node of the scenario.
RemoveSectorInterface(x, k) ==
  /\ x \in DOMAIN sc.sites
  /\ k \in DOMAIN sc.sites[x].radios
  /\ Edit([sc EXCEPT !.sites[x].radios = Drop(@, {k})])

-----------------------------------------------------------------------------
\* Manual candidate edges

\* Variant: an edge is looked for in the orientation given only.
AddCandidateEdgeOneWay(p, attr) ==
  Edit([sc EXCEPT !.edges = @ \cup {p}, !.attrs = Put(@, p, attr)])

AddCandidateEdge(p, attr) ==
  Edit(IF EdgeKey(sc, p) # {}
       THEN [sc EXCEPT !.attrs = [e \in DOMAIN @ |-> IF e \in EdgeKey(sc, p) THEN attr ELSE @[e]]]
       ELSE [sc EXCEPT !.edges = @ \cup {p}, !.attrs = Put(@, p, attr)])

RemoveCandidateEdge(p) ==
  /\ EdgeKey(sc, p) # {}
  /\ Edit([sc EXCEPT !.edges = @ \ EdgeKey(sc, p), !.attrs = Drop(@, EdgeKey(sc, p))])

ClearCandidateEdges == Edit([sc EXCEPT !.edges = {}, !.attrs = <<>>])

SetInstanceSource(source) == Edit([sc EXCEPT !.source = source])

-----------------------------------------------------------------------------
\* Bundles

\* Variant: the scenario does not learn of its new CSV.
SaveInstancesUnnamed(include) ==
  /\ saving = None /\ saves < MaxSaves
  /\ sc.sites # <<>> => Exportable(sc)
  /\ csv' = IF sc.sites = <<>> THEN csv ELSE InstanceRecords(sc)
  /\ saving' = include
  /\ saves' = saves + 1
  /\ UNCHANGED <<sc, toml, edits>>

\* save_bundle up to the TOML file: with sites, the CSV is written first.
SaveInstances(include) ==
  /\ saving = None /\ saves < MaxSaves
  /\ \/ sc.sites = <<>> /\ UNCHANGED <<sc, csv>>
     \/ /\ sc.sites # <<>>
        /\ Exportable(sc)
        /\ csv' = InstanceRecords(sc)
        /\ sc' = [sc EXCEPT !.source = File]
  /\ saving' = include
  /\ saves' = saves + 1
  /\ UNCHANGED <<toml, edits>>

SaveToml ==
  /\ saving # None
  /\ toml' = ToConfig(sc, saving)
  /\ saving' = None
  /\ UNCHANGED <<sc, csv, edits, saves>>

\* The process ends, between the two files too, and another loads the bundle;
\* what cannot be loaded leaves it with a new scenario.
Reload ==
  /\ toml # None
  /\ sc' = IF FromToml(toml, csv) = None THEN Empty ELSE FromToml(toml, csv)
  /\ saving' = None
  /\ UNCHANGED <<files, edits, saves>>

ProfileStep ==
  \/ \E a \in Antennas : AddAntennaProfile(a) \/ \E f \in BOOLEAN : RemoveAntennaProfile(a, f)
  \/ \E p \in InterfaceProfiles :
       \/ \E a \in Antennas : AddInterfaceProfile(p, a)
       \/ \E f \in BOOLEAN : RemoveInterfaceProfile(p, f)
  \/ \E d \in DeviceProfiles :
       \/ \E l \in Layouts : AddDeviceProfile(d, l)
       \/ \E f \in BOOLEAN : RemoveDeviceProfile(d, f)

RuleStep ==
  \/ \E t \in Techs : RemoveMetricSpec(t) \/ \E s \in Specs : AddMetricSpec(t, s)
  \/ ClearMetricSpecs
  \/ \E b \in Rules, id \in RuleIds \cup {None} : AddConnectivityRule(b, id)
  \/ \E id \in RuleIds : RemoveConnectivityRule(id)
  \/ ClearConnectivityRules

SiteStep ==
  \/ \E batch \in Batches, update \in BOOLEAN :
       \/ \E pattern \in Patterns : AddSiteRecords(batch, pattern, update)
       \/ \E d \in DeviceProfiles : AddSiteRecordsFromProfile(batch, d, update)
       \/ \E f \in [Range(batch) -> DeviceProfiles \cup {None}] : AddNodeInstances(batch, f, update)
  \/ \E x \in DOMAIN sc.sites :
       RemoveSiteNode(x) \/ \E k \in DOMAIN sc.sites[x].radios : RemoveSectorInterface(x, k)

EdgeStep ==
  \/ \E p \in EdgePairs : RemoveCandidateEdge(p) \/ \E attr \in Attrs : AddCandidateEdge(p, attr)
  \/ ClearCandidateEdges
  \/ \E source \in {None, File} : SetInstanceSource(source)

Next ==
  \/ ProfileStep \/ RuleStep \/ SiteStep \/ EdgeStep
  \/ \E include \in BOOLEAN : SaveInstances(include)
  \/ SaveToml
  \/ Reload

Spec == Init /\ [][Next]_vars

-----------------------------------------------------------------------------

Partial(S, T) == UNION {[X -> T] : X \in SUBSET S}

\* The places an interface may have in a device.
Places == UNION {DOMAIN l : l \in Layouts \cup Patterns}

SiteNodes == [profile : DeviceProfiles \cup {None}, radios : Partial(Places, Antennas)]

\* A scenario names antennas, profiles and sites by the tables they may be in or
\* not be in (any more); the rules are left open.
WellFormed(s) ==
  /\ s = [antennas |-> s.antennas, interfaces |-> s.interfaces, devices |-> s.devices,
          metrics |-> s.metrics, rules |-> s.rules, sites |-> s.sites,
          edges |-> s.edges, attrs |-> s.attrs, source |-> s.source]
  /\ s.antennas \subseteq Antennas
  /\ s.interfaces \in Partial(InterfaceProfiles, Antennas)
  /\ s.devices \in Partial(DeviceProfiles, Layouts)
  /\ s.metrics \in Partial(Techs, Specs)
  /\ s.sites \in Partial(Sites, SiteNodes)
  /\ s.edges \subseteq EdgePairs
  /\ s.attrs \in Partial(EdgePairs, Attrs)
  /\ s.source \in {None, File}

TypeOK ==
  /\ WellFormed(sc)
  /\ saving \in BOOLEAN \cup {None}
  /\ toml = None \/ WellFormed(toml)
  /\ csv \in Partial(Sites, DeviceProfiles) \cup {None}
  /\ edits \in 0..MaxEdits
  /\ saves \in 0..MaxSaves

EdgesMatch(s) ==
  /\ DOMAIN s.attrs = s.edges
  /\ \A e \in s.edges : <<e[2], e[1]>> \notin s.edges

\* The list of manual edges and the table of their attributes, which the code
\* keeps apart, name the same edges, and no two edges join the same pair of
\* interfaces in opposite directions: through adding in either direction,
\* removing by either direction, removal of sites and reloading.
EdgesMatchAttributes == EdgesMatch(sc)

\* from_config_dict adds the edges of a configuration one by one.
ASSUME ConfigAssumption == \A c \in Configs : WellFormed(c) /\ EdgesMatch(c)

\* The edits that must not make a valid scenario invalid: removals without
\* force, additions whose references exist, imports that do not replace a site.
\* Forced removals, replaced sites and removed sectors are the ones that may.
CarefulEdit ==
  \/ \E a \in Antennas : AddAntennaProfile(a) \/ RemoveAntennaProfile(a, FALSE)
  \/ \E p \in InterfaceProfiles :
       \/ \E a \in sc.antennas : AddInterfaceProfile(p, a)
       \/ RemoveInterfaceProfile(p, FALSE)
  \/ \E d \in DeviceProfiles :
       \/ \E l \in Layouts : Range(l) \subseteq DOMAIN sc.interfaces /\ AddDeviceProfile(d, l)
       \/ RemoveDeviceProfile(d, FALSE)
  \/ \E batch \in Batches : \E f \in [Range(batch) -> DeviceProfiles \cup {None}] :
       AddNodeInstances(batch, f, FALSE)
  \/ \E x \in Sites : RemoveSiteNode(x)
  \/ \E p \in EdgePairs :
       \/ {p[1], p[2]} \subseteq InterfaceIds(sc.sites) /\ \E attr \in Attrs : AddCandidateEdge(p, attr)
       \/ RemoveCandidateEdge(p)

\* No edit of these leaves a reference to an antenna, a profile or an interface
\* that is gone, so GraphPlanner goes on accepting the scenario.
CarefulEditsKeepValid == [][CarefulEdit /\ Valid(sc) => Valid(sc')]_vars

\* Sites with all rows of a table that they do not have.
Completed(sites, batch, node) ==
  [x \in DOMAIN sites \cup Range(batch) |-> IF x \in DOMAIN sites THEN sites[x] ELSE node[x]]

\* What an import without update has left behind.
Resumable(batch, profileOf) ==
  LET good == Distinct(batch) /\ \A x \in Range(batch) : Instantiable(sc, profileOf[x])
      node == NodesOf(sc, batch, profileOf)
  IN /\ \A x \in DOMAIN sc.sites : x \in DOMAIN sc'.sites /\ sc'.sites[x] = sc.sites[x]
     /\ ~good => sc'.sites = sc.sites
     /\ good =>
          /\ WithNodes(sc'.sites, batch, node, FALSE) = sc'.sites
          /\ \A rest \in Batches :
               Distinct(rest) /\ Range(rest) = Range(batch) \ DOMAIN sc'.sites =>
                 WithNodes(sc'.sites, rest, node, FALSE) = Completed(sc.sites, batch, node)

\* An import without update leaves the sites there are as they were.  A table with a
\* row that cannot be instantiated, or with a site twice, adds nothing.  One that
\* stops at a site that exists leaves the rows before it in place: the same table
\* then adds nothing more, but the rows that are missing can be imported on their
\* own, and with them the scenario has the whole table.
ImportsCanBeResumed ==
  [][\A batch \in Batches : \A f \in [Range(batch) -> DeviceProfiles \cup {None}] :
       AddNodeInstances(batch, f, FALSE) => Resumable(batch, f)]_vars

\* Every site is what its device profile would be instantiated to now.
Fresh(s) ==
  \A x \in DOMAIN s.sites :
    Instantiable(s, s.sites[x].profile) /\ s.sites[x] = Instance(s, s.sites[x].profile)

\* A bundle whose second file is about to be written is loaded as the scenario
\* that was saved, sites, profiles, rules and edges: if its sites are embedded
\* or fresh, and unless the last site was removed after an earlier save (then
\* the old CSV is still named, and its sites come back).
SavedBundleReloads ==
  (/\ saving # None
   /\ saving = TRUE \/ Fresh(sc)
   /\ sc.sites # <<>> \/ sc.source = None) =>
      FromToml(ToConfig(sc, saving), csv) = FromConfig(sc)

=============================================================================
