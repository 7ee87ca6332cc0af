------------------------ MODULE ScenarioEditingProofs ------------------------
(***************************************************************************)
(* The properties of ScenarioEditing for any tables, configurations and    *)
(* lengths of an editing session.                                          *)
(***************************************************************************)
EXTENDS ScenarioEditing, TLAPS

\* What is between the two files of a bundle is what the CSV already holds.
BundleMatches ==
  saving # None /\ sc.sites # <<>> => csv = InstanceRecords(sc) /\ sc.source = File

IInv ==
  /\ TypeOK
  /\ EdgesMatchAttributes
  /\ toml # None => EdgesMatch(toml)
  /\ BundleMatches

-----------------------------------------------------------------------------

\* A partial function is one on its own domain.
LEMMA Partials ==
  ASSUME NEW S, NEW T, NEW f
  PROVE  f \in Partial(S, T) <=> DOMAIN f \subseteq S /\ f \in [DOMAIN f -> T]
  BY DEF Partial

\* Put adds or replaces one value.
LEMMA Puts ==
  ASSUME NEW S, NEW T, NEW f \in Partial(S, T), NEW k \in S, NEW v \in T
  PROVE  /\ Put(f, k, v) \in Partial(S, T)
         /\ DOMAIN Put(f, k, v) = DOMAIN f \cup {k}
         /\ Range(Put(f, k, v)) \subseteq Range(f) \cup {v}
<1>1. DOMAIN f \subseteq S /\ f \in [DOMAIN f -> T]
  BY Partials
<1>2. Put(f, k, v) \in [DOMAIN f \cup {k} -> T]
  BY <1>1 DEF Put
<1>3. DOMAIN Put(f, k, v) = DOMAIN f \cup {k}
  BY DEF Put
<1>4. Put(f, k, v) \in Partial(S, T)
  BY <1>1, <1>2, <1>3, Partials
<1>5. Range(Put(f, k, v)) \subseteq Range(f) \cup {v}
  BY DEF Put, Range
<1> QED
  BY <1>3, <1>4, <1>5

\* The other values stay.
LEMMA PutValues ==
  ASSUME NEW f, NEW k, NEW v
  PROVE  \A x \in DOMAIN Put(f, k, v) :
           Put(f, k, v)[x] = v \/ (x \in DOMAIN f /\ Put(f, k, v)[x] = f[x])
  BY DEF Put

\* Drop takes some away and leaves the others.
LEMMA Dropped ==
  ASSUME NEW f, NEW ks
  PROVE  /\ DOMAIN Drop(f, ks) = DOMAIN f \ ks
         /\ \A x \in DOMAIN f \ ks : Drop(f, ks)[x] = f[x]
         /\ Range(Drop(f, ks)) \subseteq Range(f)
<1>1. Drop(f, ks) = [x \in DOMAIN f \ ks |-> f[x]]
  BY DEF Drop, Restrict
<1>2. DOMAIN Drop(f, ks) = DOMAIN f \ ks /\ \A x \in DOMAIN f \ ks : Drop(f, ks)[x] = f[x]
  BY <1>1
<1> QED
  BY <1>2 DEF Range

\* What is left is of the same kind.
LEMMA Drops ==
  ASSUME NEW S, NEW T, NEW f \in Partial(S, T), NEW ks
  PROVE  Drop(f, ks) \in Partial(S, T)
<1>1. DOMAIN f \subseteq S /\ f \in [DOMAIN f -> T]
  BY Partials
<1>2. Drop(f, ks) \in [DOMAIN f \ ks -> T]
  BY <1>1 DEF Drop, Restrict
<1>3. DOMAIN Drop(f, ks) = DOMAIN f \ ks
  BY Dropped
<1> QED
  BY <1>1, <1>2, <1>3, Partials

\* The empty table.
LEMMA NoEntries ==
  ASSUME NEW S, NEW T
  PROVE  <<>> \in Partial(S, T) /\ DOMAIN <<>> = {}
<1>1. DOMAIN <<>> = {}
  OBVIOUS
<1>2. <<>> \in [{} -> T]
  OBVIOUS
<1> QED
  BY <1>1, <1>2, Partials

\* A scenario stays well formed when a field is replaced by one of its kind.
LEMMA Fields ==
  ASSUME NEW s, WellFormed(s)
  PROVE  /\ \A v \in SUBSET Antennas : WellFormed([s EXCEPT !.antennas = v])
         /\ \A v \in Partial(InterfaceProfiles, Antennas) : WellFormed([s EXCEPT !.interfaces = v])
         /\ \A v \in Partial(DeviceProfiles, Layouts) : WellFormed([s EXCEPT !.devices = v])
         /\ \A v \in Partial(Techs, Specs) : WellFormed([s EXCEPT !.metrics = v])
         /\ \A v : WellFormed([s EXCEPT !.rules = v])
         /\ \A v \in Partial(Sites, SiteNodes) : WellFormed([s EXCEPT !.sites = v])
         /\ \A v \in {None, File} : WellFormed([s EXCEPT !.source = v])
         /\ \A e \in SUBSET EdgePairs, v \in Partial(EdgePairs, Attrs) :
              WellFormed([s EXCEPT !.edges = e, !.attrs = v])
<1>1. \A v \in SUBSET Antennas : WellFormed([s EXCEPT !.antennas = v])
  BY DEF WellFormed
<1>2. \A v \in Partial(InterfaceProfiles, Antennas) : WellFormed([s EXCEPT !.interfaces = v])
  BY DEF WellFormed
<1>3. \A v \in Partial(DeviceProfiles, Layouts) : WellFormed([s EXCEPT !.devices = v])
  BY DEF WellFormed
<1>4. \A v \in Partial(Techs, Specs) : WellFormed([s EXCEPT !.metrics = v])
  BY DEF WellFormed
<1>5. \A v : WellFormed([s EXCEPT !.rules = v])
  BY DEF WellFormed
<1>6. \A v \in Partial(Sites, SiteNodes) : WellFormed([s EXCEPT !.sites = v])
  BY DEF WellFormed
<1>7. \A v \in {None, File} : WellFormed([s EXCEPT !.source = v])
  BY DEF WellFormed
<1>8. ASSUME NEW e \in SUBSET EdgePairs, NEW v \in Partial(EdgePairs, Attrs)
      PROVE  WellFormed([s EXCEPT !.edges = e, !.attrs = v])
  <2> DEFINE t == [s EXCEPT !.edges = e]
  <2>1. t = [antennas |-> s.antennas, interfaces |-> s.interfaces, devices |-> s.devices,
             metrics |-> s.metrics, rules |-> s.rules, sites |-> s.sites,
             edges |-> e, attrs |-> s.attrs, source |-> s.source]
    BY DEF WellFormed
  <2>2. [s EXCEPT !.edges = e, !.attrs = v] = [t EXCEPT !.attrs = v]
    OBVIOUS
  <2> HIDE DEF t
  <2>3. [t EXCEPT !.attrs = v]
          = [antennas |-> s.antennas, interfaces |-> s.interfaces, devices |-> s.devices,
             metrics |-> s.metrics, rules |-> s.rules, sites |-> s.sites,
             edges |-> e, attrs |-> v, source |-> s.source]
    BY <2>1
  <2> QED
    BY <2>2, <2>3 DEF WellFormed
<1> QED
  BY <1>1, <1>2, <1>3, <1>4, <1>5, <1>6, <1>7, <1>8

\* A new scenario is well formed.
LEMMA EmptyScenario == WellFormed(Empty) /\ EdgesMatch(Empty)
  BY NoEntries DEF WellFormed, EdgesMatch, Empty

\* What a device profile is instantiated to is a site, with its antennas from the
\* interface profiles.
LEMMA Instances ==
  ASSUME NEW s, WellFormed(s), NEW d, Instantiable(s, d)
  PROVE  /\ Instance(s, d) \in SiteNodes
         /\ Instance(s, d).profile = d
         /\ Range(Instance(s, d).radios) \subseteq Range(s.interfaces)
<1>1. /\ s.interfaces \in Partial(InterfaceProfiles, Antennas)
      /\ s.devices \in Partial(DeviceProfiles, Layouts)
  BY DEF WellFormed
<1>2. /\ \A p \in DOMAIN s.interfaces : s.interfaces[p] \in Antennas
      /\ d \in DeviceProfiles /\ s.devices[d] \in Layouts
  BY <1>1, Partials DEF Instantiable
<1>3. /\ DOMAIN s.devices[d] \subseteq Places
      /\ \A k \in DOMAIN s.devices[d] : s.devices[d][k] \in DOMAIN s.interfaces
  BY <1>2 DEF Places, Instantiable, Range
<1> DEFINE radios == [k \in DOMAIN s.devices[d] |-> s.interfaces[s.devices[d][k]]]
<1>4. radios \in Partial(Places, Antennas)
  BY <1>2, <1>3, Partials
<1>5. Range(radios) \subseteq Range(s.interfaces)
  BY <1>3 DEF Range
<1>6. Instance(s, d) = [profile |-> d, radios |-> radios]
  BY DEF Instance
<1> HIDE DEF radios
<1> QED
  BY <1>2, <1>4, <1>5, <1>6 DEF SiteNodes

\* Adding sites to a scenario makes one with sites.
LEMMA Nodes ==
  ASSUME NEW sites \in Partial(Sites, SiteNodes), NEW batch \in Seq(Sites), NEW node,
         NEW update, \A x \in Range(batch) : node[x] \in SiteNodes
  PROVE  WithNodes(sites, batch, node, update) \in Partial(Sites, SiteNodes)
<1> DEFINE added == {batch[i] : i \in {j \in DOMAIN batch :
                       update \/ \A k \in 1..j : batch[k] \notin DOMAIN sites}}
           new == [x \in DOMAIN sites \cup added |-> IF x \in added THEN node[x] ELSE sites[x]]
<1>1. WithNodes(sites, batch, node, update) = new
  BY DEF WithNodes
<1>2. added \subseteq Range(batch) /\ Range(batch) \subseteq Sites
  BY DEF Range
<1> HIDE DEF added
<1>3. DOMAIN sites \subseteq Sites /\ \A x \in DOMAIN sites : sites[x] \in SiteNodes
  BY Partials
<1>4. new \in Partial(Sites, SiteNodes)
  BY <1>2, <1>3, Partials
<1> QED
  BY <1>1, <1>4

-----------------------------------------------------------------------------

\* An edit to a well-formed scenario keeps the types.
LEMMA EditTypes ==
  ASSUME TypeOK, NEW s, WellFormed(s), Edit(s)
  PROVE  TypeOK'
  BY ScenarioAssumption DEF TypeOK, Edit, files

\* So do the steps on profiles,
LEMMA ProfileTypes == TypeOK /\ ProfileStep => TypeOK'
<1> SUFFICES ASSUME TypeOK, ProfileStep PROVE TypeOK'
  OBVIOUS
<1>0. WellFormed(sc)
  BY DEF TypeOK
<1>00. /\ sc.antennas \subseteq Antennas
       /\ sc.interfaces \in Partial(InterfaceProfiles, Antennas)
       /\ sc.devices \in Partial(DeviceProfiles, Layouts)
  BY <1>0 DEF WellFormed
<1>1. ASSUME NEW a \in Antennas, AddAntennaProfile(a) PROVE TypeOK'
  <2>1. WellFormed([sc EXCEPT !.antennas = @ \cup {a}])
    BY <1>0, <1>00, Fields
  <2> QED
    BY <1>1, <2>1, EditTypes DEF AddAntennaProfile
<1>2. ASSUME NEW a \in Antennas, NEW f \in BOOLEAN, RemoveAntennaProfile(a, f) PROVE TypeOK'
  <2>1. WellFormed([sc EXCEPT !.antennas = @ \ {a}])
    BY <1>0, <1>00, Fields
  <2> QED
    BY <1>2, <2>1, EditTypes DEF RemoveAntennaProfile
<1>3. ASSUME NEW p \in InterfaceProfiles, NEW a \in Antennas, AddInterfaceProfile(p, a) PROVE TypeOK'
  <2>1. WellFormed([sc EXCEPT !.interfaces = Put(@, p, a)])
    BY <1>0, <1>00, Puts, Fields
  <2> QED
    BY <1>3, <2>1, EditTypes DEF AddInterfaceProfile
<1>4. ASSUME NEW p \in InterfaceProfiles, NEW f \in BOOLEAN, RemoveInterfaceProfile(p, f) PROVE TypeOK'
  <2>1. WellFormed([sc EXCEPT !.interfaces = Drop(@, {p})])
    BY <1>0, <1>00, Drops, Fields
  <2> QED
    BY <1>4, <2>1, EditTypes DEF RemoveInterfaceProfile
<1>5. ASSUME NEW d \in DeviceProfiles, NEW l \in Layouts, AddDeviceProfile(d, l) PROVE TypeOK'
  <2>1. WellFormed([sc EXCEPT !.devices = Put(@, d, l)])
    BY <1>0, <1>00, Puts, Fields
  <2> QED
    BY <1>5, <2>1, EditTypes DEF AddDeviceProfile
<1>6. ASSUME NEW d \in DeviceProfiles, NEW f \in BOOLEAN, RemoveDeviceProfile(d, f) PROVE TypeOK'
  <2>1. WellFormed([sc EXCEPT !.devices = Drop(@, {d})])
    BY <1>0, <1>00, Drops, Fields
  <2> QED
    BY <1>6, <2>1, EditTypes DEF RemoveDeviceProfile
<1> QED
  BY <1>1, <1>2, <1>3, <1>4, <1>5, <1>6 DEF ProfileStep

\* on metric specifications and rules,
LEMMA RuleTypes == TypeOK /\ RuleStep => TypeOK'
<1> SUFFICES ASSUME TypeOK, RuleStep PROVE TypeOK'
  OBVIOUS
<1>0. WellFormed(sc)
  BY DEF TypeOK
<1>00. sc.metrics \in Partial(Techs, Specs)
  BY <1>0 DEF WellFormed
<1>1. ASSUME NEW t \in Techs, RemoveMetricSpec(t) PROVE TypeOK'
  <2>1. WellFormed([sc EXCEPT !.metrics = Drop(@, {t})])
    BY <1>0, <1>00, Drops, Fields
  <2> QED
    BY <1>1, <2>1, EditTypes DEF RemoveMetricSpec
<1>2. ASSUME NEW t \in Techs, NEW s \in Specs, AddMetricSpec(t, s) PROVE TypeOK'
  <2>1. WellFormed([sc EXCEPT !.metrics = Put(@, t, s)])
    BY <1>0, <1>00, Puts, Fields
  <2> QED
    BY <1>2, <2>1, EditTypes DEF AddMetricSpec
<1>3. CASE ClearMetricSpecs
  <2>1. WellFormed([sc EXCEPT !.metrics = <<>>])
    BY <1>0, NoEntries, Fields
  <2> QED
    BY <1>3, <2>1, EditTypes DEF ClearMetricSpecs
<1>4. ASSUME NEW rules, Edit([sc EXCEPT !.rules = rules]) PROVE TypeOK'
  <2>1. WellFormed([sc EXCEPT !.rules = rules])
    BY <1>0, Fields
  <2> QED
    BY <1>4, <2>1, EditTypes
<1> QED
  BY <1>1, <1>2, <1>3, <1>4
  DEF RuleStep, AddConnectivityRule, RemoveConnectivityRule, ClearConnectivityRules

\* on sites,
LEMMA SiteTypes == TypeOK /\ SiteStep => TypeOK'
<1> SUFFICES ASSUME TypeOK, SiteStep PROVE TypeOK'
  OBVIOUS
<1>0. WellFormed(sc)
  BY DEF TypeOK
<1>00. /\ sc.sites \in Partial(Sites, SiteNodes)
       /\ sc.edges \subseteq EdgePairs /\ sc.attrs \in Partial(EdgePairs, Attrs)
  BY <1>0 DEF WellFormed
<1>1. ASSUME NEW batch \in Batches, NEW update \in BOOLEAN, NEW node,
             \A x \in Range(batch) : node[x] \in SiteNodes,
             Edit([sc EXCEPT !.sites = WithNodes(@, batch, node, update)])
      PROVE  TypeOK'
  <2>1. WellFormed([sc EXCEPT !.sites = WithNodes(@, batch, node, update)])
    BY <1>0, <1>00, <1>1, ScenarioAssumption, Nodes, Fields
  <2> QED
    BY <1>1, <2>1, EditTypes
<1>2. ASSUME NEW batch \in Batches, NEW update \in BOOLEAN, NEW pattern \in Patterns,
             AddSiteRecords(batch, pattern, update)
      PROVE  TypeOK'
  <2>1. pattern \in Partial(Places, Antennas)
    BY ScenarioAssumption, Partials DEF Places
  <2>2. \A x \in Range(batch) : PatternNodes(batch, pattern)[x] \in SiteNodes
    BY <2>1 DEF PatternNodes, SiteNodes
  <2> QED
    BY <1>0, <1>1, <1>2, <2>2, EditTypes DEF AddSiteRecords
<1>3. ASSUME NEW batch \in Batches, NEW update \in BOOLEAN, NEW f,
             AddNodeInstances(batch, f, update)
      PROVE  TypeOK'
  <2> DEFINE node == NodesOf(sc, batch, f)
  <2>1. CASE Distinct(batch) /\ \A x \in Range(batch) : Instantiable(sc, f[x])
    <3>1. \A x \in Range(batch) : node[x] \in SiteNodes
      BY <1>0, <2>1, Instances DEF NodesOf
    <3> QED
      BY <1>1, <1>3, <2>1, <3>1 DEF AddNodeInstances
  <2>2. CASE ~(Distinct(batch) /\ \A x \in Range(batch) : Instantiable(sc, f[x]))
    BY <1>0, <1>3, <2>2, EditTypes DEF AddNodeInstances
  <2> QED
    BY <2>1, <2>2
<1>4. ASSUME NEW x \in DOMAIN sc.sites, RemoveSiteNode(x) PROVE TypeOK'
  <2> DEFINE ids == {<<x, k>> : k \in DOMAIN sc.sites[x].radios}
             gone == {e \in sc.edges : e[1] \in ids \/ e[2] \in ids}
             less == [sc EXCEPT !.sites = Drop(@, {x})]
  <2>1. WellFormed(less)
    BY <1>0, <1>00, Drops, Fields
  <2>2. WellFormed([less EXCEPT !.edges = sc.edges \ gone, !.attrs = Drop(sc.attrs, gone)])
    BY <1>00, <2>1, Drops, Fields
  <2>3. [less EXCEPT !.edges = sc.edges \ gone, !.attrs = Drop(sc.attrs, gone)]
          = [sc EXCEPT !.sites = Drop(@, {x}), !.edges = @ \ gone, !.attrs = Drop(@, gone)]
    BY <1>0 DEF WellFormed
  <2> QED
    BY <1>4, <2>2, <2>3, EditTypes DEF RemoveSiteNode
<1>5. ASSUME NEW x \in DOMAIN sc.sites, NEW k, RemoveSectorInterface(x, k) PROVE TypeOK'
  <2>1. sc.sites \in [DOMAIN sc.sites -> SiteNodes] /\ DOMAIN sc.sites \subseteq Sites
    BY <1>00, Partials
  <2>2. [sc.sites[x] EXCEPT !.radios = Drop(@, {k})] \in SiteNodes
    <3>1. sc.sites[x] \in SiteNodes
      BY <2>1
    <3>2. sc.sites[x].radios \in Partial(Places, Antennas)
      BY <3>1 DEF SiteNodes
    <3>3. Drop(sc.sites[x].radios, {k}) \in Partial(Places, Antennas)
      BY <3>2, Drops
    <3> QED
      BY <3>1, <3>3 DEF SiteNodes
  <2>3. [sc.sites EXCEPT ![x].radios = Drop(@, {k})] \in Partial(Sites, SiteNodes)
    BY <2>1, <2>2, Partials
  <2>4. WellFormed([sc EXCEPT !.sites = [sc.sites EXCEPT ![x].radios = Drop(@, {k})]])
    BY <1>0, <2>3, Fields
  <2> QED
    BY <1>5, <2>4, EditTypes DEF RemoveSectorInterface
<1> QED
  BY <1>2, <1>3, <1>4, <1>5 DEF SiteStep, AddSiteRecordsFromProfile

\* and on edges.
LEMMA EdgeTypes == TypeOK /\ EdgeStep => TypeOK'
<1> SUFFICES ASSUME TypeOK, EdgeStep PROVE TypeOK'
  OBVIOUS
<1>0. WellFormed(sc)
  BY DEF TypeOK
<1>00. sc.edges \subseteq EdgePairs /\ sc.attrs \in Partial(EdgePairs, Attrs)
  BY <1>0 DEF WellFormed
<1>1. ASSUME NEW p \in EdgePairs, RemoveCandidateEdge(p) PROVE TypeOK'
  <2>1. WellFormed([sc EXCEPT !.edges = @ \ EdgeKey(sc, p), !.attrs = Drop(@, EdgeKey(sc, p))])
    BY <1>0, <1>00, Drops, Fields
  <2> QED
    BY <1>1, <2>1, EditTypes DEF RemoveCandidateEdge
<1>2. ASSUME NEW p \in EdgePairs, NEW attr \in Attrs, AddCandidateEdge(p, attr) PROVE TypeOK'
  <2> DEFINE changed == [e \in DOMAIN sc.attrs |->
                           IF e \in EdgeKey(sc, p) THEN attr ELSE sc.attrs[e]]
  <2>1. changed \in Partial(EdgePairs, Attrs)
    BY <1>00, Partials
  <2>2. WellFormed([sc EXCEPT !.edges = sc.edges, !.attrs = changed])
    BY <1>0, <1>00, <2>1, Fields
  <2>3. [sc EXCEPT !.edges = sc.edges, !.attrs = changed] = [sc EXCEPT !.attrs = changed]
    BY <1>0 DEF WellFormed
  <2>4. WellFormed([sc EXCEPT !.edges = @ \cup {p}, !.attrs = Put(@, p, attr)])
    <3>1. Put(sc.attrs, p, attr) \in Partial(EdgePairs, Attrs)
      BY <1>00, Puts
    <3> QED
      BY <1>0, <1>00, <3>1, Fields
  <2> QED
    BY <1>2, <2>2, <2>3, <2>4, EditTypes DEF AddCandidateEdge
<1>3. CASE ClearCandidateEdges
  <2>1. WellFormed([sc EXCEPT !.edges = {}, !.attrs = <<>>])
    BY <1>0, NoEntries, Fields
  <2> QED
    BY <1>3, <2>1, EditTypes DEF ClearCandidateEdges
<1>4. ASSUME NEW source \in {None, File}, SetInstanceSource(source) PROVE TypeOK'
  <2>1. WellFormed([sc EXCEPT !.source = source])
    BY <1>0, Fields
  <2> QED
    BY <1>4, <2>1, EditTypes DEF SetInstanceSource
<1> QED
  BY <1>1, <1>2, <1>3, <1>4 DEF EdgeStep

\* What is saved and loaded is well formed.
LEMMA LoadedTypes ==
  ASSUME NEW t, WellFormed(t), NEW c \in Partial(Sites, DeviceProfiles) \cup {None}
  PROVE  /\ WellFormed(FromConfig(t))
         /\ FromToml(t, c) # None => WellFormed(FromToml(t, c))
<1> DEFINE s == FromConfig(t)
<1>1. WellFormed(s)
  BY Fields DEF FromConfig
<1> HIDE DEF s
<1>2. ASSUME c # None, LoadInstances(s, c) # None PROVE WellFormed(LoadInstances(s, c))
  <2>1. c \in Partial(Sites, DeviceProfiles)
    BY <1>2
  <2>2. \A x \in DOMAIN c : Instantiable(s, c[x])
    BY <1>2 DEF LoadInstances
  <2> DEFINE sites == [x \in DOMAIN c |-> Instance(s, c[x])]
  <2>3. sites \in Partial(Sites, SiteNodes)
    BY <1>1, <2>1, <2>2, Instances, Partials
  <2>4. WellFormed([s EXCEPT !.sites = sites])
    BY <1>1, <2>3, Fields
  <2> QED
    BY <2>2, <2>4 DEF LoadInstances
<1>3. FromToml(t, c) = IF s.sites # <<>> \/ s.source = None \/ c = None THEN s ELSE LoadInstances(s, c)
  BY DEF FromToml, s
<1> QED
  BY <1>1, <1>2, <1>3 DEF s

\* Every step keeps the types.
LEMMA NextTypes == TypeOK /\ [Next]_vars => TypeOK'
<1> SUFFICES ASSUME TypeOK, [Next]_vars PROVE TypeOK'
  OBVIOUS
<1> USE DEF files
<1>0. WellFormed(sc) /\ sc.sites \in Partial(Sites, SiteNodes)
  BY DEF TypeOK, WellFormed
<1>1. ASSUME NEW include \in BOOLEAN, SaveInstances(include) PROVE TypeOK'
  <2>1. saves' \in 0..MaxSaves /\ saving' \in BOOLEAN /\ UNCHANGED <<toml, edits>>
    BY <1>1, ScenarioAssumption DEF SaveInstances, TypeOK
  <2>2. WellFormed(sc')
    BY <1>0, <1>1, Fields DEF SaveInstances
  <2>3. ASSUME Exportable(sc) PROVE InstanceRecords(sc) \in Partial(Sites, DeviceProfiles)
    <3>1. DOMAIN sc.sites \subseteq Sites /\ \A x \in DOMAIN sc.sites : sc.sites[x] \in SiteNodes
      BY <1>0, Partials
    <3>2. \A x \in DOMAIN sc.sites : sc.sites[x].profile \in DeviceProfiles
      BY <2>3, <3>1 DEF Exportable, SiteNodes
    <3> QED
      BY <3>1, <3>2, Partials DEF InstanceRecords
  <2>4. csv' \in Partial(Sites, DeviceProfiles) \cup {None}
    BY <1>1, <2>3 DEF SaveInstances, TypeOK
  <2> QED
    BY <2>1, <2>2, <2>4 DEF TypeOK
<1>2. CASE SaveToml
  <2>1. WellFormed(ToConfig(sc, saving))
    <3>1. CASE saving
      BY <1>0, <3>1, Fields DEF ToConfig
    <3>2. CASE ~saving
      BY <1>0, <3>2, NoEntries, Fields DEF ToConfig
    <3> QED
      BY <3>1, <3>2
  <2> QED
    BY <1>2, <2>1 DEF TypeOK, SaveToml
<1>3. CASE Reload
  <2>1. WellFormed(sc')
    BY <1>3, LoadedTypes, EmptyScenario DEF Reload, TypeOK
  <2> QED
    BY <1>3, <2>1 DEF TypeOK, Reload
<1>4. CASE UNCHANGED vars
  BY <1>4 DEF TypeOK, vars
<1> QED
  BY <1>1, <1>2, <1>3, <1>4, ProfileTypes, RuleTypes, SiteTypes, EdgeTypes DEF Next

-----------------------------------------------------------------------------

\* The initial state satisfies the inductive invariant.
LEMMA InitInv == Init => IInv
<1> SUFFICES ASSUME Init PROVE IInv
  OBVIOUS
<1>1. WellFormed(sc) /\ EdgesMatch(sc)
  <2>1. ASSUME NEW c \in Configs PROVE WellFormed(FromConfig(c)) /\ EdgesMatch(FromConfig(c))
    <3>1. WellFormed(c) /\ EdgesMatch(c)
      BY ConfigAssumption
    <3>2. WellFormed(FromConfig(c))
      BY <3>1, Fields DEF FromConfig
    <3>3. FromConfig(c).edges = c.edges /\ FromConfig(c).attrs = c.attrs
      BY <3>1 DEF FromConfig, WellFormed
    <3> QED
      BY <3>1, <3>2, <3>3 DEF EdgesMatch
  <2> QED
    BY <2>1, EmptyScenario DEF Init
<1> QED
  BY <1>1, ScenarioAssumption DEF Init, IInv, TypeOK, EdgesMatchAttributes, BundleMatches

-----------------------------------------------------------------------------

\* The edges stay when sites, rules or the source are replaced.
LEMMA Replaced ==
  ASSUME NEW s, WellFormed(s), NEW v
  PROVE  /\ [s EXCEPT !.sites = v].edges = s.edges /\ [s EXCEPT !.sites = v].attrs = s.attrs
         /\ [s EXCEPT !.rules = v].edges = s.edges /\ [s EXCEPT !.rules = v].attrs = s.attrs
         /\ [s EXCEPT !.source = v].edges = s.edges /\ [s EXCEPT !.source = v].attrs = s.attrs
         /\ [s EXCEPT !.source = v].source = v /\ [s EXCEPT !.source = v].sites = s.sites
<1>1. [s EXCEPT !.sites = v].edges = s.edges /\ [s EXCEPT !.sites = v].attrs = s.attrs
  BY DEF WellFormed
<1>2. [s EXCEPT !.rules = v].edges = s.edges /\ [s EXCEPT !.rules = v].attrs = s.attrs
  BY DEF WellFormed
<1>3. /\ [s EXCEPT !.source = v].edges = s.edges /\ [s EXCEPT !.source = v].attrs = s.attrs
      /\ [s EXCEPT !.source = v].source = v /\ [s EXCEPT !.source = v].sites = s.sites
  BY DEF WellFormed
<1> QED
  BY <1>1, <1>2, <1>3

\* Both fields of the edges are replaced at once.
LEMMA ReplacedEdges ==
  ASSUME NEW s, WellFormed(s), NEW e, NEW v
  PROVE  /\ [s EXCEPT !.edges = e, !.attrs = v].edges = e
         /\ [s EXCEPT !.edges = e, !.attrs = v].attrs = v
         /\ [s EXCEPT !.edges = e, !.attrs = v].antennas = s.antennas
         /\ [s EXCEPT !.edges = e, !.attrs = v].interfaces = s.interfaces
         /\ [s EXCEPT !.edges = e, !.attrs = v].devices = s.devices
         /\ [s EXCEPT !.edges = e, !.attrs = v].sites = s.sites
  BY DEF WellFormed

\* So are they with the sites, when one is removed.
LEMMA RemovedSite ==
  ASSUME NEW s, WellFormed(s), NEW w, NEW e, NEW v
  PROVE  /\ [s EXCEPT !.sites = w, !.edges = e, !.attrs = v].sites = w
         /\ [s EXCEPT !.sites = w, !.edges = e, !.attrs = v].edges = e
         /\ [s EXCEPT !.sites = w, !.edges = e, !.attrs = v].attrs = v
         /\ [s EXCEPT !.sites = w, !.edges = e, !.attrs = v].antennas = s.antennas
         /\ [s EXCEPT !.sites = w, !.edges = e, !.attrs = v].interfaces = s.interfaces
         /\ [s EXCEPT !.sites = w, !.edges = e, !.attrs = v].devices = s.devices
  BY DEF WellFormed

-----------------------------------------------------------------------------

\* Removing edges from list and table alike keeps them matching.
LEMMA FewerEdges ==
  ASSUME NEW s, WellFormed(s), EdgesMatch(s), NEW t, NEW gone,
         t.edges = s.edges \ gone, t.attrs = Drop(s.attrs, gone)
  PROVE  EdgesMatch(t)
<1>1. DOMAIN Drop(s.attrs, gone) = DOMAIN s.attrs \ gone
  BY Dropped
<1> QED
  BY <1>1 DEF EdgesMatch

\* Every step keeps the edges matching their attributes, in memory and in the file.
LEMMA NextEdges ==
  TypeOK /\ EdgesMatchAttributes /\ (toml # None => EdgesMatch(toml)) /\ [Next]_vars
    => EdgesMatchAttributes' /\ (toml # None => EdgesMatch(toml))'
<1> SUFFICES ASSUME TypeOK, EdgesMatch(sc), toml # None => EdgesMatch(toml), [Next]_vars
             PROVE  EdgesMatch(sc') /\ (toml' # None => EdgesMatch(toml'))
  BY DEF EdgesMatchAttributes
<1> USE DEF files
<1>0. WellFormed(sc) /\ (toml # None => WellFormed(toml))
  BY DEF TypeOK
<1>1. ASSUME UNCHANGED toml, sc'.edges = sc.edges, sc'.attrs = sc.attrs
      PROVE  EdgesMatch(sc') /\ (toml' # None => EdgesMatch(toml'))
  BY <1>1 DEF EdgesMatch
<1>2. CASE ProfileStep
  <2>1. ASSUME NEW v, \/ Edit([sc EXCEPT !.antennas = v])
                      \/ Edit([sc EXCEPT !.interfaces = v])
                      \/ Edit([sc EXCEPT !.devices = v])
        PROVE  sc'.edges = sc.edges /\ sc'.attrs = sc.attrs /\ UNCHANGED toml
    BY <1>0, <2>1 DEF Edit, WellFormed
  <2>2. sc'.edges = sc.edges /\ sc'.attrs = sc.attrs /\ UNCHANGED toml
    BY <1>2, <2>1
    DEF ProfileStep, AddAntennaProfile, RemoveAntennaProfile, AddInterfaceProfile,
        RemoveInterfaceProfile, AddDeviceProfile, RemoveDeviceProfile
  <2> QED
    BY <1>1, <2>2
<1>3. CASE RuleStep
  <2>1. ASSUME NEW v, Edit([sc EXCEPT !.metrics = v]) \/ Edit([sc EXCEPT !.rules = v])
        PROVE  sc'.edges = sc.edges /\ sc'.attrs = sc.attrs /\ UNCHANGED toml
    BY <1>0, <2>1 DEF Edit, WellFormed
  <2>2. sc'.edges = sc.edges /\ sc'.attrs = sc.attrs /\ UNCHANGED toml
    BY <1>3, <2>1
    DEF RuleStep, AddMetricSpec, RemoveMetricSpec, ClearMetricSpecs, AddConnectivityRule,
        RemoveConnectivityRule, ClearConnectivityRules
  <2> QED
    BY <1>1, <2>2
<1>4. ASSUME NEW x \in DOMAIN sc.sites, RemoveSiteNode(x)
      PROVE  EdgesMatch(sc') /\ UNCHANGED toml
  <2> DEFINE ids == {<<x, k>> : k \in DOMAIN sc.sites[x].radios}
             gone == {e \in sc.edges : e[1] \in ids \/ e[2] \in ids}
  <2>1. sc' = [sc EXCEPT !.sites = Drop(@, {x}), !.edges = @ \ gone, !.attrs = Drop(@, gone)]
    BY <1>4 DEF RemoveSiteNode, Edit
  <2> HIDE DEF gone
  <2>2. sc'.edges = sc.edges \ gone /\ sc'.attrs = Drop(sc.attrs, gone)
    BY <1>0, <2>1, RemovedSite
  <2> QED
    BY <1>0, <1>4, <2>2, FewerEdges DEF RemoveSiteNode, Edit
<1>5. CASE SiteStep
  <2>1. ASSUME NEW w, Edit([sc EXCEPT !.sites = w])
        PROVE  EdgesMatch(sc') /\ (toml' # None => EdgesMatch(toml'))
    BY <1>0, <1>1, <2>1, Replaced DEF Edit
  <2>2. ASSUME NEW batch, NEW update, NEW f, AddNodeInstances(batch, f, update)
        PROVE  EdgesMatch(sc') /\ (toml' # None => EdgesMatch(toml'))
    BY <1>0, <1>1, <2>1, <2>2 DEF AddNodeInstances, Edit
  <2>3. ASSUME NEW batch, NEW update, NEW pattern, AddSiteRecords(batch, pattern, update)
        PROVE  EdgesMatch(sc') /\ (toml' # None => EdgesMatch(toml'))
    BY <1>0, <1>1, <2>1, <2>3 DEF AddSiteRecords, Edit
  <2>4. ASSUME NEW x, NEW k, RemoveSectorInterface(x, k)
        PROVE  EdgesMatch(sc') /\ (toml' # None => EdgesMatch(toml'))
    BY <2>1, <2>4 DEF RemoveSectorInterface
  <2> QED
    BY <1>4, <1>5, <2>2, <2>3, <2>4 DEF SiteStep, AddSiteRecordsFromProfile
<1>6. ASSUME NEW p \in EdgePairs, NEW attr \in Attrs, AddCandidateEdge(p, attr)
      PROVE  EdgesMatch(sc') /\ UNCHANGED toml
  <2>0. UNCHANGED toml
    BY <1>6 DEF AddCandidateEdge, Edit
  <2>1. CASE EdgeKey(sc, p) # {}
    <3> DEFINE changed == [e \in DOMAIN sc.attrs |->
                             IF e \in EdgeKey(sc, p) THEN attr ELSE sc.attrs[e]]
    <3>1. sc' = [sc EXCEPT !.attrs = changed]
      BY <1>6, <2>1 DEF AddCandidateEdge, Edit
    <3>2. DOMAIN changed = DOMAIN sc.attrs
      OBVIOUS
    <3> HIDE DEF changed
    <3>3. sc'.edges = sc.edges /\ sc'.attrs = changed
      BY <1>0, <3>1 DEF WellFormed
    <3> QED
      BY <2>0, <3>2, <3>3 DEF EdgesMatch
  <2>2. CASE EdgeKey(sc, p) = {}
    <3>1. sc' = [sc EXCEPT !.edges = @ \cup {p}, !.attrs = Put(@, p, attr)]
      BY <1>6, <2>2 DEF AddCandidateEdge, Edit
    <3>2. sc'.edges = sc.edges \cup {p} /\ sc'.attrs = Put(sc.attrs, p, attr)
      BY <1>0, <3>1, ReplacedEdges
    <3>3. DOMAIN Put(sc.attrs, p, attr) = DOMAIN sc.attrs \cup {p}
      BY DEF Put
    <3>4. \A e \in sc.edges : {e[1], e[2]} # {p[1], p[2]}
      BY <2>2 DEF EdgeKey
    <3>5. p[1] # p[2]
      BY ScenarioAssumption
    <3>6. \A e \in sc.edges : /\ <<e[2], e[1]>> # p
                              /\ <<p[2], p[1]>> # e
      BY <3>4
    <3>7. <<p[2], p[1]>> # p
      BY <3>5
    <3> QED
      BY <2>0, <3>2, <3>3, <3>6, <3>7 DEF EdgesMatch
  <2> QED
    BY <2>1, <2>2
<1>7. CASE EdgeStep
  <2>1. ASSUME NEW p, RemoveCandidateEdge(p) PROVE EdgesMatch(sc') /\ UNCHANGED toml
    <3>1. sc' = [sc EXCEPT !.edges = @ \ EdgeKey(sc, p), !.attrs = Drop(@, EdgeKey(sc, p))]
      BY <2>1 DEF RemoveCandidateEdge, Edit
    <3>2. /\ sc'.edges = sc.edges \ EdgeKey(sc, p)
          /\ sc'.attrs = Drop(sc.attrs, EdgeKey(sc, p))
      BY <1>0, <3>1, ReplacedEdges
    <3> QED
      BY <1>0, <2>1, <3>2, FewerEdges DEF RemoveCandidateEdge, Edit
  <2>2. CASE ClearCandidateEdges
    <3>1. sc' = [sc EXCEPT !.edges = {}, !.attrs = <<>>] /\ UNCHANGED toml
      BY <2>2 DEF ClearCandidateEdges, Edit
    <3>2. sc'.edges = {} /\ sc'.attrs = <<>>
      BY <1>0, <3>1, ReplacedEdges
    <3> QED
      BY <3>1, <3>2, NoEntries DEF EdgesMatch
  <2>3. ASSUME NEW source, SetInstanceSource(source)
        PROVE  EdgesMatch(sc') /\ (toml' # None => EdgesMatch(toml'))
    BY <1>0, <1>1, <2>3, Replaced DEF SetInstanceSource, Edit
  <2> QED
    BY <1>6, <1>7, <2>1, <2>2, <2>3 DEF EdgeStep
<1>8. ASSUME NEW include, SaveInstances(include)
      PROVE  EdgesMatch(sc') /\ (toml' # None => EdgesMatch(toml'))
  <2>1. UNCHANGED toml /\ (UNCHANGED sc \/ sc' = [sc EXCEPT !.source = File])
    BY <1>8 DEF SaveInstances
  <2>2. sc'.edges = sc.edges /\ sc'.attrs = sc.attrs
    BY <1>0, <2>1 DEF WellFormed
  <2> QED
    BY <1>1, <2>1, <2>2
<1>9. CASE SaveToml
  <2>1. UNCHANGED sc /\ \E w : toml' = [sc EXCEPT !.sites = w]
    BY <1>9 DEF SaveToml, ToConfig
  <2> QED
    BY <1>0, <2>1, Replaced DEF EdgesMatch
<1>10. CASE Reload
  <2>1. WellFormed(toml) /\ EdgesMatch(toml) /\ UNCHANGED toml
    BY <1>0, <1>10 DEF Reload
  <2>2. /\ FromConfig(toml).edges = toml.edges /\ FromConfig(toml).attrs = toml.attrs
        /\ WellFormed(FromConfig(toml))
    BY <2>1, Replaced, Fields DEF FromConfig
  <2>3. \/ sc' = FromConfig(toml)
        \/ \E w : sc' = [FromConfig(toml) EXCEPT !.sites = w]
        \/ sc' = Empty
    BY <1>10 DEF Reload, FromToml, LoadInstances
  <2>4. CASE sc' = Empty
    BY <2>1, <2>4, EmptyScenario
  <2>5. CASE sc' # Empty
    <3>1. sc'.edges = toml.edges /\ sc'.attrs = toml.attrs
      <4> DEFINE s == FromConfig(toml)
      <4> HIDE DEF s
      <4>1. ASSUME NEW w, sc' = [s EXCEPT !.sites = w] PROVE sc'.edges = s.edges /\ sc'.attrs = s.attrs
        BY <2>2, <4>1 DEF WellFormed, s
      <4> QED
        BY <2>2, <2>3, <2>5, <4>1 DEF s
    <3> QED
      BY <2>1, <3>1 DEF EdgesMatch
  <2> QED
    BY <2>4, <2>5
<1>11. CASE UNCHANGED vars
  BY <1>11 DEF vars
<1> QED
  BY <1>2, <1>3, <1>5, <1>7, <1>8, <1>9, <1>10, <1>11 DEF Next

\* Nothing changes between the two files of a bundle.
LEMMA NextBundle == TypeOK /\ BundleMatches /\ [Next]_vars => BundleMatches'
<1> SUFFICES ASSUME TypeOK, BundleMatches, [Next]_vars PROVE BundleMatches'
  OBVIOUS
<1>0. WellFormed(sc)
  BY DEF TypeOK
<1>1. ASSUME NEW s, Edit(s) PROVE BundleMatches'
  BY <1>1 DEF Edit, BundleMatches
<1>2. ProfileStep \/ RuleStep \/ SiteStep \/ EdgeStep => \E s : Edit(s)
  BY DEF ProfileStep, AddAntennaProfile, RemoveAntennaProfile, AddInterfaceProfile,
         RemoveInterfaceProfile, AddDeviceProfile, RemoveDeviceProfile,
         RuleStep, AddMetricSpec, RemoveMetricSpec, ClearMetricSpecs, AddConnectivityRule,
         RemoveConnectivityRule, ClearConnectivityRules,
         SiteStep, AddSiteRecords, AddSiteRecordsFromProfile, AddNodeInstances, RemoveSiteNode,
         RemoveSectorInterface,
         EdgeStep, AddCandidateEdge, RemoveCandidateEdge, ClearCandidateEdges, SetInstanceSource
<1>3. ASSUME NEW include \in BOOLEAN, SaveInstances(include) PROVE BundleMatches'
  <2>1. CASE sc.sites = <<>> /\ UNCHANGED <<sc, csv>>
    BY <2>1 DEF BundleMatches
  <2>2. CASE sc.sites # <<>> /\ csv' = InstanceRecords(sc) /\ sc' = [sc EXCEPT !.source = File]
    <3>1. sc'.source = File /\ sc'.sites = sc.sites
      BY <1>0, <2>2, Replaced
    <3> QED
      BY <2>2, <3>1 DEF BundleMatches, InstanceRecords
  <2> QED
    BY <1>3, <2>1, <2>2 DEF SaveInstances
<1>4. CASE SaveToml \/ Reload
  BY <1>4 DEF SaveToml, Reload, BundleMatches
<1>5. CASE UNCHANGED vars
  BY <1>5 DEF vars, files, BundleMatches, InstanceRecords
<1> QED
  BY <1>1, <1>2, <1>3, <1>4, <1>5 DEF Next

-----------------------------------------------------------------------------

\* What is saved is loaded again, by what the CSV and the profiles hold.
LEMMA BundleReloads == TypeOK /\ BundleMatches => SavedBundleReloads
<1> SUFFICES ASSUME TypeOK, BundleMatches, saving # None,
                    saving = TRUE \/ Fresh(sc), sc.sites # <<>> \/ sc.source = None
             PROVE  FromToml(ToConfig(sc, saving), csv) = FromConfig(sc)
  BY DEF SavedBundleReloads
<1>0. WellFormed(sc) /\ saving \in BOOLEAN
  BY DEF TypeOK
<1>1. ASSUME NEW s, WellFormed(s)
      PROVE  /\ FromConfig(s).sites = s.sites /\ FromConfig(s).source = s.source
             /\ FromConfig(s).devices = s.devices /\ FromConfig(s).interfaces = s.interfaces
  <2> DEFINE v == Renumbered(s.rules)
  <2>1. FromConfig(s) = [s EXCEPT !.rules = v]
    BY DEF FromConfig
  <2> HIDE DEF v
  <2> QED
    BY <1>1, <2>1 DEF WellFormed
<1>2. CASE saving = TRUE
  <2>1. ToConfig(sc, saving) = sc
    BY <1>0, <1>2 DEF ToConfig, WellFormed
  <2>2. FromConfig(sc).sites # <<>> \/ FromConfig(sc).source = None
    BY <1>0, <1>1
  <2> QED
    BY <2>1, <2>2 DEF FromToml
<1>3. CASE saving = FALSE
  <2> DEFINE t == [sc EXCEPT !.sites = <<>>]
  <2>1. ToConfig(sc, saving) = t
    BY <1>3 DEF ToConfig
  <2>2. WellFormed(t)
    BY <1>0, NoEntries, Fields
  <2>3. t.devices = sc.devices /\ t.interfaces = sc.interfaces /\ t.source = sc.source /\ t.sites = <<>>
    BY <1>0 DEF WellFormed
  <2>4. CASE sc.sites = <<>>
    <3>1. t = sc
      BY <1>0, <2>4 DEF WellFormed
    <3>2. FromConfig(t).source = None
      BY <1>1, <2>2, <2>3, <2>4
    <3> QED
      BY <2>1, <3>1, <3>2 DEF FromToml
  <2>5. CASE sc.sites # <<>>
    <3> DEFINE s == FromConfig(t)
    <3>1. csv = InstanceRecords(sc) /\ sc.source = File
      BY <2>5 DEF BundleMatches
    <3>2. \A x \in DOMAIN sc.sites : /\ Instantiable(sc, sc.sites[x].profile)
                                     /\ sc.sites[x] = Instance(sc, sc.sites[x].profile)
      BY <1>3 DEF Fresh
    <3>3. DOMAIN sc.devices \subseteq DeviceProfiles /\ DOMAIN sc.sites \subseteq Sites
          /\ sc.sites \in [DOMAIN sc.sites -> SiteNodes]
      BY <1>0, Partials DEF WellFormed
    <3>4. csv \in [DOMAIN sc.sites -> DeviceProfiles]
      BY <3>1, <3>2, <3>3 DEF InstanceRecords, Instantiable
    <3>5. csv # None /\ File # None
      BY <3>3, <3>4, ScenarioAssumption
    <3>6. s.devices = sc.devices /\ s.interfaces = sc.interfaces /\ s.source = File /\ s.sites = <<>>
      BY <1>1, <2>2, <2>3, <3>1
    <3>7. DOMAIN csv = DOMAIN sc.sites /\ \A x \in DOMAIN sc.sites : csv[x] = sc.sites[x].profile
      BY <3>1 DEF InstanceRecords
    <3> HIDE DEF s
    <3>8. \A x \in DOMAIN csv : /\ Instantiable(s, csv[x])
                                /\ Instance(s, csv[x]) = sc.sites[x]
      BY <3>2, <3>6, <3>7 DEF Instantiable, Instance
    <3>9. [x \in DOMAIN csv |-> Instance(s, csv[x])] = sc.sites
      BY <3>3, <3>7, <3>8
    <3>10. FromToml(t, csv) = [s EXCEPT !.sites = sc.sites]
      BY <3>5, <3>6, <3>8, <3>9 DEF FromToml, LoadInstances, s
    <3>11. [s EXCEPT !.sites = sc.sites] = FromConfig(sc)
      BY <1>0 DEF s, FromConfig, WellFormed
    <3> QED
      BY <2>1, <3>10, <3>11
  <2> QED
    BY <2>4, <2>5
<1> QED
  BY <1>0, <1>2, <1>3

-----------------------------------------------------------------------------

\* The inductive invariant.
LEMMA Invariance == Spec => []IInv
<1>1. IInv /\ [Next]_vars => IInv'
  BY NextTypes, NextEdges, NextBundle DEF IInv
<1> QED
  BY InitInv, <1>1, PTL DEF Spec

\* Every scenario, in memory and in the files, has the types of its tables.
THEOREM TypeCorrect == Spec => []TypeOK
<1>1. IInv => TypeOK
  BY DEF IInv
<1> QED
  BY Invariance, <1>1, PTL

\* The manual edges and their attributes agree, whatever was added, removed,
\* saved and loaded.
THEOREM EdgesStayMatched == Spec => []EdgesMatchAttributes
<1>1. IInv => EdgesMatchAttributes
  BY DEF IInv
<1> QED
  BY Invariance, <1>1, PTL

\* A saved bundle is loaded as the scenario that was saved.
THEOREM BundlesReload == Spec => []SavedBundleReloads
<1>1. IInv => SavedBundleReloads
  BY BundleReloads DEF IInv
<1> QED
  BY Invariance, <1>1, PTL

-----------------------------------------------------------------------------

\* An import without update leaves the sites there are.
LEMMA Imports ==
  ASSUME TypeOK, NEW batch \in Batches, NEW f, AddNodeInstances(batch, f, FALSE)
  PROVE  /\ \A x \in DOMAIN sc.sites : x \in DOMAIN sc'.sites /\ sc'.sites[x] = sc.sites[x]
         /\ \A x \in DOMAIN sc'.sites : \/ x \in DOMAIN sc.sites
                                        \/ Instantiable(sc, f[x]) /\ sc'.sites[x] = Instance(sc, f[x])
         /\ (\E x \in Range(batch) : ~Instantiable(sc, f[x])) => sc'.sites = sc.sites
         /\ sc'.antennas = sc.antennas /\ sc'.interfaces = sc.interfaces
         /\ sc'.devices = sc.devices /\ sc'.edges = sc.edges
<1> DEFINE good == Distinct(batch) /\ \A x \in Range(batch) : Instantiable(sc, f[x])
           node == NodesOf(sc, batch, f)
           sites == WithNodes(sc.sites, batch, node, FALSE)
<1>0. WellFormed(sc) /\ batch \in Seq(Sites)
  BY ScenarioAssumption DEF TypeOK
<1>1. CASE good
  <2> DEFINE new == {batch[i] : i \in {j \in DOMAIN batch :
                       FALSE \/ \A k \in 1..j : batch[k] \notin DOMAIN sc.sites}}
  <2>1. sites = [x \in DOMAIN sc.sites \cup new |-> IF x \in new THEN node[x] ELSE sc.sites[x]]
    BY DEF WithNodes
  <2>2. new \subseteq Range(batch) /\ new \cap DOMAIN sc.sites = {}
    BY <1>0 DEF Range
  <2> HIDE DEF new, node
  <2>3. sc' = [sc EXCEPT !.sites = sites]
    BY <1>1 DEF AddNodeInstances, Edit, node
  <2> HIDE DEF sites
  <2>4. /\ sc'.sites = sites /\ sc'.antennas = sc.antennas /\ sc'.interfaces = sc.interfaces
        /\ sc'.devices = sc.devices /\ sc'.edges = sc.edges
    BY <1>0, <2>3 DEF WellFormed
  <2>5. \A x \in Range(batch) : Instantiable(sc, f[x]) /\ node[x] = Instance(sc, f[x])
    BY <1>1 DEF node, NodesOf
  <2>6. /\ DOMAIN sites = DOMAIN sc.sites \cup new
        /\ \A x \in DOMAIN sc.sites : sites[x] = sc.sites[x]
        /\ \A x \in new : sites[x] = node[x]
    BY <2>1, <2>2
  <2> QED
    BY <2>2, <2>4, <2>5, <2>6
<1>2. CASE ~good
  <2>1. sc' = sc
    BY <1>2 DEF AddNodeInstances, Edit
  <2> QED
    BY <2>1
<1> QED
  BY <1>1, <1>2

\* Of a table without errors the same import once more adds nothing, and an import of
\* the rows that are missing completes it.
LEMMA Resumed ==
  ASSUME TypeOK, NEW batch \in Batches, NEW f, AddNodeInstances(batch, f, FALSE),
         Distinct(batch), \A x \in Range(batch) : Instantiable(sc, f[x]),
         NEW node, node = NodesOf(sc, batch, f)
  PROVE  /\ WithNodes(sc'.sites, batch, node, FALSE) = sc'.sites
         /\ \A rest \in Batches :
              Distinct(rest) /\ Range(rest) = Range(batch) \ DOMAIN sc'.sites =>
                WithNodes(sc'.sites, rest, node, FALSE) = Completed(sc.sites, batch, node)
<1> DEFINE old == DOMAIN sc.sites
           new == {batch[i] : i \in {j \in DOMAIN batch :
                     FALSE \/ \A k \in 1..j : batch[k] \notin DOMAIN sc.sites}}
<1>0. WellFormed(sc) /\ batch \in Seq(Sites)
  BY ScenarioAssumption DEF TypeOK
<1>1. sc'.sites = WithNodes(sc.sites, batch, node, FALSE)
  <2> DEFINE sites == WithNodes(sc.sites, batch, node, FALSE)
  <2>a. sc' = [sc EXCEPT !.sites =
                 WithNodes(sc.sites, batch, NodesOf(sc, batch, f), FALSE)]
    BY DEF AddNodeInstances, Edit
  <2>1. sc' = [sc EXCEPT !.sites = sites]
    BY <2>a
  <2> HIDE DEF sites
  <2>2. sc'.sites = sites
    BY <1>0, <2>1 DEF WellFormed
  <2> QED
    BY <2>2 DEF sites
<1>2. sc'.sites = [x \in old \cup new |-> IF x \in new THEN node[x] ELSE sc.sites[x]]
  BY <1>1 DEF WithNodes
<1>3. new \subseteq Range(batch) /\ new \cap old = {}
  BY <1>0 DEF Range
<1>4. batch # <<>> => batch[1] \in old \cup new
  <2>1. batch # <<>> => 1 \in DOMAIN batch
    BY <1>0
  <2>2. \A k \in 1..1 : k = 1
    OBVIOUS
  <2> QED
    BY <2>1, <2>2
<1> HIDE DEF new
<1>5. DOMAIN sc'.sites = old \cup new
  BY <1>2
<1>6. WithNodes(sc'.sites, batch, node, FALSE) = sc'.sites
  <2> DEFINE more == {batch[i] : i \in {j \in DOMAIN batch :
                        FALSE \/ \A k \in 1..j : batch[k] \notin DOMAIN sc'.sites}}
  <2>1. \A j \in DOMAIN batch : 1 \in 1..j /\ batch[1] \in DOMAIN sc'.sites
    BY <1>0, <1>4, <1>5
  <2>2. more = {}
    BY <2>1
  <2>3. WithNodes(sc'.sites, batch, node, FALSE) =
          [x \in DOMAIN sc'.sites \cup more |-> IF x \in more THEN node[x] ELSE sc'.sites[x]]
    BY DEF WithNodes
  <2> HIDE DEF more
  <2>4. WithNodes(sc'.sites, batch, node, FALSE) = [x \in DOMAIN sc'.sites |-> sc'.sites[x]]
    BY <2>2, <2>3
  <2> QED
    BY <1>2, <2>4
<1>7. ASSUME NEW rest \in Batches, Range(rest) = Range(batch) \ DOMAIN sc'.sites
      PROVE  WithNodes(sc'.sites, rest, node, FALSE) =
               [x \in old \cup Range(batch) |-> IF x \in old THEN sc.sites[x] ELSE node[x]]
  <2> DEFINE more == {rest[i] : i \in {j \in DOMAIN rest :
                        FALSE \/ \A k \in 1..j : rest[k] \notin DOMAIN sc'.sites}}
  <2>0. rest \in Seq(Sites)
    BY ScenarioAssumption
  <2>1. \A k \in DOMAIN rest : rest[k] \notin DOMAIN sc'.sites
    BY <1>7 DEF Range
  <2>2. \A j \in DOMAIN rest : \A k \in 1..j : k \in DOMAIN rest
    BY <2>0
  <2>3. more = Range(rest)
    BY <2>1, <2>2 DEF Range
  <2>4. WithNodes(sc'.sites, rest, node, FALSE) =
          [x \in DOMAIN sc'.sites \cup more |-> IF x \in more THEN node[x] ELSE sc'.sites[x]]
    BY DEF WithNodes
  <2> HIDE DEF more
  <2>5. DOMAIN sc'.sites \cup more = old \cup Range(batch)
    BY <1>3, <1>5, <1>7, <2>3
  <2>6. \A x \in old \cup Range(batch) :
          (IF x \in more THEN node[x] ELSE sc'.sites[x]) =
          (IF x \in old THEN sc.sites[x] ELSE node[x])
    BY <1>2, <1>3, <1>5, <1>7, <2>3
  <2> QED
    BY <2>4, <2>5, <2>6
<1> QED
  BY <1>6, <1>7 DEF Completed

\* An import leaves the sites there are, adds nothing of a table with an error, and
\* of another what can be completed with the rows that are missing.
THEOREM ImportsResume == Spec => ImportsCanBeResumed
<1>1. ASSUME TypeOK, NEW batch \in Batches, NEW f, AddNodeInstances(batch, f, FALSE)
      PROVE  Resumable(batch, f)
  <2>1. \A x \in DOMAIN sc.sites : x \in DOMAIN sc'.sites /\ sc'.sites[x] = sc.sites[x]
    BY <1>1, Imports
  <2>2. ASSUME ~(Distinct(batch) /\ \A x \in Range(batch) : Instantiable(sc, f[x]))
        PROVE  sc'.sites = sc.sites
    BY <1>1, <2>2 DEF AddNodeInstances, Edit
  <2>3. PICK node : node = NodesOf(sc, batch, f)
    OBVIOUS
  <2>4. ASSUME Distinct(batch), \A x \in Range(batch) : Instantiable(sc, f[x])
        PROVE  /\ WithNodes(sc'.sites, batch, node, FALSE) = sc'.sites
               /\ \A rest \in Batches :
                    Distinct(rest) /\ Range(rest) = Range(batch) \ DOMAIN sc'.sites =>
                      WithNodes(sc'.sites, rest, node, FALSE) = Completed(sc.sites, batch, node)
    BY <1>1, <2>3, <2>4, Resumed
  <2> QED
    BY <2>1, <2>2, <2>3, <2>4 DEF Resumable
<1>2. TypeOK /\ [Next]_vars =>
        [\A batch \in Batches : \A f \in [Range(batch) -> DeviceProfiles \cup {None}] :
           AddNodeInstances(batch, f, FALSE) => Resumable(batch, f)]_vars
  BY <1>1
<1> QED
  BY TypeCorrect, <1>2, PTL DEF Spec, ImportsCanBeResumed

-----------------------------------------------------------------------------

\* Careful edits of profiles,
LEMMA ProfilesKeepValid ==
  ASSUME TypeOK, Valid(sc),
         \/ \E a \in Antennas : AddAntennaProfile(a) \/ RemoveAntennaProfile(a, FALSE)
         \/ \E p \in InterfaceProfiles :
              \/ \E a \in sc.antennas : AddInterfaceProfile(p, a)
              \/ RemoveInterfaceProfile(p, FALSE)
         \/ \E d \in DeviceProfiles :
              \/ \E l \in Layouts : Range(l) \subseteq DOMAIN sc.interfaces /\ AddDeviceProfile(d, l)
              \/ RemoveDeviceProfile(d, FALSE)
  PROVE  Valid(sc')
<1>0. WellFormed(sc)
  BY DEF TypeOK
<1>00. /\ sc.antennas \subseteq Antennas
       /\ sc.interfaces \in Partial(InterfaceProfiles, Antennas)
       /\ sc.devices \in Partial(DeviceProfiles, Layouts)
  BY <1>0 DEF WellFormed
<1>a. ASSUME NEW v, sc' = [sc EXCEPT !.antennas = v]
      PROVE  /\ sc'.antennas = v /\ sc'.interfaces = sc.interfaces /\ sc'.devices = sc.devices
             /\ sc'.sites = sc.sites /\ sc'.edges = sc.edges
  BY <1>0, <1>a DEF WellFormed
<1>i. ASSUME NEW v, sc' = [sc EXCEPT !.interfaces = v]
      PROVE  /\ sc'.antennas = sc.antennas /\ sc'.interfaces = v /\ sc'.devices = sc.devices
             /\ sc'.sites = sc.sites /\ sc'.edges = sc.edges
  BY <1>0, <1>i DEF WellFormed
<1>d. ASSUME NEW v, sc' = [sc EXCEPT !.devices = v]
      PROVE  /\ sc'.antennas = sc.antennas /\ sc'.interfaces = sc.interfaces /\ sc'.devices = v
             /\ sc'.sites = sc.sites /\ sc'.edges = sc.edges
  BY <1>0, <1>d DEF WellFormed
<1>1. ASSUME NEW a \in Antennas, AddAntennaProfile(a) PROVE Valid(sc')
  <2>1. sc' = [sc EXCEPT !.antennas = sc.antennas \cup {a}]
    BY <1>1 DEF AddAntennaProfile, Edit
  <2> QED
    BY <1>a, <2>1 DEF Valid
<1>2. ASSUME NEW a \in Antennas, RemoveAntennaProfile(a, FALSE) PROVE Valid(sc')
  <2>1. sc' = [sc EXCEPT !.antennas = sc.antennas \ {a}] /\ ~AntennaUsed(sc, a)
    BY <1>2 DEF RemoveAntennaProfile, Edit
  <2> QED
    BY <1>a, <2>1 DEF Valid, AntennaUsed
<1>3. ASSUME NEW p \in InterfaceProfiles, NEW a \in sc.antennas, AddInterfaceProfile(p, a)
      PROVE  Valid(sc')
  <2> DEFINE new == Put(sc.interfaces, p, a)
  <2>1. sc' = [sc EXCEPT !.interfaces = new]
    BY <1>3 DEF AddInterfaceProfile, Edit
  <2>2. /\ new \in Partial(InterfaceProfiles, Antennas)
        /\ DOMAIN new = DOMAIN sc.interfaces \cup {p}
        /\ Range(new) \subseteq Range(sc.interfaces) \cup {a}
    BY <1>00, Puts
  <2> HIDE DEF new
  <2> QED
    BY <1>i, <2>1, <2>2 DEF Valid
<1>4. ASSUME NEW p \in InterfaceProfiles, RemoveInterfaceProfile(p, FALSE) PROVE Valid(sc')
  <2> DEFINE new == Drop(sc.interfaces, {p})
  <2>1. sc' = [sc EXCEPT !.interfaces = new] /\ ~InterfaceProfileUsed(sc, p)
    BY <1>4 DEF RemoveInterfaceProfile, Edit
  <2>2. DOMAIN new = DOMAIN sc.interfaces \ {p} /\ Range(new) \subseteq Range(sc.interfaces)
    BY Dropped
  <2> HIDE DEF new
  <2> QED
    BY <1>i, <2>1, <2>2 DEF Valid, InterfaceProfileUsed
<1>5. ASSUME NEW d \in DeviceProfiles, NEW l \in Layouts, Range(l) \subseteq DOMAIN sc.interfaces,
             AddDeviceProfile(d, l)
      PROVE  Valid(sc')
  <2> DEFINE new == Put(sc.devices, d, l)
  <2>1. sc' = [sc EXCEPT !.devices = new]
    BY <1>5 DEF AddDeviceProfile, Edit
  <2>2. \A x \in DOMAIN new : new[x] = l \/ (x \in DOMAIN sc.devices /\ new[x] = sc.devices[x])
    BY PutValues
  <2> HIDE DEF new
  <2> QED
    BY <1>5, <1>d, <2>1, <2>2 DEF Valid
<1>6. ASSUME NEW d \in DeviceProfiles, RemoveDeviceProfile(d, FALSE) PROVE Valid(sc')
  <2> DEFINE new == Drop(sc.devices, {d})
  <2>1. sc' = [sc EXCEPT !.devices = new]
    BY <1>6 DEF RemoveDeviceProfile, Edit
  <2>2. /\ DOMAIN new = DOMAIN sc.devices \ {d}
        /\ \A x \in DOMAIN sc.devices \ {d} : new[x] = sc.devices[x]
    BY Dropped
  <2> HIDE DEF new
  <2> QED
    BY <1>d, <2>1, <2>2 DEF Valid
<1> QED
  BY <1>1, <1>2, <1>3, <1>4, <1>5, <1>6

\* imports,
LEMMA ImportsKeepValid ==
  ASSUME TypeOK, Valid(sc), NEW batch \in Batches, NEW f, AddNodeInstances(batch, f, FALSE)
  PROVE  Valid(sc')
<1>0. WellFormed(sc)
  BY DEF TypeOK
<1>1. \A x \in DOMAIN sc'.sites : Range(sc'.sites[x].radios) \subseteq sc.antennas
  <2>1. ASSUME NEW x \in DOMAIN sc'.sites PROVE Range(sc'.sites[x].radios) \subseteq sc.antennas
    <3>1. CASE x \in DOMAIN sc.sites
      BY <3>1, Imports DEF Valid
    <3>2. CASE x \notin DOMAIN sc.sites
      <4>1. Instantiable(sc, f[x]) /\ sc'.sites[x] = Instance(sc, f[x])
        BY <2>1, <3>2, Imports
      <4> QED
        BY <1>0, <4>1, Instances DEF Valid
    <3> QED
      BY <3>1, <3>2
  <2> QED
    BY <2>1
<1>2. InterfaceIds(sc.sites) \subseteq InterfaceIds(sc'.sites)
  BY Imports DEF InterfaceIds
<1> QED
  BY <1>1, <1>2, Imports DEF Valid

\* removals of a site with its edges,
LEMMA RemovalKeepsValid ==
  ASSUME TypeOK, Valid(sc), NEW x, RemoveSiteNode(x)
  PROVE  Valid(sc')
<1> DEFINE ids == {<<x, k>> : k \in DOMAIN sc.sites[x].radios}
           gone == {e \in sc.edges : e[1] \in ids \/ e[2] \in ids}
<1>0. WellFormed(sc) /\ sc.sites \in Partial(Sites, SiteNodes)
  BY DEF TypeOK, WellFormed
<1>1. sc' = [sc EXCEPT !.sites = Drop(@, {x}), !.edges = @ \ gone, !.attrs = Drop(@, gone)]
  BY DEF RemoveSiteNode, Edit
<1>2. /\ sc'.sites = Drop(sc.sites, {x}) /\ sc'.edges = sc.edges \ gone
      /\ sc'.antennas = sc.antennas /\ sc'.interfaces = sc.interfaces /\ sc'.devices = sc.devices
  <2> HIDE DEF gone
  <2> QED
    BY <1>0, <1>1, RemovedSite
<1>3. /\ DOMAIN sc'.sites = DOMAIN sc.sites \ {x}
      /\ \A y \in DOMAIN sc'.sites : sc'.sites[y] = sc.sites[y]
  <2>1. /\ DOMAIN Drop(sc.sites, {x}) = DOMAIN sc.sites \ {x}
        /\ \A y \in DOMAIN sc.sites \ {x} : Drop(sc.sites, {x})[y] = sc.sites[y]
    BY Dropped
  <2> QED
    BY <1>2, <2>1
<1>4. \A i \in InterfaceIds(sc.sites) : i \in ids \/ i \in InterfaceIds(sc'.sites)
  <2>1. ASSUME NEW y \in DOMAIN sc.sites, NEW k \in DOMAIN sc.sites[y].radios, y # x
        PROVE  <<y, k>> \in InterfaceIds(sc'.sites)
    BY <1>3, <2>1 DEF InterfaceIds
  <2> QED
    BY <2>1 DEF InterfaceIds
<1>5. ASSUME NEW e \in sc'.edges PROVE {e[1], e[2]} \subseteq InterfaceIds(sc'.sites)
  <2>1. e \in sc.edges /\ e[1] \notin ids /\ e[2] \notin ids
    BY <1>2, <1>5
  <2>2. {e[1], e[2]} \subseteq InterfaceIds(sc.sites)
    BY <2>1 DEF Valid
  <2> QED
    BY <1>4, <2>1, <2>2
<1>6. UNION {{e[1], e[2]} : e \in sc'.edges} \subseteq InterfaceIds(sc'.sites)
  BY <1>5
<1> HIDE DEF gone
<1> QED
  BY <1>2, <1>3, <1>6 DEF Valid

\* and edits of edges leave a valid scenario.
LEMMA EdgesKeepValid ==
  ASSUME TypeOK, Valid(sc), NEW p \in EdgePairs,
         \/ {p[1], p[2]} \subseteq InterfaceIds(sc.sites) /\ \E attr \in Attrs : AddCandidateEdge(p, attr)
         \/ RemoveCandidateEdge(p)
  PROVE  Valid(sc')
<1>0. WellFormed(sc)
  BY DEF TypeOK
<1>1. ASSUME NEW e, NEW v, sc' = [sc EXCEPT !.edges = e, !.attrs = v]
      PROVE  /\ sc'.edges = e /\ sc'.sites = sc.sites
             /\ sc'.antennas = sc.antennas /\ sc'.interfaces = sc.interfaces /\ sc'.devices = sc.devices
  BY <1>0, <1>1, ReplacedEdges
<1>2. ASSUME NEW attr \in Attrs, {p[1], p[2]} \subseteq InterfaceIds(sc.sites), AddCandidateEdge(p, attr)
      PROVE  Valid(sc')
  <2>1. CASE EdgeKey(sc, p) # {}
    <3>1. ASSUME NEW v, sc' = [sc EXCEPT !.attrs = v]
          PROVE  /\ sc'.edges = sc.edges /\ sc'.sites = sc.sites /\ sc'.antennas = sc.antennas
                 /\ sc'.interfaces = sc.interfaces /\ sc'.devices = sc.devices
      BY <1>0, <3>1 DEF WellFormed
    <3>2. /\ sc'.edges = sc.edges /\ sc'.sites = sc.sites /\ sc'.antennas = sc.antennas
          /\ sc'.interfaces = sc.interfaces /\ sc'.devices = sc.devices
      BY <1>2, <2>1, <3>1 DEF AddCandidateEdge, Edit
    <3> QED
      BY <3>2 DEF Valid
  <2>2. CASE EdgeKey(sc, p) = {}
    <3>1. sc' = [sc EXCEPT !.edges = sc.edges \cup {p}, !.attrs = Put(sc.attrs, p, attr)]
      BY <1>2, <2>2 DEF AddCandidateEdge, Edit
    <3>2. /\ sc'.edges = sc.edges \cup {p} /\ sc'.sites = sc.sites
          /\ sc'.antennas = sc.antennas /\ sc'.interfaces = sc.interfaces /\ sc'.devices = sc.devices
      BY <1>1, <3>1
    <3> QED
      BY <1>2, <3>2 DEF Valid
  <2> QED
    BY <2>1, <2>2
<1>3. CASE RemoveCandidateEdge(p)
  <2>1. sc' = [sc EXCEPT !.edges = sc.edges \ EdgeKey(sc, p), !.attrs = Drop(sc.attrs, EdgeKey(sc, p))]
    BY <1>3 DEF RemoveCandidateEdge, Edit
  <2>2. /\ sc'.edges \subseteq sc.edges /\ sc'.sites = sc.sites
        /\ sc'.antennas = sc.antennas /\ sc'.interfaces = sc.interfaces /\ sc'.devices = sc.devices
    BY <1>1, <2>1
  <2> QED
    BY <2>2 DEF Valid
<1> QED
  BY <1>2, <1>3

\* No careful edit leaves a reference to what is gone.
THEOREM CarefulEditsAreSafe == Spec => CarefulEditsKeepValid
<1>1. TypeOK /\ [Next]_vars => [CarefulEdit /\ Valid(sc) => Valid(sc')]_vars
  BY ProfilesKeepValid, ImportsKeepValid, RemovalKeepsValid, EdgesKeepValid DEF CarefulEdit
<1> QED
  BY TypeCorrect, <1>1, PTL DEF Spec, CarefulEditsKeepValid

==============================================================================
