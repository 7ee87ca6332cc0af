------------------------- MODULE MCScenarioEditing -------------------------
(***************************************************************************)
(* Two sites, one or two device profiles over two interface profiles, and  *)
(* edits that start from nothing or from a configuration in which all      *)
(* kinds of references occur.                                              *)
(***************************************************************************)
EXTENDS ScenarioEditing

CONSTANTS a1, a2, p1, d1, d2, s1, s2, e1, e2, b1, b2, m1, lte

MCLayouts == {<<p1>>, <<p1, p1>>}

MCPatterns == {<<a1, a2>>}

MCBatches == {<<s1>>, <<s1, s2>>, <<s2, s1>>, <<s2, s2>>}

I(s, k) == <<s, k>>

MCEdgePairs == {<<I(s1, 1), I(s2, 1)>>, <<I(s2, 1), I(s1, 1)>>, <<I(s1, 2), I(s2, 1)>>}

MCConfig ==
  [Empty EXCEPT
     !.antennas = {a1}, !.interfaces = [p \in {p1} |-> a1],
     !.devices = [d \in {d1} |-> <<p1, p1>>],
     !.rules = <<[id |-> 0, body |-> b1], [id |-> 1, body |-> b2]>>,
     !.sites = [s \in {s1, s2} |-> [profile |-> d1, radios |-> [k \in 1..2 |-> a1]]],
     !.edges = {<<I(s1, 2), I(s2, 1)>>},
     !.attrs = [e \in {<<I(s1, 2), I(s2, 1)>>} |-> e1]]

MCConfigs == {MCConfig}

=============================================================================
