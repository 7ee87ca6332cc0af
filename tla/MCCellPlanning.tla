---------------------------- MODULE MCCellPlanning ----------------------------
(***************************************************************************)
(* A cell of two opposite sectors, one of them idle until the cell is      *)
(* turned, and a second site with an omnidirectional cell; three clients,  *)
(* one on the edge of a beam, one of them a router with a second radio     *)
(* for which there is no rule.  Units of 45 degrees.                       *)
(***************************************************************************)
EXTENDS CellPlanning

CONSTANTS x, y, z, c, cr, d, e, A, B, C

MCInterfaces == {x, y, z, c, cr, d, e}

Radio(index, site, tech, connected, relay, azimuth) ==
  [index |-> index, site |-> site, device |-> site, tech |-> tech, freq |-> "f",
   connected |-> connected, relay |-> relay, canRoute |-> site = C,
   azimuth |-> azimuth, beam |-> 2]

MCNode ==
  [i \in MCInterfaces |->
     CASE i = x  -> Radio(1, A, "lte", TRUE, TRUE, 0)
       [] i = y  -> Radio(2, A, "lte", TRUE, TRUE, 4)
       [] i = z  -> Radio(3, B, "lte", TRUE, TRUE, None)
       [] i = c  -> Radio(4, C, "lte", FALSE, FALSE, None)
       [] i = cr -> Radio(5, C, "mesh", FALSE, TRUE, None)
       [] i = d  -> Radio(6, "D", "lte", FALSE, FALSE, None)
       [] i = e  -> Radio(7, "E", "lte", FALSE, FALSE, None)]

\* From the first site to c, d and e; the second is far from all but d.
Far(i, j) ==
  CASE {i, j} \subseteq {x, y}                       -> 0
    [] {i, j} \cap {x, y} # {} /\ {i, j} \cap {c, e} # {} -> 1
    [] {i, j} = {z, d}                               -> 1
    [] OTHER                                         -> 2

MCDistance == [i \in MCInterfaces |-> [j \in MCInterfaces |-> Far(i, j)]]

MCBearing ==
  [i \in MCInterfaces |-> [j \in MCInterfaces |->
     CASE j = c -> 1 [] j = d -> 2 [] j = e -> 6 [] OTHER -> 0]]

MCRules ==
  << [kind |-> "rf", tech |-> "lte", source |-> "any", destination |-> "any",
      degree |-> 1, limit |-> None],
     [kind |-> "internal", routersOnly |-> TRUE] >>

MCParams ==
  { [aware |-> TRUE, limit |-> 1, degree |-> None],
    [aware |-> FALSE, limit |-> None, degree |-> 1],
    [aware |-> TRUE, limit |-> None, degree |-> 0] }

\* Against the direction of the primary links.
MCManualEdges == {<<c, x>>}

MCAssignments == {{<<x, c>>, <<z, d>>}}

\* A link of the primary graph, and one that only the rule for internal links
\* explains, named against its direction.
MCRequests == {{<<cr, c>>, <<z, d>>}}

\* The default weights, and some by which balance outweighs coverage.
MCWeights == {[uncovered |-> 10, imbalance |-> 1], [uncovered |-> 1, imbalance |-> 2]}

MCFilters == {{A, B}, {B}}

MCTurns == {<<A, 0>>, <<A, 2>>}

MCRemovals == {{y}}

=============================================================================
