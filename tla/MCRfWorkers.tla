---------------------------- MODULE MCRfWorkers ----------------------------
(***************************************************************************)
(* Three links.  The near one lies in one tile of the fine elevation data  *)
(* set but crosses a footprint tile that holds neither of its ends; the    *)
(* long one crosses two tiles of the fine data set; the far one is covered *)
(* by the coarse data set only, and by none of surface heights.  Three     *)
(* tiles may be open, so that each load displaces the tiles of another.    *)
(***************************************************************************)
EXTENDS RfWorkers

CONSTANTS near, long, far

MCLinks == {near, long, far}

MCDatasets ==
  [k \in {"DTM", "DSM", "COVER"} |->
     CASE k = "DTM" -> <<"fine", "coarse">> [] k = "DSM" -> <<"surface">> [] k = "COVER" -> <<"cover">>]

MCCovers ==
  [ds \in {"fine", "coarse", "surface", "cover"} |->
     CASE ds = "fine"   -> {near, long}
       [] ds = "coarse" -> {near, long, far}
       [] ds = "surface" -> {near, long}
       [] OTHER         -> {near, long, far}]

MCTilesOf ==
  [ds \in {"fine", "coarse", "surface", "cover"} |-> [l \in MCLinks |->
     CASE ds = "fine"    -> (CASE l = near -> <<"f1">> [] l = long -> <<"f1", "f2">> [] l = far -> <<"f2">>)
       [] ds = "surface" -> (CASE l = near -> <<"s1">> [] l = long -> <<"s1">> [] l = far -> <<"s2">>)
       [] ds = "coarse"  -> <<"g1">>
       [] OTHER          -> <<"c1">>]]

MCEndParquets ==
  [l \in MCLinks |-> CASE l = near -> <<"b1">> [] l = long -> <<"b2", "b3">> [] l = far -> <<>>]

MCCorridorParquets ==
  [l \in MCLinks |-> CASE l = near -> {"b1", "b3"} [] l = long -> {"b3"} [] l = far -> {}]

MCLinkOf == [r \in 1..4 |-> CASE r = 1 -> near [] r = 2 -> long [] r = 3 -> far [] r = 4 -> near]

=============================================================================
