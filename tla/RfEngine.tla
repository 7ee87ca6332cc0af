------------------------------ MODULE RfEngine ------------------------------
(***************************************************************************)
(* The radio engine of one worker: core/rf/rf_engine.py on                 *)
(* core/profiles/geo_info.py and geo_info_vector.py, with the tile cache,  *)
(* the choice of data sets, the paging of building footprints and the      *)
(* dictionaries of the link that is loaded.                                *)
(*                                                                         *)
(* An engine is a record.  Heights, distances and physics are left out:    *)
(* what a computation is made from is kept instead, for each kind of       *)
(* raster the link it was read along, the data set whose tiles were read   *)
(* and the one whose band was read, and the footprint tiles that buildings *)
(* were found in.  The clutter dictionary is made from DTM and DSM and is  *)
(* there when they are.                                                    *)
(***************************************************************************)
EXTENDS Naturals, SequencesExt

CONSTANTS
  Links,
  Datasets,         \* kind of raster -> its enabled data sets, by priority
  Covers,           \* data set -> the links it covers both ends of
  TilesOf,          \* data set -> link -> its tiles in the corridor, sorted
  EndParquets,      \* link -> the footprint tiles of its ends, in order
  CorridorParquets, \* link -> the footprint tiles with buildings in its way
  MaxOpen,          \* TileCache.max_open
  Error,            \* the answer of an evaluation that raised
  None

\* The kinds of raster, in the order initialize_2D_dictionaries reads them.
Kinds == <<"DTM", "DSM", "COVER">>

ASSUME EngineAssumption ==
  /\ MaxOpen \in Nat \ {0}
  /\ None \notin Links /\ None \notin DOMAIN Covers
  /\ \A k \in Range(Kinds) : Datasets[k] \in Seq(DOMAIN Covers)
  /\ \A ds \in DOMAIN Covers : Covers[ds] \subseteq Links
  /\ \A ds \in DOMAIN Covers : \A l \in Links :
       /\ TilesOf[ds][l] \in Seq(Range(TilesOf[ds][l]))
       /\ l \in Covers[ds] => TilesOf[ds][l] # <<>>
  /\ \A l \in Links : EndParquets[l] \in Seq(Range(EndParquets[l]))

NewEngine ==
  [link      |-> None,                                  \* RFEngine.link
   selected  |-> [k \in Range(Kinds) |-> None],         \* dataset_keys, index_geojson
   band      |-> None,                                  \* band_index
   open      |-> <<>>,                                  \* cache_dem, oldest first
   terrain   |-> [k \in Range(Kinds) |-> None],         \* dtm_dict, dsm_dict, lulc_dict
   paged     |-> {},                                    \* loaded_tiles
   buildings |-> None]                                  \* building_df

-----------------------------------------------------------------------------
\* Variant: a hit does not make the tile the most recent one.
TouchInPlace(open, t) ==
  IF t \in Range(open) THEN open
  ELSE Append(IF Len(open) >= MaxOpen THEN Tail(open) ELSE open, t)

\* TileCache.get: the tile is open and the most recent; the one it displaces is
\* closed.
Touch(open, t) ==
  IF t \in Range(open) THEN Append(RemoveAt(open, CHOOSE i \in DOMAIN open : open[i] = t), t)
  ELSE Append(IF Len(open) >= MaxOpen THEN Tail(open) ELSE open, t)

\* The tiles of a list, one after the other.
TouchAll(open, tiles) ==
  LET after[n \in 0..Len(tiles)] == IF n = 0 THEN open ELSE Touch(after[n - 1], tiles[n])
  IN after[Len(tiles)]

\* select_dataset for the two ends of a link: the band is set for every data
\* set that is tried, the index only for the one that covers the link.
SelectDataset(e, kind, l) ==
  LET list  == Datasets[kind]
      fits  == {i \in DOMAIN list : l \in Covers[list[i]]}
      first == CHOOSE i \in fits : \A j \in fits : i <= j
  IN CASE list = <<>> -> e
       [] list # <<>> /\ fits = {} -> [e EXCEPT !.band = Last(list)]
       [] OTHER -> [e EXCEPT !.band = list[first], !.selected[kind] = list[first]]

\* The tiles before the one that fails; all of them for place 0.
Before(tiles, fail) == IF fail \in DOMAIN tiles THEN SubSeq(tiles, 1, fail - 1) ELSE tiles

Failed(e) == [engine |-> e, ok |-> FALSE]

Done(e) == [engine |-> e, ok |-> TRUE]

\* The tiles of the data set selected, in the corridor of the link.
TilesFor(e, kind, l) ==
  IF e.selected[kind] = None THEN <<>> ELSE TilesOf[e.selected[kind]][l]

\* create_2D_dictionary and get_merged_raster; fail is the place of a tile that
\* cannot be downloaded.  One tile is read directly, several are merged, which
\* needs all of them open.
ReadSelected(e, kind, l, fail) ==
  LET tiles == TilesFor(e, kind, l)
      open  == TouchAll(e.open, Before(tiles, fail))
  IN IF tiles = <<>> \/ fail \in DOMAIN tiles \/ ~(Range(tiles) \subseteq Range(open))
     THEN Failed([e EXCEPT !.open = open])
     ELSE Done([e EXCEPT !.open = open,
                         !.terrain[kind] = [link |-> l, index |-> e.selected[kind], band |-> e.band]])

ReadRaster(e, kind, l, fail) == ReadSelected(SelectDataset(e, kind, l), kind, l, fail)

\* create_link_dataframe: the footprint tiles of the two ends are paged in,
\* then the buildings in the way are looked for in all that is paged in.
ReadBuildings(e, l, fail) ==
  LET ends  == EndParquets[l]
      paged == e.paged \cup Range(Before(ends, fail))
      found == paged \cap CorridorParquets[l]
  IN CASE ends = <<>> -> Done([e EXCEPT !.buildings = None])
       [] fail \in DOMAIN ends -> Failed([e EXCEPT !.paged = paged])
       [] OTHER -> Done([e EXCEPT !.paged = paged,
                                  !.buildings = IF found = {} THEN None
                                                ELSE [link |-> l, tiles |-> found]])

\* Where a load may fail: nowhere, or at the n-th tile of a stage.
NoFailure == [stage |-> None, place |-> 0]

FailuresOf(l) ==
  {NoFailure}
    \cup UNION {[stage : {k}, place : UNION {DOMAIN TilesOf[ds][l] : ds \in Range(Datasets[k])}] :
                  k \in Range(Kinds)}
    \cup [stage : {"BLDG"}, place : DOMAIN EndParquets[l]]

PlaceIn(stage, fail) == IF stage = fail.stage THEN fail.place ELSE NoFailure.place

\* initialize_2D_dictionaries: the dictionaries are reset, then one kind of
\* raster is read after the other.
ThenRaster(load, kind, l, fail) ==
  IF load.ok THEN ReadRaster(load.engine, kind, l, PlaceIn(kind, fail)) ELSE load

ReadRasters(e, l, fail) ==
  LET start == Done([e EXCEPT !.terrain = NewEngine.terrain])
  IN ThenRaster(ThenRaster(ThenRaster(start, Kinds[1], l, fail), Kinds[2], l, fail),
                Kinds[3], l, fail)

\* RFEngine.load_profile: the link is that of the dictionaries only when all of
\* them could be read.
Linked(load, l) == IF load.ok THEN Done([load.engine EXCEPT !.link = l]) ELSE load

LoadProfile(e, l, fail) ==
  LET rasters == ReadRasters(e, l, fail)
  IN Linked(IF rasters.ok THEN ReadBuildings(rasters.engine, l, PlaceIn("BLDG", fail))
            ELSE rasters, l)

\* RFEngine.evaluate_link: a link that is loaded already is not loaded again.
Evaluated(load) ==
  [engine |-> load.engine,
   loaded |-> load.ok,
   answer |-> IF load.ok /\ None \notin Range(load.engine.terrain)
              THEN [terrain |-> load.engine.terrain, buildings |-> load.engine.buildings]
              ELSE Error]

Evaluate(e, l, fail) ==
  Evaluated(IF e.link = l THEN Done(e) ELSE LoadProfile(e, l, fail))

\* The answer of an engine that has just been made.
FreshAnswer(l) == Evaluate(NewEngine, l, NoFailure).answer

\* A data set of every kind covers the link.
Covered(l) ==
  \A k \in Range(Kinds) : \E i \in DOMAIN Datasets[k] : l \in Covers[Datasets[k][i]]

\* The buildings in its way lie in the footprint tiles of its ends.
EndsSuffice(l) == CorridorParquets[l] \subseteq Range(EndParquets[l])

=============================================================================
