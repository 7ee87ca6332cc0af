---------------------------- MODULE FootprintData ----------------------------
(***************************************************************************)
(* cisei_lib/dem/gob_footprints_utils.py: the preparation of the building  *)
(* footprints.  update_height measures the buildings tile by tile with a   *)
(* pool of processes and notes in processed_tiles.json the tiles it is     *)
(* done with, so that it can be started again; the database is then split  *)
(* into parquet files of one degree, and an index tells where each lies.   *)
(*                                                                         *)
(* A building stands at whole tenths of a degree and lies in the height    *)
(* tiles that contain its position.  The height a tile gives it is written *)
(* as the tile itself; it gives none where its raster has no valid pixel.  *)
(***************************************************************************)
EXTENDS Integers, Sequences, FiniteSets, Functions

CONSTANTS
  Buildings,   \* building -> [lat, lon, tiles, pixels]: its position, the tiles
               \* that contain it, those whose raster has valid pixels for it
  Tiles,       \* the rasters named in index-geo.json
  BatchSize,   \* batch_size
  MaxFailures, \* bound: workers that cannot read their raster
  MaxCrashes,  \* bound: times the import dies
  MaxRuns,     \* bound: starts of update_height
  None,
  Garbled      \* processed_tiles.json cut off while it was written

\* A raster that has pixels for a building contains it, and None is no raster.
BuildingsArePlaced ==
  /\ None \notin Tiles
  /\ \A b \in DOMAIN Buildings :
       /\ Buildings[b].lat \in Int /\ Buildings[b].lon \in Int
       /\ Buildings[b].pixels \subseteq Buildings[b].tiles
       /\ Buildings[b].tiles \subseteq Tiles

VARIABLES
  height,      \* building -> the tile that gave it p90_h, None while it is NULL
  progress,    \* processed_tiles.json: a set of tiles, or Garbled
  processed,   \* processed_data
  todo,        \* the rest of to_do
  batch,       \* batch_tasks: tile -> its buildings
  updates,     \* batch_updates: building -> the tiles that measured it
  stage,       \* "idle", "fetch", "pool", "commit", "note", "write", "export"
  parquets,    \* parquet file -> the heights of its buildings
  index,       \* parquet-index-geo.json: parquet file -> its bounds
  unread,      \* history: tiles a worker could not read
  crashes,
  runs

importing == <<processed, todo, batch, updates>>
files == <<parquets, index>>
vars == <<height, progress, importing, stage, files, unread, crashes, runs>>

Init ==
  /\ height = [b \in DOMAIN Buildings |-> None]
  /\ progress = {} /\ processed = {} /\ todo = <<>>
  /\ batch = <<>> /\ updates = <<>>
  /\ stage = "idle"
  /\ parquets = <<>> /\ index = <<>>
  /\ unread = {} /\ crashes = 0 /\ runs = 0

-----------------------------------------------------------------------------
\* update_height: the tiles not noted yet, in the order glob finds them; a file
\* that is not JSON counts as empty.
Start ==
  /\ stage = "idle" /\ runs < MaxRuns
  /\ runs' = runs + 1
  /\ processed' = IF progress = Garbled THEN {} ELSE progress
  /\ todo' \in Bijection(1..Cardinality(Tiles \ processed'), Tiles \ processed')
  /\ stage' = "fetch"
  /\ batch' = <<>> /\ updates' = <<>>
  /\ UNCHANGED <<height, progress, files, unread, crashes>>

\* Variant: the tiles of a batch are noted before their heights are committed.
FetchNoting ==
  /\ stage = "fetch" /\ todo # <<>>
  /\ LET size == IF Len(todo) < BatchSize THEN Len(todo) ELSE BatchSize
         mine == Range(SubSeq(todo, 1, size))
         of(t) == {b \in DOMAIN Buildings : t \in Buildings[b].tiles /\ height[b] = None}
     IN /\ batch' = [t \in mine |-> of(t)]
        /\ processed' = processed \cup mine
        /\ todo' = SubSeq(todo, size + 1, Len(todo))
  /\ progress' = processed'
  /\ stage' = "pool"
  /\ UNCHANGED <<height, updates, files, unread, crashes, runs>>

\* The next batch: the buildings of each tile that have no height yet.  Tiles
\* without one are done with, in memory; a batch of such tiles only is not noted.
Fetch ==
  /\ stage = "fetch" /\ todo # <<>>
  /\ LET size == IF Len(todo) < BatchSize THEN Len(todo) ELSE BatchSize
         mine == Range(SubSeq(todo, 1, size))
         of(t) == {b \in DOMAIN Buildings : t \in Buildings[b].tiles /\ height[b] = None}
         some == {t \in mine : of(t) # {}}
     IN /\ batch' = [t \in some |-> of(t)]
        /\ processed' = processed \cup (mine \ some)
        /\ todo' = SubSeq(todo, size + 1, Len(todo))
        /\ stage' = IF some = {} THEN "fetch" ELSE "pool"
  /\ UNCHANGED <<height, progress, updates, files, unread, crashes, runs>>

\* The pool: a worker measures the buildings its raster has pixels for, or
\* returns nothing because it cannot read the raster.
Measure(failed) ==
  /\ stage = "pool"
  /\ failed \subseteq DOMAIN batch
  /\ Cardinality(unread) + Cardinality(failed) <= MaxFailures
  /\ updates' = [b \in UNION {batch[t] : t \in DOMAIN batch} |->
                   {t \in DOMAIN batch \ failed : b \in batch[t] /\ t \in Buildings[b].pixels}]
  /\ unread' = unread \cup failed
  /\ stage' = "commit"
  /\ UNCHANGED <<height, progress, processed, todo, batch, files, crashes, runs>>

\* UPDATE buildings: of two tiles that measured a building, either is taken.
Commit ==
  /\ stage = "commit"
  /\ height' \in {h \in [DOMAIN Buildings -> Tiles \cup {None}] :
                    \A b \in DOMAIN Buildings :
                      IF b \in DOMAIN updates /\ updates[b] # {}
                      THEN h[b] \in updates[b] ELSE h[b] = height[b]}
  /\ stage' = "note"
  /\ UNCHANGED <<progress, importing, files, unread, crashes, runs>>

\* The tiles of the batch are done with, and the file is opened for writing ...
Note ==
  /\ stage = "note"
  /\ processed' = processed \cup DOMAIN batch
  /\ progress' = Garbled
  /\ stage' = "write"
  /\ UNCHANGED <<height, todo, batch, updates, files, unread, crashes, runs>>

\* ... and written.
Write ==
  /\ stage = "write"
  /\ progress' = processed
  /\ stage' = "fetch"
  /\ batch' = <<>> /\ updates' = <<>>
  /\ UNCHANGED <<height, processed, todo, files, unread, crashes, runs>>

Complete ==
  /\ stage = "fetch" /\ todo = <<>>
  /\ stage' = "idle"
  /\ processed' = {}
  /\ UNCHANGED <<height, progress, todo, batch, updates, files, unread, crashes, runs>>

-----------------------------------------------------------------------------
\* Variant: the degree is cut off towards zero.
DegreeCut(tenths) == IF tenths < 0 THEN (0 - tenths) \div 10 ELSE tenths \div 10

\* CAST(ABS(FLOOR(degrees))), of either hemisphere.
Degree(tenths) == IF tenths < 0 THEN 0 - (tenths \div 10) ELSE tenths \div 10

FileOf(b) == <<Degree(Buildings[b].lat), Degree(Buildings[b].lon)>>

FileNames == {FileOf(b) : b \in DOMAIN Buildings}

\* shatter_duckdb_with_heights begins to export; files of an earlier export are
\* replaced one by one.
Shatter ==
  /\ stage = "idle"
  /\ stage' = "export"
  /\ UNCHANGED <<height, progress, importing, files, unread, crashes, runs>>

\* COPY of the buildings of one degree.
Export(f) ==
  LET inside == {b \in DOMAIN Buildings : FileOf(b) = f}
  IN /\ stage = "export"
     /\ f \in DOMAIN parquets => parquets[f] # [b \in inside |-> height[b]]
     /\ parquets' = [g \in DOMAIN parquets \cup {f} |->
                       IF g = f THEN [b \in inside |-> height[b]] ELSE parquets[g]]
     /\ UNCHANGED <<height, progress, importing, stage, index, unread, crashes, runs>>

Exported ==
  /\ stage = "export"
  /\ \A f \in FileNames :
       f \in DOMAIN parquets /\ \A b \in DOMAIN parquets[f] : parquets[f][b] = height[b]
  /\ stage' = "idle"
  /\ UNCHANGED <<height, progress, importing, files, unread, crashes, runs>>

\* "S24 means -24 to -23".
Bounds(f) == [south |-> -10 * f[1], north |-> -10 * f[1] + 10,
              west  |-> -10 * f[2], east  |-> -10 * f[2] + 10]

\* create_parquet_index: the files there are, by whatever exports, with bounds that
\* come from their names.
MakeIndex ==
  /\ stage = "idle"
  /\ index' = [f \in DOMAIN parquets |-> Bounds(f)]
  /\ UNCHANGED <<height, progress, importing, stage, parquets, unread, crashes, runs>>

\* The process dies; what it had in memory is gone.
Crash ==
  /\ stage # "idle" /\ crashes < MaxCrashes
  /\ crashes' = crashes + 1
  /\ stage' = "idle"
  /\ processed' = {} /\ todo' = <<>> /\ batch' = <<>> /\ updates' = <<>>
  /\ UNCHANGED <<height, progress, files, unread, runs>>

Next ==
  \/ Start \/ Fetch
  \/ \E failed \in SUBSET Tiles : Measure(failed)
  \/ Commit \/ Note \/ Write \/ Complete
  \/ Shatter \/ (\E f \in FileNames : Export(f)) \/ Exported \/ MakeIndex
  \/ Crash

Spec == Init /\ [][Next]_vars

-----------------------------------------------------------------------------
\* A tile noted as processed is not read again, so its buildings have a height by
\* then, unless the raster has no pixels for them or its worker could not read it:
\* whenever the import dies and is started again (update_height, "Update Progress
\* Index for batch").
NotedTilesAreMeasured ==
  progress # Garbled =>
    \A t \in progress \ unread : \A b \in DOMAIN Buildings :
      t \in Buildings[b].pixels => height[b] # None

StandsIn(b, bounds) ==
  /\ Buildings[b].lat \in bounds.south..(bounds.north - 1)
  /\ Buildings[b].lon \in bounds.west..(bounds.east - 1)

\* The floor of its position is not above zero, as south of the equator and west of
\* Greenwich.
SouthWest(b) == Buildings[b].lat < 10 /\ Buildings[b].lon < 10

\* What duckdb_page_fault relies on when it reads the files whose bounds meet its box,
\* whatever was exported, measured again or indexed in between: a file that is indexed
\* where a building stands holds it, and the buildings of a file, those of the
\* south-western quarter of the globe, stand within its bounds.
IndexedWhereItStands ==
  \A f \in DOMAIN index, b \in DOMAIN Buildings :
    /\ StandsIn(b, index[f]) => b \in DOMAIN parquets[f]
    /\ b \in DOMAIN parquets[f] /\ SouthWest(b) => StandsIn(b, index[f])

=============================================================================
