----------------------------- MODULE LinkProfile -----------------------------
(***************************************************************************)
(* The profile of one link, as core/profiles/geo_info.py reads it from the *)
(* rasters with dem/dem_utils.py: the pixels of the corridor are turned    *)
(* into the frame of the link and gathered in slices across it; ribbons    *)
(* beside the line of sight are sampled from the slices, their ground,     *)
(* trees and land cover; what stands in the Fresnel zone is measured in    *)
(* metres along the link, and the worst peaks of the ground are picked.    *)
(*                                                                         *)
(* Distances along a link are whole metres.  Heights and offsets across it *)
(* are millimetres, radii centimetres and Fresnel bands tenths, so that a  *)
(* band times a radius is an offset.                                       *)
(***************************************************************************)
EXTENDS Integers, Sequences, FiniteSetsExt

CONSTANTS
  Views,      \* [tx, way, length, dtm, dsm, cover, tx_ha, rx_ha, tree]
  Radius,     \* last distance -> distance -> radius of the first Fresnel zone
  None

VARIABLES
  view,       \* the link and the rasters of its corridor
  stage,      \* "read", "ribbons", "features", "done", "raised"
  slices,     \* kind -> distance -> points, numbered as read (dtm_dict, dsm_dict, lulc_dict)
  ribbons,    \* the ribbons measured so far, in the order of the bands
  features    \* extract_link_features

vars == <<view, stage, slices, ribbons, features>>

IsRaster(r) ==
  /\ r.bin \in Nat \ {0} /\ {r.reach, r.west, r.north} \subseteq Int
  /\ Len(r.rows) \in Nat \ {0} /\ DOMAIN r.rows = 1..Len(r.rows)
  /\ Len(r.rows[1]) \in Nat /\ \A i \in DOMAIN r.rows : DOMAIN r.rows[i] = 1..Len(r.rows[1])

\* Rasters have whole rows, heights and positions are numbers, and the Fresnel zone of
\* a link has a width between its ends.
ViewsAreRasters ==
  /\ \A v \in Views :
       /\ {v.tx.x, v.tx.y, v.way.x, v.way.y, v.tx_ha, v.rx_ha} \subseteq Int
       /\ v.way.unit \in Nat \ {0} /\ v.length \in Nat
       /\ IsRaster(v.dtm) /\ IsRaster(v.dsm) /\ IsRaster(v.cover)
       /\ \A r \in {v.dtm, v.dsm} : \A i \in DOMAIN r.rows : \A j \in DOMAIN r.rows[i] :
            r.rows[i][j] = None \/ r.rows[i][j] \in Int
  /\ \A last \in UNION {1..v.length : v \in Views} : \A d \in 1..(last - 1) :
       Radius[last][d] \in Nat \ {0}

\* v_bands, search_radius_m, min_segment_m, terminal_distance and k.
Bands == <<-10, -6, 0, 6, 10>>
SearchRadius == 30000
MinSegment == 20
TerminalDistance == 30
MaxPeaks == 3

-----------------------------------------------------------------------------
\* extract_and_profile.  A raster holds rows of square pixels, the northern and
\* within a row the western one first; a link has the direction way / way.unit.
Pixels(r) ==
  LET width == Len(r.rows[1])
      row(i) == (i - 1) \div width
      col(i) == (i - 1) % width
  IN [i \in 1..(Len(r.rows) * width) |->
       [x |-> r.west + r.bin * col(i) + r.bin \div 2,
        y |-> r.north - r.bin * row(i) - r.bin \div 2,
        v |-> r.rows[row(i) + 1][col(i) + 1]]]

Along(p) == ((p.x - view.tx.x) * view.way.x + (p.y - view.tx.y) * view.way.y) \div view.way.unit

Across(p) == ((p.y - view.tx.y) * view.way.x - (p.x - view.tx.x) * view.way.y) \div view.way.unit

Gap(a, b) == IF a >= b THEN a - b ELSE b - a

\* Masked pixels and those beyond the ends or the reach of the corridor are left out.
InCorridor(r, p) ==
  p.v # None /\ Along(p) \in 0..view.length /\ Gap(Across(p), 0) <= r.reach

\* The multiple of the bin next to a distance; halfway the even one.
Key(r, p) ==
  LET low == Along(p) \div r.bin
      up  == 2 * (Along(p) % r.bin)
  IN r.bin * (IF up > r.bin \/ (up = r.bin /\ low % 2 = 1) THEN low + 1 ELSE low)

\* The points of a slice, each under the number of its pixel.
Points(r, d) ==
  LET pixels == Pixels(r)
  IN [i \in {j \in DOMAIN pixels : InCorridor(r, pixels[j]) /\ Key(r, pixels[j]) = d} |->
        [dh |-> 1000 * Across(pixels[i]), v |-> pixels[i].v]]

Slices(r) ==
  [d \in {Key(r, p) : p \in {q \in Range(Pixels(r)) : InCorridor(r, q)}} |-> Points(r, d)]

-----------------------------------------------------------------------------
\* The slices before and after a distance; the same one beyond the outermost.
SliceBefore(s, d) ==
  IF d <= Min(DOMAIN s) THEN Min(DOMAIN s) ELSE Max({k \in DOMAIN s : k < d})

SliceAfter(s, d) ==
  IF d > Max(DOMAIN s) THEN Max(DOMAIN s) ELSE Min({k \in DOMAIN s : k >= d})

NearestSlice(s, d) ==
  IF d - SliceBefore(s, d) < SliceAfter(s, d) - d THEN SliceBefore(s, d) ELSE SliceAfter(s, d)

\* The first of the points next to an offset.
NearestPoint(points, dh) ==
  points[CHOOSE i \in DOMAIN points : \A j \in DOMAIN points :
           \/ Gap(points[i].dh, dh) < Gap(points[j].dh, dh)
           \/ Gap(points[i].dh, dh) = Gap(points[j].dh, dh) /\ i <= j]

\* Variant: the height of a slice is that of the point nearest to the ribbon.
SliceNearest(points, dh) == NearestPoint(points, dh).v

\* get_slice_max: the highest point beside the ribbon.
SliceMax(points, dh) ==
  LET beside == {i \in DOMAIN points : Gap(points[i].dh, dh) <= SearchRadius}
  IN IF beside = {} THEN NearestPoint(points, dh).v ELSE Max({points[i].v : i \in beside})

\* sample_dict_linear_max: the height between two slices is interpolated.
Interpolated(d, d1, d2, v1, v2) ==
  IF d1 = d2 THEN v1 ELSE v1 + ((v2 - v1) * (d - d1)) \div (d2 - d1)

LinearMax(s, d, dh) ==
  Interpolated(d, SliceBefore(s, d), SliceAfter(s, d),
               SliceMax(s[SliceBefore(s, d)], dh), SliceMax(s[SliceAfter(s, d)], dh))

Sorted(set) ==
  [i \in 1..Cardinality(set) |-> CHOOSE s \in set : Cardinality({t \in set : t < s}) = i - 1]

\* sample_lulc_ids: bisect_left finds where an offset belongs among points that
\* it takes to be sorted, and the nearer of the two neighbours there is chosen.
Halved(points, dh, range) ==
  LET mid == (range[1] + range[2]) \div 2
  IN IF range[1] >= range[2] THEN range
     ELSE IF points[mid + 1].dh < dh THEN <<mid + 1, range[2]>> ELSE <<range[1], mid>>

BisectLeft(points, dh) ==
  FoldFunction(LAMBDA p, range : Halved(points, dh, range), <<0, Len(points)>>, points)[1]

Beside(points, dh, i) ==
  CASE i = 0 -> points[1].v
    [] i = Len(points) -> points[Len(points)].v
    [] OTHER -> IF dh - points[i].dh < points[i + 1].dh - dh THEN points[i].v
                ELSE points[i + 1].v

CoverAt(points, dh) ==
  LET numbers == Sorted(DOMAIN points)
      row     == [i \in DOMAIN numbers |-> points[numbers[i]]]
  IN Beside(row, dh, BisectLeft(row, dh))

-----------------------------------------------------------------------------
\* The distances of a dictionary that lie on the link, in order.
Distances(s) == Sorted({d \in DOMAIN s : 0 <= d /\ d <= view.length})

\* fresnel_radii: of the last distance, not of the link; next to nothing at the ends.
RadiusAt(ds, i) == IF i \in {1, Len(ds)} THEN 1 ELSE Radius[ds[Len(ds)]][ds[i]]

\* extract_fresnel_profile, along the ribbon of a band.
Profile(ds, band) ==
  [i \in DOMAIN ds |->
    [d   |-> ds[i],
     dh  |-> band * RadiusAt(ds, i),
     dtm |-> LinearMax(slices.dtm, ds[i], band * RadiusAt(ds, i)),
     dsm |-> LinearMax(slices.dsm, ds[i], band * RadiusAt(ds, i)),
     id  |-> CoverAt(slices.cover[NearestSlice(slices.cover, ds[i])], band * RadiusAt(ds, i))]]

\* get_path_segments: runs of one class; a short one is dropped unless it is the last.
Extended(acc, sample) ==
  CASE sample.id = acc.id -> [acc EXCEPT !.to = sample.d]
    [] sample.id # acc.id /\ acc.to - acc.from < MinSegment ->
         [acc EXCEPT !.id = sample.id, !.from = sample.d, !.to = sample.d]
    [] OTHER ->
         [id |-> sample.id, from |-> sample.d, to |-> sample.d,
          closed |-> Append(acc.closed, [id |-> acc.id, from |-> acc.from, to |-> acc.to])]

Closed(acc) == Append(acc.closed, [id |-> acc.id, from |-> acc.from, to |-> acc.to])

Segments(profile) ==
  LET run[i \in DOMAIN profile] ==
        IF i = 1
        THEN [id |-> profile[1].id, from |-> profile[1].d, to |-> profile[1].d, closed |-> <<>>]
        ELSE Extended(run[i - 1], profile[i])
  IN Closed(run[Len(profile)])

\* calculate_ribbon_deepness: the metres along which the ground, with trees or
\* without, reaches the band above the line of sight between the two antennas.
Height(sample, trees) ==
  sample.dtm + (IF trees /\ sample.id = view.tree THEN Max({0, sample.dsm - sample.dtm}) ELSE 0)

Hit(profile, i, band, trees) ==
  LET span == profile[Len(profile)].d - profile[1].d
      low  == profile[1].dtm + view.tx_ha
      rise == profile[Len(profile)].dtm + view.rx_ha - low
      radius == RadiusAt([j \in DOMAIN profile |-> profile[j].d], i)
  IN Height(profile[i], trees) * span
       >= low * span + (profile[i].d - profile[1].d) * rise + band * radius * span

Deepness(profile, band, trees) ==
  Cardinality(UNION {profile[i].d..(profile[i + 1].d - 1) :
                       i \in {j \in 1..(Len(profile) - 1) : Hit(profile, j, band, trees)}})

\* One turn of fresnel_matrix_invasion.
Measured(profile) ==
  [profile  |-> profile,
   segments |-> Segments(profile),
   terrain  |-> [b \in Range(Bands) |-> Deepness(profile, b, FALSE)],
   clutter  |-> [b \in Range(Bands) |-> Deepness(profile, b, TRUE) - Deepness(profile, b, FALSE)]]

-----------------------------------------------------------------------------
\* extract_link_features: the ground straight below the line of sight, at the
\* distances of its own raster; differences of height are times the length.
Ground(ds) ==
  LET h(d) == LinearMax(slices.dtm, d, 0)
      low  == h(0) + view.tx_ha
      rise == h(view.length) + view.rx_ha - low
  IN [i \in DOMAIN ds |->
       [d |-> ds[i], radius |-> RadiusAt(ds, i),
        over |-> (h(ds[i]) - low) * view.length - ds[i] * rise]]

\* _terrain_degaut_peaks: the samples in the first Fresnel zone and off the ends,
\* their severity [num, den], and the worst of each lobe, the worst lobes first.
Severity(g) == [num |-> g.over + 10 * g.radius * view.length, den |-> g.radius, d |-> g.d]

Worse(s, t) == s.num * t.den > t.num * s.den

Obstructs(g) ==
  /\ Severity(g).num > 0
  /\ TerminalDistance <= g.d /\ g.d <= view.length - TerminalDistance

Lobes(ground) ==
  {run \in (DOMAIN ground) \X (DOMAIN ground) :
     /\ run[1] <= run[2]
     /\ \A n \in run[1]..run[2] : Obstructs(ground[n])
     /\ run[1] = 1 \/ ~Obstructs(ground[run[1] - 1])
     /\ run[2] = Len(ground) \/ ~Obstructs(ground[run[2] + 1])}

PeakOf(ground, lobe) ==
  Severity(ground[CHOOSE i \in lobe[1]..lobe[2] : \A j \in lobe[1]..lobe[2] :
                    /\ ~Worse(Severity(ground[j]), Severity(ground[i]))
                    /\ j < i => Worse(Severity(ground[i]), Severity(ground[j]))])

Before(s, t) == Worse(s, t) \/ (~Worse(t, s) /\ s.d < t.d)

WorstFirst(peaks) ==
  [i \in 1..Cardinality(peaks) |->
     CHOOSE s \in peaks : Cardinality({t \in peaks : Before(t, s)}) = i - 1]

FirstOf(s, n) == SubSeq(s, 1, Min({n, Len(s)}))

Peaks(ground) == FirstOf(WorstFirst({PeakOf(ground, lobe) : lobe \in Lobes(ground)}), MaxPeaks)

\* _max_terminal_angle: the steepest obstacle over the line of sight as seen from
\* the nearer end of the profile; None when nothing is.
Steepest(ground) ==
  LET seen == {[num |-> g.over, den |-> Min({g.d, ground[Len(ground)].d - g.d})] : g \in Range(ground)}
      over == {s \in seen : s.num > 0 /\ s.den > 0}
  IN IF over = {} THEN None ELSE CHOOSE s \in over : \A t \in over : ~Worse(t, s)

\* _near_terminal_clearance, times the length; None on a short link.
Clearance(ground) ==
  LET near == {i \in DOMAIN ground : ground[i].d >= TerminalDistance}
      far  == {i \in DOMAIN ground : ground[i].d <= view.length - TerminalDistance}
  IN IF view.length <= 2 * TerminalDistance THEN [tx |-> None, rx |-> None]
     ELSE [tx |-> IF near = {} THEN None ELSE -ground[Min(near)].over,
           rx |-> IF far = {} THEN None ELSE -ground[Max(far)].over]

FeaturesOf(ground) ==
  [ground |-> ground, peaks |-> Peaks(ground), angle |-> Steepest(ground),
   clearance |-> Clearance(ground)]

-----------------------------------------------------------------------------
Init ==
  /\ view \in Views
  /\ stage = "read"
  /\ slices = None /\ ribbons = <<>> /\ features = None

\* initialize_2D_dictionaries; the clutter, which nothing reads, cannot be made
\* from a surface without a ground.
Read ==
  /\ stage = "read"
  /\ slices' = [dtm |-> Slices(view.dtm), dsm |-> Slices(view.dsm), cover |-> Slices(view.cover)]
  /\ stage' = IF slices'.dtm = <<>> /\ slices'.dsm # <<>> THEN "raised" ELSE "ribbons"
  /\ UNCHANGED <<view, ribbons, features>>

\* The next ribbon of fresnel_matrix_invasion; without a cover, a ground or a
\* surface along the link it raises.
Ribbon ==
  /\ stage = "ribbons"
  /\ IF <<>> \in {Distances(slices.cover), slices.dtm, slices.dsm}
     THEN stage' = "raised" /\ UNCHANGED ribbons
     ELSE /\ ribbons' = Append(ribbons, Measured(Profile(Distances(slices.cover),
                                                         Bands[Len(ribbons) + 1])))
          /\ stage' = IF Len(ribbons) + 1 = Len(Bands) THEN "features" ELSE "ribbons"
  /\ UNCHANGED <<view, slices, features>>

\* extract_link_features: a link with less than two distances has none.
Extract ==
  /\ stage = "features"
  /\ features' = IF Len(Distances(slices.dtm)) < 2 THEN None
                 ELSE FeaturesOf(Ground(Distances(slices.dtm)))
  /\ stage' = "done"
  /\ UNCHANGED <<view, slices, ribbons>>

Next == Read \/ Ribbon \/ Extract

-----------------------------------------------------------------------------
\* The land cover of every sample is that of a point of its slice that no other
\* one is nearer than.
CoverIsNearest ==
  \A r \in Range(ribbons) : \A s \in Range(r.profile) :
    LET points == slices.cover[NearestSlice(slices.cover, s.d)]
    IN \E p \in Range(points) :
         /\ p.v = s.id
         /\ \A q \in Range(points) : Gap(p.dh, s.dh) <= Gap(q.dh, s.dh)

HighGroundIsSeen(r) ==
  \A p \in {q \in Range(Pixels(view.dtm)) : InCorridor(view.dtm, q)} :
    \A s \in Range(r.profile) :
      s.d = Key(view.dtm, p) /\ Gap(1000 * Across(p), s.dh) <= SearchRadius => s.dtm >= p.v

SegmentsAreRuns(r) ==
  LET p == r.profile
      runs == {run \in (DOMAIN p) \X (DOMAIN p) :
                 /\ run[1] <= run[2]
                 /\ \A n \in run[1]..run[2] : p[n].id = p[run[1]].id
                 /\ run[1] = 1 \/ p[run[1] - 1].id # p[run[1]].id
                 /\ run[2] = Len(p) \/ p[run[2] + 1].id # p[run[1]].id}
  IN /\ Range(r.segments) =
          {[id |-> p[run[1]].id, from |-> p[run[1]].d, to |-> p[run[2]].d] :
             run \in {u \in runs : p[u[2]].d - p[u[1]].d >= MinSegment \/ u[2] = Len(p)}}
     /\ \A i, j \in DOMAIN r.segments : i < j => r.segments[i].to < r.segments[j].from

TreesOnlyAdd(r) ==
  \A a, b \in Range(Bands) :
    /\ r.clutter[a] >= 0
    /\ a <= b => r.terrain[a] >= r.terrain[b]
                 /\ r.terrain[a] + r.clutter[a] >= r.terrain[b] + r.clutter[b]

WorstPeakIsFirst(f) ==
  \A g \in {o \in Range(f.ground) : Obstructs(o)} :
    f.peaks # <<>> /\ ~Worse(Severity(g), f.peaks[1])

\* Nothing in the way of a link is lost between the rasters and its features: no
\* pixel beside a ribbon rises above the profile at its distance, every stretch of
\* one class that is long enough is a segment, trees only add to the metres
\* obstructed and a deeper band has no fewer of them, and the worst peak comes first
\* (extract_and_profile, sample_dict_linear_max, get_path_segments,
\* fresnel_matrix_invasion, _terrain_degaut_peaks).
ObstaclesAreKept ==
  /\ \A r \in Range(ribbons) : HighGroundIsSeen(r) /\ SegmentsAreRuns(r) /\ TreesOnlyAdd(r)
  /\ features # None => WorstPeakIsFirst(features)

=============================================================================
