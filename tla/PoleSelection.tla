---------------------------- MODULE PoleSelection ----------------------------
(***************************************************************************)
(* cisei_lib/planners/pole_graph_async.py: the choice of repeater poles    *)
(* for a link with the sector_band strategy.  The search radius around the *)
(* obstacle is widened until it holds enough poles, poles off the path are *)
(* dropped, and the rest is divided into sectors and rings, from which the *)
(* poles with the highest antennas are taken in turns.                     *)
(*                                                                         *)
(* A pole is a record of what the choice looks at: its distance from the   *)
(* search centre, its bearing clockwise from the axis of the link (whole   *)
(* degrees), its largest deviation from the path, and the elevation of its *)
(* antenna.                                                                *)
(***************************************************************************)
EXTENDS Integers, Sequences, FiniteSetsExt

CONSTANTS
  Cases,       \* [context, length, centre, poles]; poles: id -> record
  None

VARIABLES
  case,        \* the link, its poles and the context of the planner
  step,        \* "start", "search", "cone", "sectors", "bands", "pick", "done", "raised"
  radius,      \* radius_km, in metres
  near,        \* poles_in_radius
  band,        \* pole -> its ring
  sector,      \* the sector whose poles are being picked
  ring,        \* the ring whose turn it is
  picked       \* the poles picked, in order; the sectors one after another

vars == <<case, step, radius, near, band, sector, ring, picked>>

Context == case.context

Pole(p) == case.poles[p]

Within(r) == {p \in DOMAIN case.poles : Pole(p).dist < r}

\* How far a pole stands out of the cone; 0 inside.
Excess(p) == IF Pole(p).deviation <= Context.cone_angle THEN 0 ELSE Pole(p).deviation

\* The n poles of a set that stand out least.
LeastDeviating(set, n) ==
  {p \in set : Cardinality({q \in set : Excess(q) < Excess(p)}) < n}

\* Distances and the numbers of the context are naturals.  Poles that the sorts of the
\* code find equal come in an order they leave open: the elevation of a pole, and the
\* deviation of one that is off the path, stand for its place in that order.
CasesAreDistinct ==
  \A c \in Cases :
    /\ IsFiniteSet(DOMAIN c.poles)
    /\ c.length \in Nat
    /\ \A p \in DOMAIN c.poles :
         c.poles[p].dist \in Nat /\ c.poles[p].deviation \in Nat /\ c.poles[p].elevation \in Int
    /\ \A p, q \in DOMAIN c.poles :
         p # q => /\ c.poles[p].elevation # c.poles[q].elevation
                  /\ c.poles[p].deviation > c.context.cone_angle =>
                       c.poles[p].deviation # c.poles[q].deviation
    /\ {c.context.radius_min, c.context.radius_max, c.context.radius_percent,
        c.context.radius_increment, c.context.radius_poles, c.context.cone_angle,
        c.context.cone_poles, c.context.sector_count, c.context.sector_poles} \subseteq Nat
    /\ c.context.sector_bands \in Nat \ {0}

-----------------------------------------------------------------------------
Init ==
  /\ case \in Cases
  /\ step = "start"
  /\ radius = 0 /\ near = {} /\ band = <<>>
  /\ sector = 0 /\ ring = 0 /\ picked = <<>>

FirstRadius ==
  Min({Max({Context.radius_min, (Context.radius_percent * case.length) \div 100}),
       Context.radius_max})

\* A link without an obstacle is not improved, unless its midpoint may stand for it.
Start ==
  /\ step = "start"
  /\ IF case.centre = None
     THEN step' = "done" /\ UNCHANGED radius
     ELSE /\ step' = "search"
          /\ radius' = FirstRadius
  /\ UNCHANGED <<case, near, band, sector, ring, picked>>

\* Variant: the radius is widened to its limit although it holds enough poles.
SearchOnce ==
  /\ step = "search"
  /\ near' = Within(radius)
  /\ IF radius >= Context.radius_max
     THEN /\ step' = IF Within(radius) = {} THEN "done" ELSE "cone"
          /\ UNCHANGED radius
     ELSE /\ radius' = radius + Context.radius_increment
          /\ UNCHANGED step
  /\ UNCHANGED <<case, band, sector, ring, picked>>

\* One turn of the loop of _adaptive_radius_filter.
Search ==
  /\ step = "search"
  /\ near' = Within(radius)
  /\ IF Cardinality(Within(radius)) >= Context.radius_poles \/ radius >= Context.radius_max
     THEN /\ step' = IF Within(radius) = {} THEN "done" ELSE "cone"
          /\ UNCHANGED radius
     ELSE /\ radius' = radius + Context.radius_increment
          /\ UNCHANGED step
  /\ UNCHANGED <<case, band, sector, ring, picked>>

\* _cone_angle_filter: when too few poles lie in the cone, the least deviating of
\* the others make up the number.
Cone ==
  /\ step = "cone"
  /\ LET inside == {p \in near : Excess(p) = 0}
     IN near' = CASE Context.cone_angle = 0 -> near
                  [] Context.cone_angle > 0 /\ Cardinality(inside) >= Context.cone_poles -> inside
                  [] OTHER -> LeastDeviating(near, Context.cone_poles)
  /\ step' = IF near' = {} THEN "done" ELSE "sectors"
  /\ UNCHANGED <<case, radius, band, sector, ring, picked>>

\* _assign_sectors: sector 0 is centred on the axis of the link.
SectorOf(p) ==
  LET width == 360 \div Context.sector_count
  IN ((Pole(p).bearing + width \div 2) % 360) \div width

Excluded == Range(Context.sector_exclusions)

BadSectors ==
  \/ Context.sector_count < 2 \/ Context.sector_count % 2 = 1
  \/ ~(Excluded \subseteq 0..(Context.sector_count - 1))
  \/ Cardinality(Excluded) >= Context.sector_count

\* The sectors are assigned and the excluded ones dropped.
Sectors ==
  /\ step = "sectors"
  /\ near' = IF BadSectors THEN near ELSE {p \in near : SectorOf(p) \notin Excluded}
  /\ step' = CASE BadSectors -> "raised"
               [] ~BadSectors /\ near' = {} -> "done"
               [] OTHER -> "bands"
  /\ UNCHANGED <<case, radius, band, sector, ring, picked>>

\* Rings of equal width up to the farthest pole.  When that one stands at the
\* centre the width is zero, and the division leaves no number to convert.
Bands ==
  /\ step = "bands"
  /\ LET farthest == Max({Pole(p).dist : p \in near})
     IN IF farthest = 0
        THEN step' = "raised" /\ UNCHANGED band
        ELSE /\ band' = [p \in near |-> Min({(Pole(p).dist * Context.sector_bands) \div farthest,
                                            Context.sector_bands - 1})]
             /\ step' = "pick"
  /\ UNCHANGED <<case, radius, near, sector, ring, picked>>

Left(s) == {p \in near \ Range(picked) : SectorOf(p) = s}

PickedIn(s) == {p \in Range(picked) : SectorOf(p) = s}

Highest(set) == CHOOSE p \in set : \A q \in set : Pole(q).elevation <= Pole(p).elevation

\* Variant: the highest pole of the sector, whatever its ring.
PickHighest ==
  /\ step = "pick" /\ sector < Context.sector_count
  /\ IF Left(sector) = {} \/ Cardinality(PickedIn(sector)) >= Context.sector_poles
     THEN sector' = sector + 1 /\ ring' = 0 /\ UNCHANGED picked
     ELSE picked' = Append(picked, Highest(Left(sector))) /\ UNCHANGED <<sector, ring>>
  /\ UNCHANGED <<case, step, radius, near, band>>

\* The next turn of the rounds over the rings of a sector: the highest pole left
\* in the ring is picked, a ring without one is passed over; the sector is done
\* when it has its number of poles or none is left.
Pick ==
  /\ step = "pick" /\ sector < Context.sector_count
  /\ IF Left(sector) = {} \/ Cardinality(PickedIn(sector)) >= Context.sector_poles
     THEN sector' = sector + 1 /\ ring' = 0 /\ UNCHANGED picked
     ELSE LET here == {p \in Left(sector) : band[p] = ring}
          IN /\ picked' = IF here = {} THEN picked ELSE Append(picked, Highest(here))
             /\ ring' = (ring + 1) % Context.sector_bands
             /\ UNCHANGED sector
  /\ UNCHANGED <<case, step, radius, near, band>>

PickEnd ==
  /\ step = "pick" /\ sector = Context.sector_count
  /\ step' = "done"
  /\ UNCHANGED <<case, radius, near, band, sector, ring, picked>>

Next == Start \/ Search \/ Cone \/ Sectors \/ Bands \/ Pick \/ PickEnd

-----------------------------------------------------------------------------
InSector(s) == {p \in near : SectorOf(p) = s}

InRing(set, p) == {q \in set : band[q] = band[p]}

\* The poles picked are spread and high: a sector that is not excluded has its
\* number of them, or all it has; none of a ring is passed over for a lower one;
\* and no ring is picked from again while another still has poles and fewer
\* picked (_get_poles_by_sector_band, "preserving spatial diversity").
SelectionIsSpread ==
  step = "done" /\ band # <<>> =>
    /\ Range(picked) \subseteq near
    /\ \A s \in 0..(Context.sector_count - 1) :
      LET taken == InSector(s) \cap Range(picked)
          left  == InSector(s) \ taken
      IN /\ s \in Excluded => taken = {}
         /\ s \notin Excluded =>
              /\ Cardinality(taken) = Min({Context.sector_poles, Cardinality(InSector(s))})
              /\ \A p \in taken, q \in left :
                   /\ band[p] = band[q] => Pole(p).elevation > Pole(q).elevation
                   /\ Cardinality(InRing(taken, p)) <= Cardinality(InRing(taken, q)) + 1

\* A detour is taken only for want of something nearer: the radius is widened only
\* while fewer than radius_poles lie within it, and a pole off the path is kept
\* only when fewer than cone_poles stand in the cone, none of which is given up
\* for it and none that deviates less (_adaptive_radius_filter, _cone_angle_filter).
DetoursAreNeeded ==
  /\ step \notin {"start", "search"} /\ radius > FirstRadius =>
       /\ Cardinality(Within(radius - Context.radius_increment)) < Context.radius_poles
       /\ radius - Context.radius_increment < Context.radius_max
  /\ step = "sectors" /\ Context.cone_angle > 0 =>
       LET straight == {p \in Within(radius) : Pole(p).deviation <= Context.cone_angle}
       IN /\ near \ straight # {} =>
               straight \subseteq near /\ Cardinality(near) <= Context.cone_poles
          /\ \A p \in near \ straight, q \in Within(radius) \ near :
               Pole(p).deviation < Pole(q).deviation

=============================================================================
