----------------------------- MODULE AntennaGain -----------------------------
(***************************************************************************)
(* cisei_lib/planners/antenna_planner.py: the gain of a library antenna    *)
(* towards a destination.  A pattern is chosen for the frequency, its      *)
(* attenuation is interpolated between the samples around the direction,   *)
(* on the circle for the azimuth and on the line for the elevation, and    *)
(* the shadow of a side pole is taken off.                                 *)
(*                                                                         *)
(* Angles are whole degrees and a gain is a fraction [num, den]; Raised    *)
(* stands for an exception.                                                *)
(***************************************************************************)
EXTENDS Integers, Sequences, FiniteSetsExt

CONSTANTS
  Queries,   \* [patterns, frequency, bearing, azimuth, elevation, downtilt, shadow]
  None,
  Raised

VARIABLES
  query,     \* the arguments of effective_gain_dbi, with the model's patterns
  gain       \* what it returned, None before

vars == <<query, gain>>

Degrees == 0..359

\* Tables as _normalize_attenuation makes them, none without samples.
TableIsSampled(table) ==
  /\ DOMAIN table # {} /\ DOMAIN table \subseteq Degrees
  /\ \A a \in DOMAIN table :
       /\ DOMAIN table[a] # {} /\ DOMAIN table[a] \subseteq Int /\ IsFiniteSet(DOMAIN table[a])
       /\ \A e \in DOMAIN table[a] : table[a][e] \in Int

\* Antennas of the library, with a pattern at least, and angles in whole degrees.
QueriesAreOfLibrary ==
  /\ \A q \in Queries :
       /\ Len(q.patterns) \in Nat \ {0} /\ DOMAIN q.patterns = 1..Len(q.patterns)
       /\ \A i \in DOMAIN q.patterns :
            /\ q.patterns[i].gain \in Int /\ q.patterns[i].frequency \in Int
            /\ q.patterns[i].attenuation = <<>> \/ TableIsSampled(q.patterns[i].attenuation)
       /\ {q.frequency, q.bearing, q.azimuth, q.elevation, q.downtilt} \subseteq Int
       /\ q.shadow # None => {q.shadow.azimuth, q.shadow.width, q.shadow.loss} \subseteq Int
  /\ Raised \notin [num : Int, den : Int]

-----------------------------------------------------------------------------
Distance(a, b) == IF a >= b THEN a - b ELSE b - a

\* pattern_for_frequency: of the patterns whose band holds the frequency, or of
\* all when none does, the first of the nearest.
PatternFor(patterns, frequency) ==
  LET inBand == {i \in DOMAIN patterns :
                   /\ patterns[i].band # None
                   /\ patterns[i].band[1] <= frequency /\ frequency <= patterns[i].band[2]}
      choice == IF inBand # {} THEN inBand ELSE DOMAIN patterns
      off(i) == Distance(patterns[i].frequency, frequency)
  IN patterns[CHOOSE i \in choice : \A j \in choice :
                off(i) < off(j) \/ (off(i) = off(j) /\ i <= j)]

Wrap(angle) == angle % 360

SignedDelta(angle, reference) == ((angle - reference + 180) % 360) - 180

Sorted(set) ==
  [i \in 1..Cardinality(set) |-> CHOOSE s \in set : Cardinality({t \in set : t < s}) = i - 1]

\* Variant: the samples are not continued beyond the last one.
OpenBracket(samples, angle) ==
  LET values  == Sorted(samples)
      from(i) == IF angle < values[i] THEN angle + 360 ELSE angle
      fits    == {j \in 1..(Len(values) - 1) : values[j] <= from(j) /\ from(j) <= values[j + 1]}
      i       == Min(fits)
  IN CASE Len(values) = 1 -> <<values[1], values[1], 0, 1>>
       [] angle \in samples -> <<angle, angle, 0, 1>>
       [] fits = {} -> <<values[Len(values)], values[Len(values)], 0, 1>>
       [] OTHER -> <<values[i], values[i + 1], from(i) - values[i], values[i + 1] - values[i]>>

\* _circular_bracket: the first pair of consecutive samples that holds the angle,
\* the first sample following the last one; then the weight as a fraction.
CircularBracket(samples, angle) ==
  LET values   == Sorted(samples)
      extended == Append(values, values[1] + 360)
      from(i)  == IF angle < extended[i] THEN angle + 360 ELSE angle
      i        == Min({j \in DOMAIN values :
                         extended[j] <= from(j) /\ from(j) <= extended[j + 1]})
  IN IF Len(values) = 1 THEN <<values[1], values[1], 0, 1>>
     ELSE IF angle \in samples THEN <<angle, angle, 0, 1>>
     ELSE <<Wrap(extended[i]), Wrap(extended[i + 1]),
            from(i) - extended[i], extended[i + 1] - extended[i]>>

\* _linear_bracket: beyond the samples the outermost one stands.
LinearBracket(samples, value) ==
  LET values == Sorted(samples)
      i      == Min({j \in 1..(Len(values) - 1) : values[j] <= value /\ value <= values[j + 1]})
  IN IF Len(values) = 1 \/ value <= values[1] THEN <<values[1], values[1], 0, 1>>
     ELSE IF value >= values[Len(values)] THEN <<values[Len(values)], values[Len(values)], 0, 1>>
     ELSE <<values[i], values[i + 1], value - values[i], values[i + 1] - values[i]>>

\* interpolate_attenuation: the elevations bracketed are those of the azimuth on
\* the left, and the azimuth on the right must have them too.
Interpolated(table, az, el) ==
  LET at(a) == table[a][el[1]] * el[4] + (table[a][el[2]] - table[a][el[1]]) * el[3]
  IN IF {el[1], el[2]} \subseteq DOMAIN table[az[2]]
     THEN [num |-> at(az[1]) * az[4] + (at(az[2]) - at(az[1])) * az[3],
           den |-> el[4] * az[4]]
     ELSE Raised

BetweenAzimuths(table, az, elevation) ==
  Interpolated(table, az, LinearBracket(DOMAIN table[az[1]], elevation))

Attenuation(table, azimuth, elevation) ==
  BetweenAzimuths(table, CircularBracket(DOMAIN table, Wrap(azimuth)), elevation)

\* pole_shadow_loss_db: nothing without a direction, a width or a loss.
ShadowLoss(bearing, shadow) ==
  IF shadow = None THEN 0
  ELSE IF shadow.width <= 0 \/ shadow.loss <= 0 THEN 0
  ELSE IF 2 * Distance(SignedDelta(bearing, shadow.azimuth), 0) <= shadow.width
       THEN shadow.loss ELSE 0

\* effective_gain_dbi.
Loss(pattern, q) ==
  IF pattern.attenuation = <<>> THEN [num |-> 0, den |-> 1]
  ELSE Attenuation(pattern.attenuation, SignedDelta(q.bearing, q.azimuth),
                   q.elevation + q.downtilt)

Reduced(full, loss) ==
  IF loss = Raised THEN Raised
  ELSE [num |-> full * loss.den - loss.num, den |-> loss.den]

GainOf(pattern, q) == Reduced(pattern.gain - ShadowLoss(q.bearing, q.shadow), Loss(pattern, q))

EffectiveGain(q) == GainOf(PatternFor(q.patterns, q.frequency), q)

Init == query \in Queries /\ gain = None

Evaluate ==
  /\ gain = None
  /\ gain' = EffectiveGain(query)
  /\ UNCHANGED query

Next == Evaluate

-----------------------------------------------------------------------------
Clockwise(from, to) == (to - from) % 360

\* The sample next to an angle anticlockwise (the angle itself when sampled).
Before(samples, angle) ==
  CHOOSE s \in samples : \A t \in samples : Clockwise(s, angle) <= Clockwise(t, angle)

After(samples, angle) ==
  CHOOSE s \in samples : \A t \in samples : Clockwise(angle, s) <= Clockwise(angle, t)

Clamp(samples, value) == Min({Max({value, Min(samples)}), Max(samples)})

Shaded(q) ==
  q.shadow # None /\ q.shadow.width > 0 /\ q.shadow.loss > 0 /\
    LET away == Clockwise(q.shadow.azimuth, q.bearing)
    IN 2 * away <= q.shadow.width \/ 2 * (360 - away) <= q.shadow.width

\* The gain lies on the plane through the four samples.
OnPlane(table, clear, left, right, low, high, angle, value) ==
  LET span == IF left = right THEN 1 ELSE Clockwise(left, right)
      turn == IF left = right THEN 0 ELSE Clockwise(left, angle)
      rise == IF low = high THEN 1 ELSE high - low
      part == IF low = high THEN 0 ELSE value - low
      sum  == (span - turn) * (rise - part) * table[left][low]
              + (span - turn) * part * table[left][high]
              + turn * (rise - part) * table[right][low]
              + turn * part * table[right][high]
  IN gain.num * span * rise = (clear * span * rise - sum) * gain.den

Between(table, clear, left, right, angle, value) ==
  IF gain = Raised THEN DOMAIN table[left] # DOMAIN table[right]
  ELSE OnPlane(table, clear, left, right, Max({e \in DOMAIN table[left] : e <= value}),
               Min({e \in DOMAIN table[left] : e >= value}), angle, value)

Beside(table, clear, left, angle, value) ==
  Between(table, clear, left, After(DOMAIN table, angle), angle,
          Clamp(DOMAIN table[left], value))

FromPattern(pattern, clear, angle, value) ==
  IF pattern.attenuation = <<>> THEN gain = [num |-> clear, den |-> 1]
  ELSE Beside(pattern.attenuation, clear, Before(DOMAIN pattern.attenuation, angle), angle, value)

\* The gain is the pattern's, at the direction seen from the antenna: on the plane
\* through the samples next to it on either side of the circle and above and below
\* it, and less by the loss of a shadow it lies in, wherever north is; it fails to
\* be computed only when those samples are not on one grid (effective_gain_dbi).
GainIsOfItsDirection ==
  gain # None =>
    LET pattern == PatternFor(query.patterns, query.frequency)
    IN FromPattern(pattern, pattern.gain - (IF Shaded(query) THEN query.shadow.loss ELSE 0),
                   (query.bearing - query.azimuth) % 360, query.elevation + query.downtilt)

=============================================================================
