--------------------------------- MODULE Cpr ---------------------------------
(***************************************************************************)
(* Compact position reporting (src/adsb/adsb/modes.py) along one           *)
(* coordinate of a circle: an even frame tells the place in one of Zones   *)
(* zones, an odd one in one of Zones - 1 larger zones, neither tells which *)
(* zone.  A place is a whole number, so that zones, fractions of a zone    *)
(* and the roundings of the code are exact: the circle has                 *)
(* Unit * Zones * (Zones - 1) places and the two kinds of zones differ by  *)
(* Unit.  The code does the same for the latitude (60 zones) and, with the *)
(* number of zones nl() has for the latitude, for the longitude.           *)
(***************************************************************************)
EXTENDS Integers

CONSTANTS
    Zones, \* even zones around the circle
    Unit,  \* by how much an odd zone is larger
    nl     \* place -> its latitude band

ASSUME CprAssumption == Zones \in Nat /\ Zones > 1 /\ Unit \in Nat \ {0}

\* A position that may be unknown: a set of at most one place.
NoPosition == {}

Circle == Unit * Zones * (Zones - 1)
Places == 0..(Circle - 1)

\* dlat: the size of a zone.
Zone(odd) == IF odd THEN Unit * Zones ELSE Unit * (Zones - 1)

cpr_encode(place, odd) == place % Zone(odd)

\* The place of the newer of two frames, unless they lie in different bands.
cpr_global(even, odd, oddNewest) ==
    LET j == (2 * (even - odd) + Unit) \div (2 * Unit)
        atEven == Zone(FALSE) * (j % Zones) + even
        atOdd == Zone(TRUE) * (j % (Zones - 1)) + odd
    IN  IF nl[atEven] # nl[atOdd] THEN NoPosition
        ELSE {IF oddNewest THEN atOdd ELSE atEven}

\* The place of one frame that is nearest to a reference; it may lie beyond
\* the ends of the scale.
cpr_local(y, odd, ref) ==
    LET size == Zone(odd)
    IN  size * (ref \div size) + size * ((2 * ((ref % size) - y) + size) \div (2 * size)) + y
=============================================================================
