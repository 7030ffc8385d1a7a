------------------------------ MODULE VidRing ------------------------------
(***************************************************************************)
(* Ring arithmetic on virtual ids (routing/RoutingBase.cc) and the vset    *)
(* admission rule both protocols build on it.  The ring has VidMax + 1     *)
(* positions; clockwise is the direction of increasing vids.               *)
(***************************************************************************)
EXTENDS Integers, FiniteSets

CONSTANT VidMax                    \* VLRRINGVID_MAX
ASSUME VidMaxAssumption == VidMax \in Nat \ {0}

RingVids == 0 .. VidMax

\* getVid_CW_Distance: the distance from a vid to itself is a whole turn
CWDistance(src, dst) == IF src < dst THEN dst - src ELSE VidMax + 1 - (src - dst)

\* getVid_CCW_Distance: the distance from a vid to itself is 0
CCWDistance(src, dst) == IF src < dst THEN VidMax + 1 - (dst - src) ELSE src - dst

\* The member of S that is i steps clockwise of me, as the map iterator that
\* starts at lower_bound(me) and wraps around meets it (me \notin S, 1-based).
NthCW(S, me, i) ==
  CHOOSE v \in S : Cardinality({w \in S : CWDistance(me, w) <= CWDistance(me, v)}) = i

\* getFarthestVneisInFullVset: the last of the half clockwise of me and the
\* first of the half counter-clockwise, which is the next one on the ring
FarthestVneis(S, me, half) == [ccw |-> NthCW(S, me, half + 1), cw |-> NthCW(S, me, half)]

\* shouldAddVnei for a node that is not in the vset: is it admitted, and which
\* vnei does it push out of a full vset
ShouldAddVnei(S, me, new, half) ==
  IF Cardinality(S) < 2 * half THEN [add |-> TRUE, removed |-> {}]
  ELSE LET far == FarthestVneis(S, me, half)
       IN  IF CCWDistance(me, new) < CCWDistance(me, far.ccw)
           THEN [add |-> TRUE, removed |-> {far.ccw}]
           ELSE IF CWDistance(me, new) < CWDistance(me, far.cw)
           THEN [add |-> TRUE, removed |-> {far.cw}]
           ELSE [add |-> FALSE, removed |-> {}]
============================================================================
