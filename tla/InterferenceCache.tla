------------------------ MODULE InterferenceCache ------------------------
(***************************************************************************)
(* wimac::service::InterferenceCache: exponentially smoothed carrier,      *)
(* interference and pathloss values per node and subband.  Local and       *)
(* remote measurements are smoothed with different weights.  Of carrier    *)
(* and interference the cache smooths the value and, in another map, its   *)
(* square, and calculates the deviation as sqrt(E[x^2] - E[x]^2), which    *)
(* means something only as long as the two maps are kept in step.          *)
(*                                                                         *)
(* The code calculates in doubles and rounds each map on its own.  Here a  *)
(* value is a natural number of some small unit of power, a square one of  *)
(* the unit's square, a weight a number of parts of Scale, and a rounded   *)
(* result is any whole number that is at most so many units off: Round for *)
(* a value, RoundSquare for a square.  The errors of the operations that   *)
(* make up one store are taken together.                                   *)
(***************************************************************************)
EXTENDS Integers

CONSTANTS
  Node, SubBand, \* what a value is kept for
  Value,         \* the values that are stored
  Scale,         \* alphaLocal_ and alphaRemote_ are in parts of Scale
  AlphaLocal, AlphaRemote,
  Round,         \* error of one smoothing of a value, in units
  RoundSquare,   \* error of one smoothing of a square, or of a product
  Drift,         \* how far a value may get from what was stored
  Deficit,       \* how far below zero the square of the deviation may get
  Complain,      \* TRUE: the strategy Complain, FALSE: ConstantValue
  Default,       \* the constant of ConstantValue
  NoValue,       \* stands for the exception of Complain
  MaxStores      \* bound: calls of the store functions

ASSUME CacheAssumption ==
  /\ Value \subseteq Nat
  /\ Scale \in Nat \ {0}
  /\ AlphaLocal \in 0..Scale
  /\ AlphaRemote \in 0..Scale
  /\ Round \in Nat /\ RoundSquare \in Nat
  /\ Complain \in BOOLEAN
  /\ Default \in Nat
  /\ NoValue \notin Int
  /\ MaxStores \in Nat

\* Each store shrinks the errors of those before to the part 1 - alpha and
\* adds its own, so that they stay below the first error divided by alpha.
ASSUME ErrorAssumption ==
  /\ Drift \in Nat /\ Deficit \in Nat
  /\ \A a \in {AlphaLocal, AlphaRemote} :
       /\ Scale * Round <= a * Drift
       /\ \A v \in Value :
            Scale * (RoundSquare + Round * Round + 2 * Round * (v + Drift)) <= a * Deficit

VARIABLES
  average,    \* node2CarrierAverage_, node2InterferenceAverage_
  squareExp,  \* node2CarrierSqExp_, node2InterferenceSqExp_
  pathloss,   \* node2pathloss
  heard,      \* history: the values stored per quantity and key
  stores      \* the number of calls so far

cacheVars == <<average, squareExp, pathloss, heard, stores>>

Key      == Node \X SubBand                 \* InterferenceCacheKey
Quantity == {"carrier", "interference"}
Measure  == Quantity \cup {"pathloss"}
Origin   == {"Local", "Remote"}

Alpha(origin) == IF origin = "Local" THEN AlphaLocal ELSE AlphaRemote

\* The natural numbers that are at most r units off w parts of Scale.
Rounded(w, r) ==
  {x \in ((w \div Scale - r)..(w \div Scale + r + 1)) \cap Nat :
     Scale * (x - r) <= w /\ w <= Scale * (x + r)}

\* Mutations of Smoothed: weights that do not add up; a wrong sign.
SmoothedTwice(x, v, a, r) == Rounded(Scale * x + a * v, r)

SmoothedAway(x, v, a, r) == {((Scale - a) * x - a * v) \div Scale}

\* What x may be when it is smoothed with v of weight a.
Smoothed(x, v, a, r) == Rounded((Scale - a) * x + a * v, r)

\* What a map may be after a store of v, with an error of r: a first value is
\* taken as it is, with the error "first" of what was calculated from it.
Stored(map, key, v, a, first, r) ==
  LET results == IF key \in DOMAIN map THEN Smoothed(map[key], v, a, r)
                 ELSE ((v - first)..(v + first)) \cap Nat
  IN  {[k \in DOMAIN map \cup {key} |-> IF k = key THEN x ELSE map[k]] : x \in results}

CacheInit ==
  /\ average   = [q \in Quantity |-> << >>]
  /\ squareExp = [q \in Quantity |-> << >>]
  /\ pathloss  = << >>
  /\ heard     = [m \in Measure |-> [k \in Key |-> {}]]
  /\ stores    = 0

Hear(m, key, v) ==
  /\ stores < MaxStores
  /\ stores' = stores + 1
  /\ heard' = [heard EXCEPT ![m][key] = @ \cup {v}]

\* Mutation of SquareAlpha: the square is always smoothed as if it was local.
SquareAlphaLocal(origin) == AlphaLocal

\* The weight of the square is that of the value.
SquareAlpha(origin) == Alpha(origin)

\* storeCarrier and storeInterference: the square is a rounded product from
\* the start.
StorePower(q, key, v, origin) ==
  /\ Hear(q, key, v)
  /\ \E m \in Stored(average[q], key, v, Alpha(origin), 0, Round) :
       average' = [average EXCEPT ![q] = m]
  /\ \E m \in Stored(squareExp[q], key, v * v, SquareAlpha(origin), RoundSquare, RoundSquare) :
       squareExp' = [squareExp EXCEPT ![q] = m]
  /\ UNCHANGED pathloss

\* storePathloss
StorePathloss(key, v, origin) ==
  /\ Hear("pathloss", key, v)
  /\ pathloss' \in Stored(pathloss, key, v, Alpha(origin), 0, Round)
  /\ UNCHANGED <<average, squareExp>>

CacheNext ==
  \E key \in Key, v \in Value, origin \in Origin :
    \/ \E q \in Quantity : StorePower(q, key, v, origin)
    \/ StorePathloss(key, v, origin)

CacheSpec == CacheInit /\ [][CacheNext]_cacheVars

---------------------------------------------------------------------------
(* What is read from the cache.                                            *)

NotFound == IF Complain THEN NoValue ELSE Default

\* getAveragedCarrier, getAveragedInterference, getAveragedPathloss
Averaged(map, key) == IF key \in DOMAIN map THEN map[key] ELSE NotFound

\* getCarrierDeviation, getInterferenceDeviation: the argument of sqrt() in
\* them, but for the rounding of the last product.  The default is found for
\* a key that is missing in either map.
Variance(q, key) ==
  IF key \notin DOMAIN squareExp[q] \/ key \notin DOMAIN average[q]
    THEN NotFound
    ELSE squareExp[q][key] - average[q][key] * average[q][key]

---------------------------------------------------------------------------
\* Every variable has its type.
CacheTypeOK ==
  /\ \A m \in {average[q] : q \in Quantity} \cup {squareExp[q] : q \in Quantity}
              \cup {pathloss} :
       /\ DOMAIN m \subseteq Key
       /\ \A k \in DOMAIN m : m[k] \in Nat
  /\ heard \in [Measure -> [Key -> SUBSET Value]]
  /\ stores \in 0..MaxStores

\* "Returns the deviation of the measured carrier power"
\* (InterferenceCache.hpp:258): there is a deviation of whatever is in the
\* cache, sqrt() never gets a negative argument.  It may: the value and its
\* square are rounded apart.
DeviationDefined ==
  \A q \in Quantity : \A key \in DOMAIN average[q] : Variance(q, key) >= 0

\* What remains true: value and square are smoothed alike, so that they stay
\* in step in whichever way local and remote measurements mix, and only the
\* rounding errors, which do not add up with the number of stores, bring the
\* argument of sqrt() below zero.
DeficitBounded ==
  \A q \in Quantity : \A key \in DOMAIN average[q] :
    /\ key \in DOMAIN squareExp[q]
    /\ Variance(q, key) >= -Deficit

\* A value read for a key to which the values in S were stored.
Plausible(x, S) ==
  IF S = {} THEN x = NotFound
  ELSE /\ \E v \in S : v - Drift <= x
       /\ \E v \in S : x <= v + Drift

\* What is read lies between the least and the greatest value that was stored
\* under its key since the cache was created, up to an error that does not
\* grow with the number of stores, and is the default only when none was: a
\* scheduler never assumes a channel better or worse than any it was told of,
\* and nothing is found under another node or subband.
AverageNearHeard ==
  \A key \in Key :
    /\ \A q \in Quantity : Plausible(Averaged(average[q], key), heard[q][key])
    /\ Plausible(Averaged(pathloss, key), heard["pathloss"][key])

\* What the cache answers is plausible, whatever was stored.
CacheSafe == CacheTypeOK /\ DeficitBounded /\ AverageNearHeard
==========================================================================
