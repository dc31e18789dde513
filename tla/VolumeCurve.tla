----------------------------- MODULE VolumeCurve -----------------------------
(***************************************************************************)
(* CAVolumeCurve: the three scales of a volume.  A raw volume is a number  *)
(* of steps along a curve, a decibel value is linear in it within each of  *)
(* the curve's ranges, and a scalar, the position of a slider, is a power  *)
(* of the share of the raw range that has been gone.                       *)
(*                                                                         *)
(* Decibels are counted in parts of 1/200, so that the steps of the curves *)
(* in use are whole numbers.  With exponent e and raw range R, a scalar    *)
(* s is represented by s * R^e, and by its denominator-th power if e has   *)
(* one, so that every scalar a raw volume converts to is a natural number. *)
(***************************************************************************)
EXTENDS Integers, FiniteSets
LOCAL INSTANCE FiniteSetsExt

Clamp(x, low, high) == IF x < low THEN low ELSE IF x > high THEN high ELSE x

\* Transfer functions.  The numerators of the exponents of kLinearCurve,
\* kPow1Over3Curve, kPow1Over2Curve, kPow3Over4Curve and kPow3Over2Curve, and
\* then of kPow2Over1Curve to kPow12Over1Curve.
Numerator(f) ==
  CASE f \in 0 .. 2  -> 1
    [] f \in 3 .. 4  -> 3
    [] f \in 5 .. 15 -> f - 3
    [] OTHER         -> 2
SetTransferFunction(c, f) ==
  [c EXCEPT !.applying = (f # 0), !.exponent = Numerator(f)]

NewCurve == [ranges |-> {}, applying |-> TRUE, exponent |-> 2]
CurveRange(minRaw, maxRaw, minDB, maxDB) ==
  [minRaw |-> minRaw, maxRaw |-> maxRaw, minDB |-> minDB, maxDB |-> maxDB]
Overlap(r, q) == r.minRaw < q.maxRaw /\ r.maxRaw > q.minRaw
\* The search for an overlap ends at the first range that does not begin after
\* the new one.
AddRange(c, r) ==
  LET seen == {q \in c.ranges :
                 \A p \in c.ranges : p.minRaw < q.minRaw => p.minRaw > r.minRaw}
      overlapped == \E q \in seen : Overlap(r, q)
      present == \E q \in c.ranges : q.minRaw = r.minRaw
  IN  IF overlapped \/ present THEN c ELSE [c EXCEPT !.ranges = @ \cup {r}]

First(c) == CHOOSE r \in c.ranges : \A q \in c.ranges : r.minRaw <= q.minRaw
Last(c) == CHOOSE r \in c.ranges : \A q \in c.ranges : r.minRaw >= q.minRaw
GetMinimumRaw(c) == IF c.ranges = {} THEN 0 ELSE First(c).minRaw
GetMaximumRaw(c) == IF c.ranges = {} THEN 0 ELSE Last(c).maxRaw
GetMinimumDB(c) == IF c.ranges = {} THEN 0 ELSE First(c).minDB
GetMaximumDB(c) == IF c.ranges = {} THEN 0 ELSE Last(c).maxDB
RawRange(c) == GetMaximumRaw(c) - GetMinimumRaw(c)

Steps(r) == r.maxRaw - r.minRaw
DBRange(r) == r.maxDB - r.minDB
Before(c, r) == {q \in c.ranges : q.minRaw < r.minRaw}
StepsBefore(c, r) == MapThenSumSet(Steps, Before(c, r))
DBBefore(c, r) == MapThenSumSet(DBRange, Before(c, r))
CheckForContinuity(c) ==
  \A r \in c.ranges : /\ r.minRaw = GetMinimumRaw(c) + StepsBefore(c, r)
                      /\ r.minDB = GetMinimumDB(c) + DBBefore(c, r)

ConvertDBToRaw(c, db) ==
  LET in == Clamp(db, GetMinimumDB(c), GetMaximumDB(c))
      at == CHOOSE r \in c.ranges :
              in <= r.maxDB /\ \A q \in Before(c, r) : in > q.maxDB
      \* Rounded to whole steps.
      within == (2 * (in - at.minDB) * Steps(at) + DBRange(at))
                  \div (2 * DBRange(at))
  IN  GetMinimumRaw(c) + StepsBefore(c, at) + within
ConvertRawToDB(c, raw) ==
  LET left == Clamp(raw, GetMinimumRaw(c), GetMaximumRaw(c)) - GetMinimumRaw(c)
      DBOf(r) == (Clamp(left - StepsBefore(c, r), 0, Steps(r)) * DBRange(r))
                   \div Steps(r)
  IN  GetMinimumDB(c) + MapThenSumSet(DBOf, c.ranges)

\* The curve is only applied when it spans more than 30 dB.
Exponent(c) ==
  IF c.applying /\ GetMaximumDB(c) - GetMinimumDB(c) > 6000 THEN c.exponent ELSE 1
FullScalar(c) == RawRange(c) ^ Exponent(c)
ConvertRawToScalar(c, raw) ==
  (Clamp(raw, GetMinimumRaw(c), GetMaximumRaw(c)) - GetMinimumRaw(c))
    ^ Exponent(c)
\* The whole number that is nearest to the root.
ConvertScalarToRaw(c, scalar) ==
  LET in == Clamp(scalar, 0, FullScalar(c))
      reached == {n \in 0 .. RawRange(c) :
                    2 ^ Exponent(c) * in <= (2 * n + 1) ^ Exponent(c)}
  IN  GetMinimumRaw(c) + Min(reached)
ConvertDBToScalar(c, db) == ConvertRawToScalar(c, ConvertDBToRaw(c, db))
ConvertScalarToDB(c, scalar) == ConvertRawToDB(c, ConvertScalarToRaw(c, scalar))

-----------------------------------------------------------------------------
(* The three scales are three names of the same volume: whatever the curve,*)
(* a volume that is set by what it was shown as stays what it is, and more *)
(* on one scale is more on every other.                                    *)
ScalesAgree(c) ==
  \A raw \in GetMinimumRaw(c) .. GetMaximumRaw(c) :
    LET scalar == ConvertRawToScalar(c, raw)
        db == ConvertRawToDB(c, raw)
    IN  /\ ConvertScalarToRaw(c, scalar) = raw /\ ConvertDBToRaw(c, db) = raw
        /\ ConvertDBToScalar(c, db) = scalar /\ ConvertScalarToDB(c, scalar) = db
        /\ raw > GetMinimumRaw(c) =>
             /\ scalar > ConvertRawToScalar(c, raw - 1)
             /\ db > ConvertRawToDB(c, raw - 1)
=============================================================================
