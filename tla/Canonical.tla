----------------------------- MODULE Canonical -----------------------------
(***************************************************************************)
(* The pipeline of crate seven-core from an observation to the canonical   *)
(* state evidence identity hashes: all fields are validated, lengths are   *)
(* quantised to i64, the attitude is normalised, put in a hemisphere and   *)
(* quantised.  Later a canonical state may be canonicalised again.         *)
(*                                                                         *)
(* A finite length or quaternion component is an integer number of some    *)
(* small unit, Fine of which are a metre, so that every rounding is        *)
(* decided exactly: the normalised component w / sqrt(n2) by comparing     *)
(* squares.  Of f64 what remains is what changes more than the last digit: *)
(* a square below the least normal number is rounded to a multiple of the  *)
(* least positive one, so that a norm can be wrong or zero; squares and    *)
(* their sum can overflow; a quotient can underflow to zero; and the       *)
(* quotients of recanonicalize are multiples of 1 / Grid.  The rounding of *)
(* a normal product, sum, root or quotient to 53 digits is left out, so    *)
(* half a step means up to that rounding.                                  *)
(***************************************************************************)
EXTENDS Integers, Sequences, SequencesExt, FiniteSets, FiniteSetsExt, Folds

CONSTANTS
    Observations, \* [position, velocity : 3 lengths, attitude : w, x, y, z]
    NotFinite,    \* NaN and the infinities
    Fine,         \* units in a metre or a metre per second
    PositionScale, VelocityScale,   \* scale::POSITION, scale::VELOCITY
    IMax,         \* i64::MAX
    Scale,        \* scale::QUATERNION
    Grid,         \* the resolution of f64 between 0 and 2
    Tiny,         \* 1 / Tiny is half the least positive f64
    LeastStep,    \* the least positive square f64 can hold
    LeastNormal,  \* the least square with all its digits
    Overflow      \* largest sum of squares that is finite

ASSUME CanonicalAssumption ==
    /\ {Fine, PositionScale, VelocityScale, IMax} \subseteq Nat \ {0}
    /\ Scale \in Nat /\ Scale > 1 /\ Grid \in Nat /\ Grid > Scale
    /\ Tiny \in Nat /\ Tiny > Scale
    /\ LeastStep \in Nat \ {0} /\ LeastNormal \in Nat /\ Overflow \in Nat
    /\ \A o \in Observations :
          /\ o = [position |-> o.position, velocity |-> o.velocity, attitude |-> o.attitude]
          /\ o.position \in [1..3 -> Int \cup NotFinite]
          /\ o.velocity \in [1..3 -> Int \cup NotFinite]
          /\ o.attitude \in [1..4 -> Int \cup NotFinite]

VARIABLES
    raw,      \* the observation
    stage,    \* "raw", "refused", "canonical" or "again"
    value     \* the canonical state, once there is one

vars == <<raw, stage, value>>

Axes == 1..4

Init ==
    /\ raw \in Observations
    /\ stage = "raw"
    /\ value = << >>

-----------------------------------------------------------------------------
(* round_ties_even of a rational num / den, den > 0.                        *)
RoundedEven(num, den) ==
    LET floor == num \div den
        twice == 2 * (num % den)
    IN  IF twice > den \/ (twice = den /\ floor % 2 = 1) THEN floor + 1 ELSE floor

(* A square as f64 holds it, and the sum of four: norm without its root.    *)
Squared(w) ==
    IF w * w >= LeastNormal THEN w * w
    ELSE LeastStep * RoundedEven(w * w, LeastStep)

SquareNorm(q) == Squared(q[1]) + Squared(q[2]) + Squared(q[3]) + Squared(q[4])

(* What canonicalize rejects: any field that is not finite, and an attitude *)
(* without direction.  The root of the least positive f64 is far above      *)
(* MIN_POSITIVE, so only a sum of zero is rejected.                         *)
Valid(o) ==
    (Range(o.position) \cup Range(o.velocity) \cup Range(o.attitude))
        \cap NotFinite = {}
Normal(q) == SquareNorm(q) > 0

(* q / norm, as a vector over the square of its length; a quotient too      *)
(* small is zero, and so is every quotient by an infinite norm.             *)
Vanishes(w, square) == (w * Tiny) * (w * Tiny) <= square

Normalised(q) ==
    IF SquareNorm(q) <= Overflow
    THEN [vector |-> [a \in Axes |-> IF Vanishes(q[a], SquareNorm(q)) THEN 0 ELSE q[a]],
          square |-> SquareNorm(q)]
    ELSE [vector |-> [a \in Axes |-> 0], square |-> 1]

(* Hemisphere: the first component that is not zero decides; zeros count as *)
(* negative.  Fault: only the scalar part decides.                          *)
Sign_ScalarOnly(v) == IF v[1] < 0 THEN -1 ELSE 1
Sign(v) ==
    LET nonzero == {a \in Axes : v[a] # 0}
    IN  IF nonzero # {} /\ v[Min(nonzero)] > 0 THEN 1 ELSE -1

(* The cast to i64.  Fault: it wraps.                                       *)
Saturated_Wraps(i) == ((i + IMax + 1) % (2 * (IMax + 1))) - (IMax + 1)
Saturated(i) ==
    IF i > IMax THEN IMax ELSE IF i < -IMax - 1 THEN -IMax - 1 ELSE i

(* quantize of lengths.                                                     *)
Quantize(lengths, scale) ==
    [a \in DOMAIN lengths |-> Saturated(RoundedEven(lengths[a] * scale, Fine))]

(* quantize(w / sqrt(square), Scale): the integer nearest to it, an even    *)
(* one on a tie, found among those the size of w allows.                    *)
Abs(i) == IF i < 0 THEN -i ELSE i

Quantised(w, square) ==
    LET exact2 == 4 * Scale * Scale * w * w      \* (2 * Scale * w)^2
        size == CHOOSE k \in 0..(Scale * Abs(w)) :
                  /\ k > 0 => \/ (2 * k - 1) * (2 * k - 1) * square < exact2
                              \/ /\ (2 * k - 1) * (2 * k - 1) * square = exact2
                                 /\ k % 2 = 0
                  /\ \/ (2 * k + 1) * (2 * k + 1) * square > exact2
                     \/ /\ (2 * k + 1) * (2 * k + 1) * square = exact2
                        /\ k % 2 = 0
    IN  IF w < 0 THEN -size ELSE size

-----------------------------------------------------------------------------
(* Quaternion::canonicalized, and to_canonical in a release build.          *)
Canonicalized(q) ==
    LET unit == Normalised(q)
    IN  [unit EXCEPT !.vector = [a \in Axes |-> Sign(unit.vector) * unit.vector[a]]]

ToCanonical(unit) == [a \in Axes |-> Quantised(unit.vector[a], unit.square)]

CanonicalState(o) ==
    [position |-> Quantize(o.position, PositionScale),
     velocity |-> Quantize(o.velocity, VelocityScale),
     attitude |-> ToCanonical(Canonicalized(o.attitude))]

Refuse ==
    /\ stage = "raw"
    /\ Valid(raw) => ~Normal(raw.attitude)
    /\ stage' = "refused"
    /\ UNCHANGED <<raw, value>>

Canonicalize ==
    /\ stage = "raw"
    /\ Valid(raw) /\ Normal(raw.attitude)
    /\ stage' = "canonical"
    /\ value' = CanonicalState(raw)
    /\ UNCHANGED raw

(* CanonicalState::recanonicalize: the attitude to f64 and back to          *)
(* integers, not normalised.  Fault: it is normalised again.                *)
Requantised_Normalised(c) == ToCanonical(Canonicalized(c))
Requantised(c) ==
    [a \in Axes |-> RoundedEven(RoundedEven(c[a] * Grid, Scale) * Scale, Grid)]

Recanonicalize ==
    /\ stage = "canonical"
    /\ stage' = "again"
    /\ value' = [value EXCEPT !.attitude = Requantised(@)]
    /\ UNCHANGED raw

Next == Refuse \/ Canonicalize \/ Recanonicalize

Spec == Init /\ [][Next]_vars

-----------------------------------------------------------------------------
(* "Values overflowing i64 are saturated deterministically rather than      *)
(* wrapping", and S02's resolution: a canonical length is within half a     *)
(* step of the observed one, or both lie at or beyond the same end of i64.  *)
(* So observations share a position, and identity, only if less than a step *)
(* or the range of i64 parts them.                                          *)
Faithful(length, scale, c) ==
    LET twice == 2 * (length * scale - c * Fine)
    IN  \/ -Fine <= twice /\ twice <= Fine
        \/ c = IMax /\ twice > 0
        \/ c = -IMax - 1 /\ twice < 0

ErrorWithinHalfStep ==
    stage \in {"canonical", "again"} =>
        \A a \in 1..3 :
            /\ Faithful(raw.position[a], PositionScale, value.position[a])
            /\ Faithful(raw.velocity[a], VelocityScale, value.velocity[a])

(* Invariants 1 and 3, "C(q) == C(-q)": whatever is accepted is accepted    *)
(* with the opposite sign too and gets the same canonical form, hence the   *)
(* same evidence identity, also where squares underflow or overflow.  So do *)
(* its double and the opposite of that, f64 doubling every intermediate     *)
(* result exactly, but only where all squares have all their digits.        *)
Represented(q) ==
    /\ SquareNorm(q) <= Overflow
    /\ \A a \in Axes : q[a] # 0 => q[a] * q[a] >= LeastNormal

SameRotationSameIdentity ==
    stage = "canonical" =>
        \A k \in {-2, -1, 2} :
            LET multiple == [a \in Axes |-> k * raw.attitude[a]]
            IN  k = -1 \/ (Represented(raw.attitude) /\ Represented(multiple)) =>
                    /\ Normal(multiple)
                    /\ CanonicalState([raw EXCEPT !.attitude = multiple]) = value

(* Invariant 2: canonicalising a canonical state again changes nothing,     *)
(* though the quantised quaternion is not of norm one.                      *)
RecanonicalizeIsIdentity ==
    [][stage = "canonical" => value' = value]_vars

(* The docs promise a "quantized quaternion in canonical hemisphere".  The  *)
(* sign is chosen before rounding, and what the code keeps is this: the     *)
(* first component that is not zero is positive, unless a component that    *)
(* stood before it, and decided, was rounded to zero; all are zero only     *)
(* where the squares overflowed.                                            *)
HemisphereUpToRounding ==
    stage = "canonical" =>
        LET nonzero == {a \in Axes : value.attitude[a] # 0}
        IN  IF nonzero = {} THEN SquareNorm(raw.attitude) > Overflow
            ELSE \/ value.attitude[Min(nonzero)] > 0
                 \/ \E a \in Axes : a < Min(nonzero) /\ raw.attitude[a] # 0
=============================================================================
