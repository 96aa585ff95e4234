------------------------------ MODULE Gaussian ------------------------------
(***************************************************************************)
(* GaussianBelief of crate seven-belief: the diagonal linear-Gaussian      *)
(* track, its per-dimension conjugate update and the innovation test of    *)
(* decision 0004.  The program computes in f64; here every mean and        *)
(* variance is an exact rational, a numerator over a positive denominator, *)
(* so what the runs show of values holds up to f64 rounding.               *)
(*                                                                         *)
(* An operator Op_Name is Op with a plausible programming fault: a mutant  *)
(* used to show that some checked property would notice it.  The same      *)
(* convention holds in every module.                                       *)
(*                                                                         *)
(* The six dimensions and the constants 1e9, 25 and 1 of the source are    *)
(* parameters: nothing below depends on their values.                      *)
(***************************************************************************)
EXTENDS Integers, FiniteSets

CONSTANTS
    Dims,           \* the dimensions of a track: position and velocity axes
    PriorVar,       \* variance of the uninformative prior
    Noise,          \* [Dims -> measurement variance]: MEAS_VAR_POS / _VEL
    ConflictSigma,  \* CONFLICT_SIGMA
    Measured        \* [payload -> [Dims -> measurement]], for those that decode

PosInt == Nat \ {0}

ASSUME GaussianAssumption ==
    /\ IsFiniteSet(Dims)
    /\ PriorVar \in PosInt
    /\ Noise \in [Dims -> PosInt]
    /\ ConflictSigma \in PosInt
    /\ \A p \in DOMAIN Measured : Measured[p] \in [Dims -> Int]

-----------------------------------------------------------------------------
Rat(n, d) == [num |-> n, den |-> d]

Rationals  == [num : Int, den : PosInt]
PosRationals == [num : PosInt, den : PosInt]

Track == [mean : [Dims -> Rationals],
          var  : [Dims -> PosRationals],
          independent_updates : Nat]

Uninformative ==
    [mean |-> [d \in Dims |-> Rat(0, 1)],
     var  |-> [d \in Dims |-> Rat(PriorVar, 1)],
     independent_updates |-> 0]

(* update_dim with gain k = v / (v + r):                                    *)
(*   mean + k * (m - mean)   and   v * (1 - k) = v * r / (v + r).           *)
(* Fault: a fixed gain of one half.                                         *)
MeanAfter_FixedGain(mean, v, r, m) ==
    Rat(mean.num + m * mean.den, 2 * mean.den)

MeanAfter(mean, v, r, m) ==
    Rat(mean.num * (r * v.den) + v.num * m * mean.den,
        mean.den * (v.num + r * v.den))

(* Fault: k = v / r.                                                        *)
VarAfter_GainOverNoise(v, r) ==
    Rat(v.num * (r * v.den - v.num), v.den * v.den * r)

VarAfter(v, r) == Rat(v.num * r, v.num + r * v.den)

(* The loop over the six dimensions; each call of update_dim counts one.    *)
Updated(track, m) ==
    [mean |-> [d \in Dims |->
                 MeanAfter(track.mean[d], track.var[d], Noise[d], m[d])],
     var  |-> [d \in Dims |-> VarAfter(track.var[d], Noise[d])],
     independent_updates |-> track.independent_updates + Cardinality(Dims)]

(* Some |m - mean| exceeds ConflictSigma * sqrt(var + r); both sides are    *)
(* squared and cleared of denominators.                                     *)
Disagrees(track, m) ==
    \E d \in Dims :
        LET a == track.mean[d]
            v == track.var[d]
            gap == m[d] * a.den - a.num
        IN  gap * gap * v.den
              > ConflictSigma * ConflictSigma * (v.num + Noise[d] * v.den)
                  * a.den * a.den
=============================================================================
