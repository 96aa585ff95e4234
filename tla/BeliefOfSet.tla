---------------------------- MODULE BeliefOfSet ----------------------------
(***************************************************************************)
(* What the belief engine promises (invariants 8, 9 and 13 of              *)
(* specs/seven.toml), without saying how: per subject there is a growing   *)
(* set of independent observations, and the posterior is a function of     *)
(* that SET.  No order of arrival, no repetition and no relay appears in   *)
(* the state, so none can matter.                                          *)
(*                                                                         *)
(* The posterior is the textbook one for n measurements of variance r over *)
(* a zero-mean prior of variance v:  var = v*r / (r + n*v)  and            *)
(* mean = v*sum / (r + n*v): two numerators over one denominator.          *)
(***************************************************************************)
EXTENDS Integers, FiniteSets, FiniteSetsExt

CONSTANTS Subjects, Observations, Dims, PriorVar, Noise,
          ValueOf,     \* [Dims -> [Observations -> Int]]
          NoBelief

VARIABLES
    observed,    \* [Subjects -> set of independent observations]
    posterior    \* [Subjects -> posterior of that set, or NoBelief]

vars == <<observed, posterior>>

SumOver(v, S) == MapThenSumSet(LAMBDA x : v[x], S)

PosteriorOf(S) ==
    [over    |-> [d \in Dims |-> Noise[d] + Cardinality(S) * PriorVar],
     mean    |-> [d \in Dims |-> PriorVar * SumOver(ValueOf[d], S)],
     var     |-> [d \in Dims |-> PriorVar * Noise[d]],
     updates |-> Cardinality(Dims) * Cardinality(S)]

Init ==
    /\ observed  = [s \in Subjects |-> {}]
    /\ posterior = [s \in Subjects |-> NoBelief]

Observe(s, o) ==
    /\ o \notin observed[s]
    /\ observed'  = [observed EXCEPT ![s] = @ \cup {o}]
    /\ posterior' = [posterior EXCEPT ![s] = PosteriorOf(observed[s] \cup {o})]

Next == \E s \in Subjects, o \in Observations : Observe(s, o)

Spec == Init /\ [][Next]_vars
=============================================================================
