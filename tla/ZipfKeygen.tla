------------------------------- MODULE ZipfKeygen -------------------------------
(***************************************************************************)
(* zipf_keygen.hpp: random keys 1 .. universe, the key i with a            *)
(* probability proportional to its weight 1 / i^exp.  The sums of the      *)
(* weights are computed in advance, and a key is found by searching in     *)
(* them for a random number.                                               *)
(*                                                                         *)
(* Sums and random numbers are integers here; what matters is how they     *)
(* compare.  For a large exp the weights become so small that adding one   *)
(* to a double changes nothing: a weight may be 0.                         *)
(***************************************************************************)
EXTENDS Naturals

CONSTANTS
  MaxUniverse,   \* bound: the number of keys
  MaxFastSteps,  \* the keys that are tried one by one, 100
  MaxWeight,     \* bound: a weight
  NoKey

VARIABLES
  universe,   \* _universe
  fastSteps,  \* _fast_steps
  precomp,    \* _precomp
  t_p,        \* the random number
  l, r,       \* what the binary search has left
  key         \* what generate has returned

vars == <<universe, fastSteps, precomp, t_p, l, r, key>>

(* The default constructor: no keys.                                       *)
Init ==
  /\ universe = 0
  /\ fastSteps = 0
  /\ precomp = [i \in {0} |-> 0]
  /\ t_p = 0
  /\ l = 0 /\ r = 0
  /\ key = NoKey

MinOf(m, n) == IF m < n THEN m ELSE n

(* Positive for the first key, and never increasing.                       *)
Weights(u) ==
  {w \in [1 .. u -> 0 .. MaxWeight] :
     w[1] > 0 /\ \A i \in 2 .. u : w[i] <= w[i - 1]}

Sums(u, w) ==
  LET sum[i \in 0 .. u] == IF i = 0 THEN 0 ELSE sum[i - 1] + w[i]
  IN  sum

Searching == r > 0

------------------------------------------------------------------------------
(* Plausible bugs, each substituted for the definition it varies.          *)

FoundLater == l
StillWideAtOne == l < r

------------------------------------------------------------------------------
Initialize(u, w) ==
  /\ ~Searching
  /\ universe' = u
  /\ fastSteps' = MinOf(u, MaxFastSteps)
  /\ precomp' = Sums(u, w)
  /\ key' = NoKey
  /\ t_p' = 0
  /\ UNCHANGED <<l, r>>

FastKey(x) ==
  CHOOSE i \in 1 .. fastSteps :
    precomp[i] >= x /\ \A j \in 1 .. (i - 1) : precomp[j] < x

(* generate, for a random number x; the generate for many keys does the    *)
(* same for each of them.  The first keys are tried one by one.            *)
GenerateFast(x) ==
  /\ ~Searching /\ universe > 0
  /\ precomp[fastSteps] >= x
  /\ t_p' = x
  /\ key' = FastKey(x)
  /\ UNCHANGED <<universe, fastSteps, precomp, l, r>>

Generate(x) ==
  /\ ~Searching /\ universe > 0
  /\ precomp[fastSteps] < x
  /\ t_p' = x
  /\ key' = NoKey
  /\ l' = 0 /\ r' = universe
  /\ UNCHANGED <<universe, fastSteps, precomp>>

Middle == (r + l) \div 2
StillWide == l < r - 1

Halve ==
  /\ Searching /\ StillWide
  /\ IF precomp[Middle] > t_p
     THEN r' = Middle /\ UNCHANGED l
     ELSE l' = Middle /\ UNCHANGED r
  /\ UNCHANGED <<universe, fastSteps, precomp, t_p, key>>

Found == l + 1

Return ==
  /\ Searching /\ ~StillWide
  /\ key' = Found
  /\ l' = 0 /\ r' = 0
  /\ UNCHANGED <<universe, fastSteps, precomp, t_p>>

Next ==
  \/ \E u \in 1 .. MaxUniverse : \E w \in Weights(u) : Initialize(u, w)
  \/ \E x \in 0 .. precomp[universe] : GenerateFast(x) \/ Generate(x)
  \/ Halve \/ Return

Spec == Init /\ [][Next]_vars

------------------------------------------------------------------------------
(* Properties.                                                             *)

TypeOK ==
  /\ universe \in 0 .. MaxUniverse
  /\ fastSteps \in 0 .. universe
  /\ precomp \in [0 .. universe -> Nat]
  /\ t_p \in Nat
  /\ l \in 0 .. universe /\ r \in 0 .. universe
  /\ key \in (1 .. universe) \cup {NoKey}

(* The key that generate returns exists, and the random number lies in its *)
(* part of the sums: so each key has the probability that its weight gives *)
(* it, also where the one-by-one and the binary search meet, and at both   *)
(* ends of the table.                                                      *)
KeyFitsNumber ==
  /\ TypeOK
  /\ key # NoKey => precomp[key - 1] <= t_p /\ t_p <= precomp[key]

(* A search keeps the number between the sums at its two ends, and while   *)
(* it goes on its middle lies between them, so that it ends: also where    *)
(* weights are 0, and in tables of one key or two.                         *)
SearchConverges ==
  Searching =>
    /\ precomp[l] <= t_p /\ t_p <= precomp[r]
    /\ StillWide => l < Middle /\ Middle < r

(* The inductive invariant: the sums begin with 0, some key is tried on    *)
(* its own, and a search still has two different ends.                     *)
IndInv ==
  /\ KeyFitsNumber /\ SearchConverges
  /\ precomp[0] = 0
  /\ universe > 0 => fastSteps > 0
  /\ IF Searching THEN l < r ELSE l = 0
==============================================================================
