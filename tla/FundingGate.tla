----------------------------- MODULE FundingGate -----------------------------
(***************************************************************************)
(* funding_guard.py and funding_attest.py: what may stand for the interval *)
(* at which a leg settles its funding, and what is taken for a proof of    *)
(* the one Lighter never publishes.  Pure; LiveGate is what the engine and *)
(* the operator do with it.                                                *)
(*                                                                         *)
(* Intervals and times are counted in one unit; an interval is None when   *)
(* the venue's row does not have it.                                       *)
(***************************************************************************)
EXTENDS Integers, Sequences, FiniteSets

CONSTANTS None,         \* no interval, no attestation
          Expected,     \* expected_lighter_funding_interval_s
          Tolerance,    \* funding_cadence_tolerance_pct, in percent
          MinSamples,   \* funding_min_samples
          AmountTol,    \* funding_amount_tolerance_pct, in percent
          Validity,     \* funding_attestation_validity_s
          VarExpected,  \* expected_variational_funding_interval_s
          VarSwap,      \* the Variational leg is declared a swap
          LitSwap,      \* the Lighter leg is
          Streams,      \* bound: timestamps of the rows of funding_history
          Ratios        \* bound: amount over rate x size x mark, in percent

ASSUME FundingAssumption ==
    /\ Expected \in Nat \ {0}
    /\ Tolerance \in Nat
    /\ MinSamples \in Nat
    /\ Validity \in Nat \ {0}
    /\ Streams \subseteq Seq(Nat)
    /\ Ratios \subseteq Seq(Nat)
    /\ None \notin Int

\* The element at n \div 2 of the n values of f, sorted: the one member of this
\* set, which is empty where f has no values.
Medians(f) ==
    LET S == DOMAIN f
    IN  {m \in {f[i] : i \in S} :
            /\ Cardinality({i \in S : f[i] < m}) <= Cardinality(S) \div 2
            /\ Cardinality({i \in S : f[i] <= m}) > Cardinality(S) \div 2}

(***************************************************************************)
(* validate_settlements, on the timestamps of the rows, in any order.      *)
(***************************************************************************)
Samples(rows) == Cardinality({i \in DOMAIN rows : rows[i] > 0})
Times(rows) == {rows[i] : i \in DOMAIN rows} \ {0}

\* Positive gaps of consecutive settlements: a time that is listed twice has
\* a gap of zero behind it, which is dropped.
Gaps(rows) ==
    LET T == Times(rows)
        Next(t) == CHOOSE u \in T : u > t /\ \A w \in T : w > t => u <= w
    IN  [t \in {t \in T : \E u \in T : u > t} |-> Next(t) - t]

\* Within funding_cadence_tolerance_pct of the interval the operator expects.
InTolerance(gap) ==
    /\ 100 * gap >= Expected * (100 - Tolerance)
    /\ 100 * gap <= Expected * (100 + Tolerance)

\* Mutant: the longest gap there is stands for the cadence.
LongestGap(rows) ==
    LET g == Gaps(rows)
    IN  IF Samples(rows) >= MinSamples
        THEN {m \in {g[t] : t \in DOMAIN g} : InTolerance(m) /\ \A t \in DOMAIN g : g[t] <= m}
        ELSE {}

\* The cadences a stream proves: one, or none.
Proven(rows) ==
    IF Samples(rows) >= MinSamples THEN {m \in Medians(Gaps(rows)) : InTolerance(m)} ELSE {}

\* What an accepted cadence is a proof of, without its median: of the gaps no
\* majority is too short and no majority too long, so that a wrong cadence is
\* not turned into the right one by a few outliers (a missed settlement, a row
\* listed twice).
Regular(rows) ==
    LET g == Gaps(rows)
        good == {t \in DOMAIN g : InTolerance(g[t])}
        short == {t \in DOMAIN g \ good : g[t] < Expected}
        long == {t \in DOMAIN g \ good : g[t] > Expected}
    IN  /\ Samples(rows) >= MinSamples
        /\ DOMAIN g # {}
        /\ 2 * Cardinality(short) <= Cardinality(DOMAIN g)
        /\ 2 * Cardinality(long) <= Cardinality(DOMAIN g)

\* amount_self_consistent: rows that cannot be checked are not a failure.
AmountsConsistent(ratios) ==
    \/ ratios = <<>>
    \/ Medians(ratios) \cap (100 - AmountTol .. 100 + AmountTol) # {}

(***************************************************************************)
(* Attestations.                                                           *)
(***************************************************************************)
Attestation(interval, now) == [interval |-> interval, expires |-> now + Validity]

\* Mutant: an attestation is good for ever.
NeverExpires(att, now) == IF att # None THEN att.interval ELSE None

\* valid_attestation, and the interval it stands for.
AttestedInterval(att, now) ==
    IF att # None /\ att.interval > 0 /\ att.expires > now THEN att.interval ELSE None

(***************************************************************************)
(* verify_units.                                                           *)
(***************************************************************************)
\* A published interval comes first, the attested one in its place.
LighterInterval(published, attested) ==
    IF published = None THEN attested ELSE published

PerpVerified(interval, expected) ==
    interval # None /\ interval > 0 /\ interval = expected

UnitsVerified(varPublished, published, attested) ==
    /\ VarSwap \/ PerpVerified(varPublished, VarExpected)
    /\ LitSwap \/ PerpVerified(LighterInterval(published, attested), Expected)

===============================================================================
