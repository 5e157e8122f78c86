---------------------------- MODULE LiveGate_proofs ----------------------------
(***************************************************************************)
(* What TLAPS proves of the funding gate and of the file it is kept in,    *)
(* for every interval, tolerance, validity and stream of settlements, and  *)
(* for any number of commands, restarts and lines.                         *)
(***************************************************************************)
EXTENDS LiveGate, FiniteSetTheorems, WellFoundedInduction, TLAPS

LEMMA TimesFinite ==
    ASSUME NEW rows \in Seq(Nat)
    PROVE  IsFiniteSet(Times(rows)) /\ Times(rows) \subseteq Nat
<1> DEFINE T == {rows[i] : i \in DOMAIN rows}
<1>1. rows \in Surjection(1 .. Len(rows), T)
  BY SMT DEF Surjection
<1>2. IsFiniteSet(1 .. Len(rows))
  BY FS_Interval, SMT
<1>3. IsFiniteSet(T)
  BY <1>1, <1>2, FS_Surjection, Zenon
<1>4. Times(rows) \in SUBSET T
  BY Zenon DEF Times
<1>5. T \subseteq Nat
  BY SMT
<1> QED
  BY <1>3, <1>4, <1>5, FS_Subset, Zenon

\* A set of times that is not empty has a first.
LEMMA Earliest ==
    ASSUME NEW T \in SUBSET Nat, T # {}
    PROVE  \E u \in T : \A w \in T : u <= w
<1> DEFINE R == OpToRel(<, Nat)
<1>1. PICK u \in T : \A w \in T : <<w, u>> \notin R
  <2>1. IsWellFoundedOn(R, Nat)
    BY NatLessThanWellFounded, Zenon
  <2> QED
    BY <2>1, WFMin, Zenon
<1>2. ASSUME NEW w \in T PROVE u <= w
  <2>1. ~(w < u)
    <3>1. R = {ss \in Nat \X Nat : ss[1] < ss[2]}
      BY Zenon DEF OpToRel
    <3>2. <<w, u>> \in Nat \X Nat
      BY Zenon
    <3>3. w < u => <<w, u>> \in {ss \in Nat \X Nat : ss[1] < ss[2]}
      BY <3>2, SMT
    <3> HIDE DEF R
    <3> QED
      BY <1>1, <3>1, <3>3, Zenon
  <2> QED
    BY <2>1, SMT
<1> QED
  BY <1>2

\* The gap behind a settlement that is not the last is a number.
LEMMA GapsTyped ==
    ASSUME NEW rows \in Seq(Nat)
    PROVE  /\ IsFiniteSet(DOMAIN Gaps(rows))
           /\ \A t \in DOMAIN Gaps(rows) : Gaps(rows)[t] \in Nat
<1> DEFINE T == Times(rows)
           D == {t \in T : \E u \in T : u > t}
           After(t) == CHOOSE u \in T : u > t /\ \A w \in T : w > t => u <= w
<1>1. DOMAIN Gaps(rows) = D /\ \A t \in D : Gaps(rows)[t] = After(t) - t
  BY Zenon DEF Gaps
<1>2. IsFiniteSet(D)
  <2>1. D \in SUBSET T
    OBVIOUS
  <2> QED
    BY <2>1, TimesFinite, FS_Subset, Zenon
<1>3. ASSUME NEW t \in D PROVE After(t) - t \in Nat
  <2> DEFINE L == {u \in T : u > t}
  <2>1. T \subseteq Nat
    BY TimesFinite, Zenon
  <2>2. L \in SUBSET Nat /\ L # {}
    BY <2>1, Zenon
  <2>3. \E u \in L : \A w \in L : u <= w
    BY <2>2, Earliest, Zenon
  <2>4. \E u \in T : u > t /\ \A w \in T : w > t => u <= w
    BY <2>3, Zenon
  <2>5. After(t) \in T /\ After(t) > t
    BY <2>4, Zenon
  <2> HIDE DEF After
  <2> QED
    BY <2>1, <2>5, SMT
<1> QED
  BY <1>1, <1>2, <1>3, Zenon

\* The two ends of the tolerance lie around the interval.
LEMMA ToleranceEnds ==
    ASSUME FundingAssumption
    PROVE  /\ Expected * (100 - Tolerance) \in Int
           /\ Expected * (100 + Tolerance) \in Int
           /\ Expected * (100 - Tolerance) <= 100 * Expected
           /\ 100 * Expected <= Expected * (100 + Tolerance)
<1>1. Expected \in Nat /\ Tolerance \in Nat
  BY Zenon DEF FundingAssumption
<1> DEFINE slack == Expected * Tolerance
<1>2. slack \in Nat
  BY <1>1, SMT
<1>3. Expected * (100 - Tolerance) = 100 * Expected - slack
      /\ Expected * (100 + Tolerance) = 100 * Expected + slack
  BY <1>1, SMT
<1> HIDE DEF slack
<1> QED
  BY <1>1, <1>2, <1>3, SMT

\* Half of the values at most lie on either side of a median.
LEMMA MedianHalves ==
    ASSUME NEW f, IsFiniteSet(DOMAIN f), \A i \in DOMAIN f : f[i] \in Int,
           NEW m \in Medians(f)
    PROVE  /\ m \in Int
           /\ 2 * Cardinality({i \in DOMAIN f : f[i] < m}) <= Cardinality(DOMAIN f)
           /\ 2 * Cardinality({i \in DOMAIN f : f[i] > m}) <= Cardinality(DOMAIN f)
<1> DEFINE S == DOMAIN f
           below == {i \in S : f[i] < m}
           upto == {i \in S : f[i] <= m}
           above == {i \in S : f[i] > m}
<1>1. /\ m \in {f[i] : i \in S}
      /\ Cardinality(below) <= Cardinality(S) \div 2
      /\ Cardinality(upto) > Cardinality(S) \div 2
  BY Zenon DEF Medians
<1>2. m \in Int
  BY <1>1, Zenon
<1>3. Cardinality(S) \in Nat /\ Cardinality(below) \in Nat /\ Cardinality(upto) \in Nat
  <2>1. below \in SUBSET S /\ upto \in SUBSET S
    OBVIOUS
  <2> QED
    BY <2>1, FS_Subset, FS_CardinalityType, Zenon
<1>4. Cardinality(above) = Cardinality(S) - Cardinality(upto)
  <2>1. above = S \ upto
    BY <1>2, SMT
  <2>2. S \cap upto = upto
    OBVIOUS
  <2> HIDE DEF S, upto, above
  <2> QED
    BY <2>1, <2>2, FS_Difference, Zenon DEF S
<1> HIDE DEF S, below, upto, above
<1>5. 2 * Cardinality(below) <= Cardinality(S)
  BY <1>1, <1>3, SMT
<1>6. 2 * Cardinality(above) <= Cardinality(S)
  BY <1>1, <1>3, <1>4, SMT
<1> QED
  BY <1>2, <1>5, <1>6, Zenon DEF S, below, above

\* A cadence that is accepted is that of the stream: of the gaps between its
\* settlements no majority is too short, and no majority too long, whatever
\* rows are missing or listed twice (validate_settlements).
THEOREM ProvenIsRegular ==
    ASSUME NEW rows \in Streams, Proven(rows) # {}
    PROVE  Regular(rows)
<1> DEFINE g == Gaps(rows)
           good == {t \in DOMAIN g : InTolerance(g[t])}
           short == {t \in DOMAIN g \ good : g[t] < Expected}
           long == {t \in DOMAIN g \ good : g[t] > Expected}
<1>1. rows \in Seq(Nat)
  BY FundingAssumption, Zenon DEF FundingAssumption
<1>2. IsFiniteSet(DOMAIN g) /\ \A t \in DOMAIN g : g[t] \in Int
  <2>1. IsFiniteSet(DOMAIN g) /\ \A t \in DOMAIN g : g[t] \in Nat
    BY <1>1, GapsTyped, Zenon
  <2>2. Nat \subseteq Int
    BY SMT
  <2> QED
    BY <2>1, <2>2, Zenon
<1>3. PICK m \in Medians(g) : InTolerance(m) /\ Samples(rows) >= MinSamples
  BY Zenon DEF Proven
<1>4. /\ m \in Int
      /\ 2 * Cardinality({t \in DOMAIN g : g[t] < m}) <= Cardinality(DOMAIN g)
      /\ 2 * Cardinality({t \in DOMAIN g : g[t] > m}) <= Cardinality(DOMAIN g)
  BY <1>2, MedianHalves, Zenon
<1>5. DOMAIN g # {}
  BY <1>3, Zenon DEF Medians
<1> HIDE DEF g
<1>6. short \in SUBSET {t \in DOMAIN g : g[t] < m}
  <2> SUFFICES ASSUME NEW t \in DOMAIN g, ~InTolerance(g[t]), g[t] < Expected
               PROVE  g[t] < m
    BY Zenon
  <2> QED
    BY <1>2, <1>3, <1>4, FundingAssumption, ToleranceEnds, SMT
       DEF InTolerance, FundingAssumption
<1>7. long \in SUBSET {t \in DOMAIN g : g[t] > m}
  <2> SUFFICES ASSUME NEW t \in DOMAIN g, ~InTolerance(g[t]), g[t] > Expected
               PROVE  g[t] > m
    BY Zenon
  <2> QED
    BY <1>2, <1>3, <1>4, FundingAssumption, ToleranceEnds, SMT
       DEF InTolerance, FundingAssumption
<1>8. 2 * Cardinality(short) <= Cardinality(DOMAIN g)
      /\ 2 * Cardinality(long) <= Cardinality(DOMAIN g)
  <2> DEFINE below == {t \in DOMAIN g : g[t] < m}
             above == {t \in DOMAIN g : g[t] > m}
  <2>1. IsFiniteSet(below) /\ IsFiniteSet(above)
    <3>1. below \in SUBSET DOMAIN g /\ above \in SUBSET DOMAIN g
      OBVIOUS
    <3> QED
      BY <1>2, <3>1, FS_Subset, Zenon
  <2>2. short \in SUBSET below /\ long \in SUBSET above
    BY <1>6, <1>7
  <2> HIDE DEF short, long, below, above
  <2>3. Cardinality(short) <= Cardinality(below) /\ Cardinality(long) <= Cardinality(above)
    BY <2>1, <2>2, FS_Subset, Zenon
  <2>4. {Cardinality(short), Cardinality(long), Cardinality(below), Cardinality(above),
         Cardinality(DOMAIN g)} \subseteq Nat
    BY <1>2, <2>1, <2>2, FS_Subset, FS_CardinalityType, Zenon
  <2>5. 2 * Cardinality(below) <= Cardinality(DOMAIN g)
        /\ 2 * Cardinality(above) <= Cardinality(DOMAIN g)
    BY <1>4, Zenon DEF below, above
  <2> QED
    BY <2>3, <2>4, <2>5, SMT
<1> QED
  BY <1>3, <1>5, <1>8, Zenon DEF Regular, g

-----------------------------------------------------------------------------
(***************************************************************************)
(* Every attestation there is, in either process's copy, in the file or in *)
(* a half finished save of it, lies within the validity of settlements     *)
(* that were regular.                                                      *)
(***************************************************************************)
Backed(a) ==
    a # None => /\ a.expires \in Nat
                /\ proved # None
                /\ a.expires <= proved + Validity

IsCopy(c) == c = [mode |-> c.mode, halt |-> c.halt, att |-> c.att]
BackedCopy(c) == IsCopy(c) /\ Backed(c.att)

Clock ==
    /\ now \in Nat
    /\ proved \in Nat \cup {None}
    /\ proved # None => proved <= now

ProofInv ==
    /\ Clock
    /\ Backed(att)
    /\ BackedCopy(own)
    /\ BackedCopy(Load(file))
    /\ BackedCopy(Load(tmp))

LEMMA EmptyIsBacked == BackedCopy(EmptyState) /\ BackedCopy(EmptyState)'
BY SMT DEF BackedCopy, IsCopy, Backed, EmptyState

\* What is in memory can be saved.
LEMMA MineIsBacked ==
    ASSUME ProofInv, NEW p \in Process
    PROVE  BackedCopy(Mine(p))
<1>1. CASE p = "engine"
  <2> DEFINE c == [mode |-> mode, halt |-> halt, att |-> att]
  <2>1. Mine(p) = c
    BY <1>1, Zenon DEF Mine
  <2>2. c.mode = mode /\ c.halt = halt /\ c.att = att
    BY Zenon
  <2>3. IsCopy(c) /\ Backed(c.att)
    BY <2>2, Zenon DEF IsCopy, ProofInv
  <2> QED
    BY <2>1, <2>3, Zenon DEF BackedCopy
<1>2. CASE p # "engine"
  BY <1>2, Zenon DEF Mine, ProofInv
<1> QED
  BY <1>1, <1>2

\* A copy that is read back is the one that was written, or an empty one.
LEMMA LoadIsBacked ==
    ASSUME NEW c, BackedCopy(c)
    PROVE  BackedCopy(Load(c))
BY EmptyIsBacked, Zenon DEF Load

LEMMA SaveKeepsProof ==
    ASSUME ProofInv, NEW p \in Process, SaveOpen(p) \/ SaveWrite(p) \/ SaveReplace(p)
    PROVE  BackedCopy(Load(file')) /\ BackedCopy(Load(tmp'))
<1>1. BackedCopy(Load(Torn)) /\ BackedCopy(Load(Absent))
  BY EmptyIsBacked, Zenon DEF Load
<1>2. BackedCopy(Load(Mine(p)))
  BY MineIsBacked, LoadIsBacked, Zenon
<1>3. file' \in {file, tmp, Mine(p)} /\ tmp' \in {tmp, Torn, Absent, Mine(p)}
  BY Zenon DEF SaveOpen, SaveWrite, SaveReplace
<1> QED
  BY <1>1, <1>2, <1>3, Zenon DEF ProofInv

\* Nothing changes but what a copy holds.
LEMMA SameProof ==
    ASSUME ProofInv, UNCHANGED <<now, proved>>, Backed(att'), BackedCopy(own'),
           BackedCopy(Load(file')), BackedCopy(Load(tmp'))
    PROVE  ProofInv'
BY Zenon DEF ProofInv, Clock, Backed, BackedCopy, IsCopy

LEMMA EngineKeepsProof ==
    ASSUME ProofInv, Engine \/ Down
    PROVE  ProofInv'
<1>1. UNCHANGED <<now, proved, own>>
  BY Zenon DEF Engine, Start, Ask, Arm, Enter, MoveOn, Book, AppendLine, Latch, TickSave, CloseAgain,
     CallReturns, EngineSaves, Down, Steps, Saved, cmdVars, history
<1>2. CASE EngineSaves
  <2>1. SaveOpen("engine") \/ SaveWrite("engine") \/ SaveReplace("engine")
    BY <1>2, Zenon DEF EngineSaves
  <2>2. UNCHANGED att
    BY <1>2, Zenon DEF EngineSaves, copyVars
  <2> QED
    BY <1>1, <2>1, <2>2, SaveKeepsProof, SameProof, Zenon DEF ProofInv, Process
<1>3. CASE ~EngineSaves
  <2>1. UNCHANGED <<file, tmp>>
    BY <1>3, Zenon DEF Engine, Start, Ask, Arm, Enter, MoveOn, Book, AppendLine, Latch, TickSave, CloseAgain,
       CallReturns, Down, Steps, diskVars
  <2>2. att' \in {att, Load(file).att, None}
    BY <1>3, Zenon DEF Engine, Start, Ask, Arm, Enter, MoveOn, Book, AppendLine, Latch, TickSave, CloseAgain,
       CallReturns, Down, Steps
  <2>3. Backed(att')
    BY <2>2, Zenon DEF ProofInv, BackedCopy, Backed
  <2> QED
    BY <1>1, <2>1, <2>3, SameProof, Zenon DEF ProofInv
<1> QED
  BY <1>2, <1>3

\* verify-funding attests what settlements have just proved.
LEMMA VerifyKeepsProof ==
    ASSUME ProofInv, VerifyFunding
    PROVE  ProofInv'
<1>1. PICK rows \in Streams, ratios \in Ratios :
        /\ Edits("verify-funding", [own EXCEPT !.att = Attested(rows, ratios)])
        /\ proved' = IF Regular(rows) /\ AmountsConsistent(ratios) THEN now ELSE proved
  BY Zenon DEF VerifyFunding
<1>2. own' = [own EXCEPT !.att = Attested(rows, ratios)] /\ UNCHANGED <<now, att, file, tmp>>
  BY <1>1, Zenon DEF Edits, Rest, diskVars
<1>3. now \in Nat /\ Validity \in Nat /\ None \notin Int
  BY FundingAssumption, SMT DEF ProofInv, Clock, FundingAssumption
<1>4. Clock' /\ (proved # None => proved' # None /\ proved <= proved')
  BY <1>1, <1>2, <1>3, SMT DEF ProofInv, Clock
<1>5. ASSUME NEW a, Backed(a) PROVE Backed(a)'
  BY <1>3, <1>4, <1>5, SMT DEF Backed, ProofInv, Clock
<1>6. PICK a : a = Attested(rows, ratios)
  OBVIOUS
<1>7. Backed(a)'
  <2>1. CASE ~Proves(rows, ratios)
    BY <2>1, <1>6, Zenon DEF Backed, Attested
  <2>2. CASE Proves(rows, ratios)
    <3>1. a.expires = now + Validity
      BY <1>6, <2>2, SMT DEF Attested, Attestation
    <3>2. proved' = now
      BY <1>1, <2>2, ProvenIsRegular, Zenon DEF Proves
    <3> QED
      BY <1>3, <3>1, <3>2, SMT DEF Backed
  <2> QED
    BY <2>1, <2>2
<1>8. BackedCopy(own)'
  <2>1. own = [mode |-> own.mode, halt |-> own.halt, att |-> own.att]
    BY Zenon DEF ProofInv, BackedCopy, IsCopy
  <2>2. own' = [mode |-> own.mode, halt |-> own.halt, att |-> a]
    BY <1>2, <1>6, <2>1, SMT
  <2>3. own'.mode = own.mode /\ own'.halt = own.halt /\ own'.att = a
    BY <2>2, Zenon
  <2> QED
    BY <1>7, <2>2, <2>3, Zenon DEF BackedCopy, IsCopy, Backed
<1> QED
  BY <1>2, <1>4, <1>5, <1>8, Zenon DEF ProofInv, BackedCopy, IsCopy

\* An edit of a copy that leaves the attestation alone.
LEMMA EditIsBacked ==
    ASSUME BackedCopy(own), own' \in {[own EXCEPT !.halt = FALSE], [own EXCEPT !.mode = "IDLE"], own}
    PROVE  BackedCopy(own')
<1>1. own = [mode |-> own.mode, halt |-> own.halt, att |-> own.att]
  BY Zenon DEF BackedCopy, IsCopy
<1>2. PICK m, h : own' = [mode |-> m, halt |-> h, att |-> own.att]
  <2>1. CASE own' = [own EXCEPT !.halt = FALSE]
    <3>1. ASSUME NEW x
          PROVE  [own EXCEPT !.halt = x] = [mode |-> own.mode, halt |-> x, att |-> own.att]
      BY <1>1, SMT
    <3> QED
      BY <2>1, <3>1, Zenon
  <2>2. CASE own' = [own EXCEPT !.mode = "IDLE"]
    <3>1. own' = [mode |-> "IDLE", halt |-> own.halt, att |-> own.att]
      BY <1>1, <2>2, SMT
    <3> QED
      BY <3>1
  <2>3. CASE own' = own
    BY <1>1, <2>3
  <2> QED
    BY <2>1, <2>2, <2>3
<1>3. own'.mode = m /\ own'.halt = h /\ own'.att = own.att
  BY <1>2, Zenon
<1> QED
  BY <1>2, <1>3, Zenon DEF BackedCopy, IsCopy

LEMMA OperatorKeepsProof ==
    ASSUME ProofInv, Operator
    PROVE  ProofInv'
<1>1. CASE VerifyFunding
  BY <1>1, VerifyKeepsProof
<1>2. CASE (\E c \in Command : Give(c)) \/ Ends \/ BackfillLedger
  <2>1. UNCHANGED <<now, att, proved, file, tmp>>
    BY <1>2, Zenon DEF Give, Ends, BackfillLedger, Rest, diskVars, history
  <2>2. own' \in {Load(file), EmptyState}
    BY <1>2, Zenon DEF Give, Ends, BackfillLedger
  <2>3. BackedCopy(own')
    BY <2>2, EmptyIsBacked, Zenon DEF ProofInv
  <2> QED
    BY <2>1, <2>3, SameProof, Zenon DEF ProofInv
<1>3. CASE ClearHaltCommand \/ ClearCooldown \/ BackfillState
  <2>1. UNCHANGED <<now, att, proved, file, tmp>>
    BY <1>3, Zenon DEF ClearHaltCommand, ClearCooldown, BackfillState, Edits, Rest, diskVars
  <2>2. own' \in {[own EXCEPT !.halt = FALSE], [own EXCEPT !.mode = "IDLE"], own}
    BY <1>3, Zenon DEF ClearHaltCommand, ClearCooldown, BackfillState, Edits
  <2>3. BackedCopy(own')
    BY <2>2, EditIsBacked, Zenon DEF ProofInv
  <2> QED
    BY <2>1, <2>3, SameProof, Zenon DEF ProofInv
<1>4. CASE CommandSaves
  <2>1. SaveOpen("command") \/ SaveWrite("command") \/ SaveReplace("command")
    BY <1>4, Zenon DEF CommandSaves
  <2>2. UNCHANGED <<now, att, proved>>
    BY <1>4, Zenon DEF CommandSaves, Rest, Saved, history
  <2>3. own' \in {own, EmptyState}
    BY <1>4, Zenon DEF CommandSaves, cmdVars
  <2>4. BackedCopy(own')
    BY <2>3, EmptyIsBacked, Zenon DEF ProofInv
  <2> QED
    BY <2>1, <2>2, <2>4, SaveKeepsProof, SameProof, Zenon DEF ProofInv, Process
<1> QED
  BY <1>1, <1>2, <1>3, <1>4, Zenon DEF Operator

LEMMA ElapseKeepsProof ==
    ASSUME ProofInv, Elapse \/ UNCHANGED gateVars
    PROVE  ProofInv'
<1>1. UNCHANGED <<proved, att, own, file, tmp>> /\ now' \in {now, now + 1}
  BY Zenon DEF Elapse, gateVars, cmdVars, diskVars, history
<1>2. Clock'
  BY <1>1, FundingAssumption, SMT DEF ProofInv, Clock, FundingAssumption
<1> QED
  BY <1>1, <1>2, Zenon DEF ProofInv, Backed, BackedCopy, IsCopy

LEMMA ProofHolds == GateSpec => []ProofInv
<1>1. GateInit => ProofInv
  <2> SUFFICES ASSUME GateInit PROVE ProofInv
    OBVIOUS
  <2>1. Clock
    BY SMT DEF GateInit, Clock
  <2>2. BackedCopy(own) /\ BackedCopy(Load(file)) /\ BackedCopy(Load(tmp))
    BY EmptyIsBacked, Zenon DEF GateInit, Load
  <2> QED
    BY <2>1, <2>2, Zenon DEF GateInit, ProofInv, Backed
<1>2. ProofInv /\ [GateNext]_gateVars => ProofInv'
  BY EngineKeepsProof, OperatorKeepsProof, ElapseKeepsProof, Zenon DEF GateNext
<1> QED
  BY <1>1, <1>2, PTL DEF GateSpec

\* Only _do_entry opens a live round, and only on its tick's snapshot.
LEMMA OpensCleared ==
    ASSUME [GateNext]_gateVars, Opens
    PROVE  cleared
<1>1. working = "none" /\ working' = "open"
  BY Zenon DEF Opens
<1>2. CASE Enter
  BY <1>1, <1>2, Zenon DEF Enter
<1>3. ~(Start \/ Ask \/ Arm \/ AppendLine \/ Latch \/ TickSave \/ CloseAgain \/ CallReturns
        \/ EngineSaves \/ Down \/ Operator \/ Elapse \/ UNCHANGED gateVars)
  BY <1>1, Zenon DEF Start, Ask, Arm, AppendLine, Latch, TickSave, SetHalt, CloseAgain, RetryExit,
     CallReturns, CallEnds, EngineSaves, Down, Operator, Give, Ends, ClearHaltCommand,
     ClearCooldown, VerifyFunding, BackfillState, BackfillLedger, CommandSaves, Edits, Rest,
     Elapse, Steps, gateVars, lifeVars
<1>4. ~(MoveOn \/ Book)
  BY <1>1, Zenon DEF MoveOn, Book, Steps, Moves, ConfirmHold, AbortEntry, RollBackEntry, BeginExit,
     LeaveCooldown, FinishExit
<1> QED
  BY <1>2, <1>3, <1>4, Zenon DEF GateNext, Engine

\* A snapshot's verdict is given in Ask only; from there it is kept or dropped.
LEMMA ClearedKept ==
    ASSUME [GateNext]_gateVars, ~Ask
    PROVE  Drops \/ UNCHANGED <<cleared, backed>>
<1>1. CASE Engine \/ Down
  BY <1>1, Zenon DEF Engine, Down, Start, Arm, Enter, MoveOn, Book, AppendLine, Latch, TickSave,
     Steps, CloseAgain, CallReturns, EngineSaves, tickVars
<1>2. CASE Operator
  BY <1>2, Zenon DEF Operator, Give, ClearHaltCommand, ClearCooldown, VerifyFunding,
     BackfillState, BackfillLedger, CommandSaves, Ends, Edits, Rest, tickVars
<1>3. CASE Elapse \/ UNCHANGED gateVars
  BY <1>3, Zenon DEF Elapse, gateVars, tickVars
<1> QED
  BY <1>1, <1>2, <1>3, Zenon DEF GateNext

\* Without a published interval it is the attestation the gate lets through.
LEMMA GateNeedsProof ==
    ASSUME Gate, ~LitSwap, Expected \notin Published
    PROVE  att # None /\ att.expires > now
<1>1. PICK l \in Published : PerpVerified(LighterInterval(l, AttestedInterval(att, now)), Expected)
  BY Zenon DEF Gate, UnitsVerified
<1>2. AttestedInterval(att, now) = Expected
  BY <1>1, Zenon DEF PerpVerified, LighterInterval
<1>3. Expected # None
  BY FundingAssumption, SMT DEF FundingAssumption
<1> QED
  BY <1>2, <1>3, Zenon DEF AttestedInterval

VerdictInv == cleared /\ ~LitSwap /\ Expected \notin Published => backed

\* No live round is opened on an interval the venue does not publish, unless
\* regular settlements had been seen within the validity when its tick took the
\* snapshot (fetch_snapshot, _do_entry, the attestation of verify-funding and
\* its expiry).
THEOREM LiveEntriesProven == GateSpec => LiveEntriesAreProven
<1> DEFINE Entered == Opens /\ ~LitSwap /\ Expected \notin Published => backed
<1>1. GateInit => VerdictInv
  BY Zenon DEF GateInit, VerdictInv
<1>2. ASSUME ProofInv, VerdictInv, [GateNext]_gateVars PROVE VerdictInv'
  <2>1. CASE Ask
    <3> SUFFICES ASSUME Gate, ~LitSwap, Expected \notin Published PROVE backed'
      BY <2>1, Zenon DEF VerdictInv, Ask
    <3>1. att # None /\ att.expires > now
      BY GateNeedsProof
    <3>2. Backed(att) /\ Clock /\ Validity \in Nat
      BY <1>2, FundingAssumption, Zenon DEF ProofInv, FundingAssumption
    <3>3. RecentlyProved
      BY <3>1, <3>2, SMT DEF Backed, Clock, RecentlyProved
    <3> QED
      BY <2>1, <3>3, Zenon DEF Ask
  <2>2. CASE ~Ask
    BY <1>2, <2>2, ClearedKept, Zenon DEF VerdictInv, Drops
  <2> QED
    BY <2>1, <2>2
<1>3. ASSUME VerdictInv, [GateNext]_gateVars PROVE Entered
  BY <1>3, OpensCleared, Zenon DEF VerdictInv
<1>4. ProofInv /\ VerdictInv /\ [GateNext]_gateVars => VerdictInv'
  BY <1>2
<1>5. VerdictInv /\ [GateNext]_gateVars => [Entered]_gateVars
  BY <1>3
<1> QED
  BY <1>1, <1>4, <1>5, ProofHolds, PTL DEF GateSpec, LiveEntriesAreProven

-----------------------------------------------------------------------------
(***************************************************************************)
(* Types: what either process writes and reads is a copy of the state.     *)
(***************************************************************************)
LEMMA EmptyTyped == EmptyState \in Copy
BY SMT DEF EmptyState, Copy, Mode, Attestations

LEMMA LoadTyped ==
    ASSUME NEW c \in Copy \cup {Absent, Torn}
    PROVE  Load(c) \in Copy
BY EmptyTyped, Zenon DEF Load

LEMMA CopyFields ==
    ASSUME NEW c \in Copy
    PROVE  /\ c.mode \in Mode /\ c.halt \in BOOLEAN /\ c.att \in Attestations
           /\ \A m \in Mode : [c EXCEPT !.mode = m] \in Copy
           /\ \A h \in BOOLEAN : [c EXCEPT !.halt = h] \in Copy
           /\ \A a \in Attestations : [c EXCEPT !.att = a] \in Copy
BY SMT DEF Copy

LEMMA MineTyped ==
    ASSUME GateTypeOK, NEW p \in Process
    PROVE  Mine(p) \in Copy
BY SMT DEF GateTypeOK, LifeTypeOK, Mine, Copy

LEMMA AttestedTyped ==
    ASSUME GateTypeOK, NEW rows \in Streams, NEW ratios \in Ratios
    PROVE  Attested(rows, ratios) \in Attestations
<1>1. CASE ~Proves(rows, ratios)
  BY <1>1, Zenon DEF Attested, Attestations
<1>2. CASE Proves(rows, ratios)
  <2>1. ProvenCadence(rows) \in Proven(rows)
    BY <1>2, Zenon DEF Proves, ProvenCadence
  <2>2. ProvenCadence(rows) \in {Gaps(rows)[t] : t \in DOMAIN Gaps(rows)}
    BY <2>1, Zenon DEF Proven, Medians
  <2>3. rows \in Seq(Nat)
    BY FundingAssumption, Zenon DEF FundingAssumption
  <2>4. ProvenCadence(rows) \in Nat
    BY <2>2, <2>3, GapsTyped, Zenon
  <2>5. now + Validity \in Nat
    BY FundingAssumption, GateAssumption, SMT
       DEF GateTypeOK, FundingAssumption, GateAssumption
  <2> QED
    BY <1>2, <2>4, <2>5, SMT DEF Attested, Attestation, Attestations
<1> QED
  BY <1>1, <1>2

\* The state of a save, typed.
SaveTypeOK ==
    /\ io \in [Process -> Saving]
    /\ file \in Copy \cup {Absent, Torn}
    /\ tmp \in Copy \cup {Absent, Torn}

LEMMA SaveKeepsTypes ==
    ASSUME GateTypeOK, NEW p \in Process, SaveOpen(p) \/ SaveWrite(p) \/ SaveReplace(p)
    PROVE  SaveTypeOK' /\ UNCHANGED lines
<1>1. file' \in {file, tmp, Mine(p)} /\ tmp' \in {tmp, Torn, Absent, Mine(p)}
  BY Zenon DEF SaveOpen, SaveWrite, SaveReplace
<1>2. io' \in [Process -> Saving]
  <2>1. io \in [Process -> Saving]
    BY Zenon DEF GateTypeOK
  <2>2. {"no", "opened", "moved", "written"} \subseteq Saving
    BY SMT DEF Saving
  <2>3. \A s \in Saving : [io EXCEPT ![p] = s] \in [Process -> Saving]
    BY <2>1, Zenon
  <2>4. \A q \in Process : (IF q = p THEN "no" ELSE IF io[q] = "opened" THEN "moved"
                            ELSE io[q]) \in Saving
    BY <2>1, <2>2, Zenon
  <2> QED
    BY <2>2, <2>3, <2>4, Zenon DEF SaveOpen, SaveWrite, SaveReplace
<1>3. UNCHANGED lines
  BY Zenon DEF SaveOpen, SaveWrite, SaveReplace
<1> QED
  BY <1>1, <1>2, <1>3, MineTyped, Zenon DEF SaveTypeOK, GateTypeOK

\* What the lifecycle's steps do to the engine's copy.
LEMMA LifeStepTyped ==
    ASSUME LifeTypeOK,
           \/ BeginEntry \/ ConfirmHold \/ AbortEntry \/ RollBackEntry \/ BeginExit
           \/ FinishExit \/ RetryExit \/ LeaveCooldown \/ SetHalt \/ CallEnds
    PROVE  LifeTypeOK'
BY Zenon DEF LifeTypeOK, Mode, Work, Moves, BeginEntry, ConfirmHold, AbortEntry, RollBackEntry,
   BeginExit, FinishExit, RetryExit, LeaveCooldown, SetHalt, CallEnds

\* The rest of the state of the commands, the clock and the histories.
OtherTypeOK ==
    /\ lines \in 0 .. MaxLines /\ seen \in 0 .. MaxLines
    /\ cmd \in Command \cup {"none"}
    /\ own \in Copy
    /\ now \in 0 .. MaxNow
    /\ commands \in 0 .. MaxCommands
    /\ proved \in 0 .. MaxNow \cup {None}
    /\ {verdict, refused, latched, beside} \subseteq BOOLEAN

EngineTypes ==
    /\ LifeTypeOK
    /\ att \in Attestations
    /\ up \in BOOLEAN /\ armed \in BOOLEAN
    /\ {cleared, backed, owed} \subseteq BOOLEAN
    /\ restarts \in 0 .. MaxRestarts

LEMMA TypesSplit == GateTypeOK <=> SaveTypeOK /\ OtherTypeOK /\ EngineTypes
BY Zenon DEF GateTypeOK, SaveTypeOK, OtherTypeOK, EngineTypes

LEMMA BeginTyped ==
    ASSUME GateTypeOK, NEW p \in Process, UNCHANGED <<file, tmp>>,
           Begins(p) \/ UNCHANGED io \/ io' = [io EXCEPT ![p] = "no"]
    PROVE  SaveTypeOK'
<1>1. {"begin", "no"} \subseteq Saving
  BY SMT DEF Saving
<1> QED
  BY <1>1, Zenon DEF GateTypeOK, SaveTypeOK, Begins

LEMMA ZeroTyped ==
    0 \in 0 .. MaxNow /\ 0 \in 0 .. MaxLines /\ 0 \in 0 .. MaxCommands /\ 0 \in 0 .. MaxRestarts
BY GateAssumption, SMT DEF GateAssumption

LEMMA OneMore ==
    ASSUME NEW bound \in Nat, NEW n \in 0 .. bound, n < bound
    PROVE  n + 1 \in 0 .. bound
BY SMT

LEMMA InitTyped == GateInit => GateTypeOK
<1> SUFFICES ASSUME GateInit PROVE GateTypeOK
  OBVIOUS
<1>1. "no" \in Saving /\ "IDLE" \in Mode /\ "none" \in Work
  BY SMT DEF Saving, Mode, Work
<1>2. SaveTypeOK
  BY <1>1, Zenon DEF GateInit, SaveTypeOK
<1>3. OtherTypeOK
  BY ZeroTyped, EmptyTyped, Zenon DEF GateInit, OtherTypeOK
<1>4. EngineTypes
  BY <1>1, ZeroTyped, Zenon DEF GateInit, LifeInit, EngineTypes, LifeTypeOK, Attestations
<1> QED
  BY <1>2, <1>3, <1>4, TypesSplit, Zenon

LEMMA SavedTyped ==
    ASSUME GateTypeOK, NEW p, Saved(p)
    PROVE  proved' \in 0 .. MaxNow \cup {None} /\ {verdict, refused, latched, beside}' \subseteq BOOLEAN
BY Zenon DEF GateTypeOK, LifeTypeOK, Saved

LEMMA EngineTyped ==
    ASSUME GateTypeOK, Engine
    PROVE  GateTypeOK'
<1> USE DEF cmdVars, history, copyVars, diskVars, lifeVars
<1>0. /\ SaveTypeOK /\ OtherTypeOK /\ EngineTypes
      /\ "engine" \in Process
      /\ "none" \in Work
  BY TypesSplit, Zenon DEF Process, Work
<1>1. CASE Start
  <2>1. Load(file) \in Copy
    BY <1>0, LoadTyped, Zenon DEF SaveTypeOK
  <2>2. EngineTypes'
    BY <1>0, <1>1, <2>1, CopyFields, Zenon DEF Start, EngineTypes, LifeTypeOK, tickVars
  <2>3. SaveTypeOK' /\ OtherTypeOK'
    BY <1>0, <1>1, Zenon DEF Start, SaveTypeOK, OtherTypeOK
  <2> QED
    BY <2>2, <2>3, TypesSplit, PTL
<1>2. CASE Ask \/ Arm
  <2>1. Gate \in BOOLEAN /\ RecentlyProved \in BOOLEAN
    BY Zenon DEF Gate, RecentlyProved
  <2> QED
    BY <1>2, <1>0, <2>1, Zenon DEF Ask, Arm, Drops, GateTypeOK, LifeTypeOK
<1> DEFINE Kept == UNCHANGED <<att, up, armed, file, tmp, cmdVars, now, restarts, history>>
<1>3. ASSUME LifeTypeOK', lines' \in 0 .. MaxLines, Begins("engine"), Kept,
             {cleared, backed, owed}' \subseteq BOOLEAN
      PROVE  GateTypeOK'
  <2>1. SaveTypeOK'
    BY <1>0, <1>3, BeginTyped, Zenon
  <2>2. OtherTypeOK' /\ EngineTypes'
    BY <1>0, <1>3, Zenon DEF OtherTypeOK, EngineTypes
  <2> QED
    BY <2>1, <2>2, TypesSplit, PTL
<1>4. CASE Enter \/ MoveOn \/ Latch
  <2>1. LifeTypeOK'
    BY <1>4, <1>0, LifeStepTyped, Zenon DEF Enter, MoveOn, Latch, Steps, EngineTypes
  <2>2. /\ lines' = lines /\ Begins("engine") /\ Kept
        /\ {cleared, backed, owed}' \subseteq BOOLEAN
    BY <1>0, <1>4, Zenon DEF Enter, MoveOn, Latch, Steps, tickVars, Drops, EngineTypes
  <2> QED
    BY <2>1, <2>2, <1>0, <1>3, Zenon DEF OtherTypeOK
<1>5. CASE Book
  <2>1. LifeTypeOK'
    BY <1>5, <1>0, LifeStepTyped, Zenon DEF Book, Steps, EngineTypes
  <2>2. Begins("engine") /\ Kept /\ lines' = lines /\ {cleared, backed, owed}' \subseteq BOOLEAN
    BY <1>0, <1>5, Zenon DEF Book, Steps, EngineTypes
  <2> QED
    BY <2>1, <2>2, <1>0, <1>3, Zenon DEF OtherTypeOK
<1>6. CASE AppendLine \/ TickSave
  <2>1. /\ LifeTypeOK' /\ Begins("engine") /\ Kept
        /\ {cleared, backed, owed}' \subseteq BOOLEAN
    BY <1>6, <1>0, Zenon DEF AppendLine, TickSave, Steps, Drops, EngineTypes, LifeTypeOK
  <2>2. lines' \in 0 .. MaxLines
    BY <1>0, <1>6, GateAssumption, SMT DEF AppendLine, TickSave, OtherTypeOK, GateAssumption
  <2> QED
    BY <2>1, <2>2, <1>3, Zenon
<1>7. CASE CloseAgain \/ CallReturns
  <2>1. LifeTypeOK'
    BY <1>7, <1>0, LifeStepTyped, Zenon DEF CloseAgain, CallReturns, EngineTypes
  <2> QED
    BY <2>1, <1>7, <1>0, Zenon DEF CloseAgain, CallReturns, GateTypeOK, tickVars
<1>8. CASE EngineSaves
  <2>1. SaveTypeOK' /\ UNCHANGED lines
    BY <1>8, <1>0, SaveKeepsTypes, Zenon DEF EngineSaves
  <2>2. proved' \in 0 .. MaxNow \cup {None} /\ {verdict, refused, latched, beside}' \subseteq BOOLEAN
    BY <1>8, SavedTyped, Zenon DEF EngineSaves, GateTypeOK
  <2>3. OtherTypeOK'
    BY <2>1, <2>2, <1>0, <1>8, Zenon DEF EngineSaves, OtherTypeOK
  <2>4. EngineTypes'
    BY <1>0, <1>8, Zenon DEF EngineSaves, EngineTypes, LifeTypeOK, Drops, tickVars
  <2> QED
    BY <2>1, <2>3, <2>4, TypesSplit, PTL
<1> QED
  BY <1>1, <1>2, <1>4, <1>5, <1>6, <1>7, <1>8, Zenon DEF Engine

LEMMA EditsTyped ==
    ASSUME GateTypeOK, NEW c, NEW copy \in Copy, Edits(c, copy),
           proved' \in 0 .. MaxNow \cup {None}, verdict' \in BOOLEAN
    PROVE  GateTypeOK'
<1> USE DEF cmdVars, history, diskVars, lifeVars
<1>1. SaveTypeOK'
  BY BeginTyped, Zenon DEF Edits, Process
<1>2. OtherTypeOK' /\ EngineTypes'
  BY Zenon DEF GateTypeOK, OtherTypeOK, EngineTypes, LifeTypeOK, Edits, Rest, tickVars
<1> QED
  BY <1>1, <1>2, TypesSplit, PTL

LEMMA OperatorTyped ==
    ASSUME GateTypeOK, Operator
    PROVE  GateTypeOK'
<1> USE DEF cmdVars, history, diskVars, lifeVars
<1>0. /\ SaveTypeOK /\ OtherTypeOK /\ EngineTypes
      /\ "command" \in Process
      /\ own \in Copy
      /\ proved \in 0 .. MaxNow \cup {None} /\ verdict \in BOOLEAN
  BY TypesSplit, Zenon DEF Process, GateTypeOK
<1>1. Rest => EngineTypes'
  BY <1>0, Zenon DEF Rest, EngineTypes, LifeTypeOK, tickVars
<1>2. ASSUME NEW c \in Command, Give(c) PROVE GateTypeOK'
  <2>1. commands' \in 0 .. MaxCommands
    BY <1>0, <1>2, OneMore, GateAssumption, SMT DEF Give, OtherTypeOK, GateAssumption
  <2>2. Load(file) \in Copy
    BY <1>0, LoadTyped, Zenon DEF SaveTypeOK
  <2>3. SaveTypeOK' /\ OtherTypeOK'
    BY <1>0, <1>2, <2>1, <2>2, ZeroTyped, Zenon DEF Give, Rest, SaveTypeOK, OtherTypeOK, EngineTypes
  <2> QED
    BY <1>1, <1>2, <2>3, TypesSplit, PTL DEF Give
<1>3. CASE ClearHaltCommand
  BY <1>0, <1>3, CopyFields, EditsTyped, Zenon DEF ClearHaltCommand
<1>4. CASE ClearCooldown
  BY <1>0, <1>4, CopyFields, EditsTyped, Zenon DEF ClearCooldown, Mode
<1>5. CASE BackfillState
  BY <1>0, <1>5, EditsTyped, Zenon DEF BackfillState
<1>6. CASE VerifyFunding
  <2>1. PICK rows \in Streams, ratios \in Ratios :
          /\ Edits("verify-funding", [own EXCEPT !.att = Attested(rows, ratios)])
          /\ verdict' = Proves(rows, ratios)
          /\ proved' \in {now, proved}
    BY <1>6, Zenon DEF VerifyFunding
  <2>2. Attested(rows, ratios) \in Attestations
    BY AttestedTyped, Zenon
  <2>3. verdict' \in BOOLEAN
    BY <2>1, Zenon DEF Proves, AmountsConsistent
  <2>4. proved' \in 0 .. MaxNow \cup {None}
    BY <2>1, <1>0, Zenon DEF OtherTypeOK
  <2> QED
    BY <2>1, <2>2, <2>3, <2>4, <1>0, CopyFields, EditsTyped, Zenon
<1>7. CASE CommandSaves
  <2>1. SaveTypeOK' /\ UNCHANGED lines
    BY <1>0, <1>7, SaveKeepsTypes, Zenon DEF CommandSaves
  <2>2. proved' \in 0 .. MaxNow \cup {None} /\ {verdict, refused, latched, beside}' \subseteq BOOLEAN
    BY <1>7, SavedTyped, Zenon DEF CommandSaves, GateTypeOK
  <2>3. /\ cmd' \in Command \cup {"none"} /\ own' \in Copy /\ seen' \in 0 .. MaxLines
        /\ commands' \in 0 .. MaxCommands
    BY <1>0, <1>7, ZeroTyped, EmptyTyped, Zenon DEF CommandSaves, OtherTypeOK
  <2>4. OtherTypeOK'
    BY <1>0, <1>7, <2>1, <2>2, <2>3, Zenon DEF CommandSaves, OtherTypeOK, Rest
  <2> QED
    BY <1>1, <1>7, <2>1, <2>4, TypesSplit, PTL DEF CommandSaves
<1>8. CASE BackfillLedger
  <2>1. SaveTypeOK'
    BY <1>0, <1>8, Zenon DEF BackfillLedger, SaveTypeOK
  <2>2. OtherTypeOK'
    BY <1>0, <1>8, ZeroTyped, EmptyTyped, Zenon DEF BackfillLedger, OtherTypeOK, Rest
  <2> QED
    BY <1>1, <1>8, <2>1, <2>2, TypesSplit, PTL DEF BackfillLedger
<1>9. CASE Ends
  <2>1. SaveTypeOK'
    BY <1>0, <1>9, BeginTyped, Zenon DEF Ends
  <2>2. OtherTypeOK'
    BY <1>0, <1>9, ZeroTyped, EmptyTyped, Zenon DEF Ends, OtherTypeOK, Rest
  <2> QED
    BY <1>1, <1>9, <2>1, <2>2, TypesSplit, PTL DEF Ends
<1> QED
  BY <1>2, <1>3, <1>4, <1>5, <1>6, <1>7, <1>8, <1>9, Zenon DEF Operator

\* Every value keeps its type, torn files, failed renames and interleaved
\* saves included: what a process loads is always a copy it can work on.
THEOREM GateTypesHold == GateSpec => []GateTypeOK
<1> USE DEF cmdVars, history, diskVars, lifeVars
<1>1. ASSUME GateTypeOK, GateNext PROVE GateTypeOK'
  <2>0. SaveTypeOK /\ OtherTypeOK /\ EngineTypes
    BY <1>1, TypesSplit, Zenon
  <2>1. CASE Engine
    BY <1>1, <2>1, EngineTyped
  <2>2. CASE Operator
    BY <1>1, <2>2, OperatorTyped
  <2>3. CASE Down
    <3>1. SaveTypeOK'
      BY <1>1, <2>3, BeginTyped, Zenon DEF Down, Process
    <3>2. OtherTypeOK'
      BY <2>0, <2>3, Zenon DEF Down, OtherTypeOK
    <3>3. restarts' \in 0 .. MaxRestarts
      BY <2>0, <2>3, OneMore, GateAssumption, SMT DEF Down, EngineTypes, GateAssumption
    <3>4. EngineTypes'
      BY <2>0, <2>3, <3>3, Zenon DEF Down, EngineTypes, LifeTypeOK, Mode, Work, Attestations, Drops
    <3> QED
      BY <3>1, <3>2, <3>4, TypesSplit, PTL
  <2>4. CASE Elapse
    <3>1. now' \in 0 .. MaxNow
      BY <2>0, <2>4, OneMore, GateAssumption, SMT DEF Elapse, OtherTypeOK, GateAssumption
    <3> QED
      BY <1>1, <2>4, <3>1, Zenon DEF Elapse, GateTypeOK, LifeTypeOK, tickVars
  <2> QED
    BY <1>1, <2>1, <2>2, <2>3, <2>4, Zenon DEF GateNext
<1>2. ASSUME GateTypeOK, UNCHANGED gateVars PROVE GateTypeOK'
  BY <1>2, Zenon DEF GateTypeOK, LifeTypeOK, gateVars, tickVars
<1> QED
  BY InitTyped, <1>1, <1>2, PTL DEF GateSpec

-----------------------------------------------------------------------------
(***************************************************************************)
(* What holds of state.json while the operator keeps to "only effective    *)
(* while the service is stopped": it follows the lifecycle, a refusal in   *)
(* it stands, and the ledger beside it loses no line.                      *)
(***************************************************************************)

\* The file's mode fm and halt fh are one step of the lifecycle behind a copy
\* in mode m, with the halt h and the call w.
DueMove(from, to, w) ==
    \/ from = "IDLE" /\ to = "ENTERING" /\ w \in {"none", "open"}
    \/ from = "ENTERING" /\ to \in {"HOLDING", "IDLE", "COOLDOWN"} /\ w = "none"
    \/ from = "HOLDING" /\ to = "EXITING" /\ w \in {"none", "close"}
    \/ from = "EXITING" /\ to = "COOLDOWN" /\ w = "none"
    \/ from = "COOLDOWN" /\ to = "IDLE" /\ w = "none"

Due(fm, fh, m, h, w) ==
    \/ m = fm /\ w = "none"
    \/ h = fh /\ fm = "COOLDOWN" /\ m = "IDLE" /\ w = "none"
    \/ ~fh /\ ~h /\ DueMove(fm, m, w)

\* A process that is not there saves nothing.
NobodySaves ==
    /\ ~up => Idle("engine") /\ working = "none"
    /\ cmd = "none" => Idle("command") /\ seen = 0
    /\ seen # 0 => Idle("command")

Alone == ~(up /\ cmd # "none")

\* What was written stays until its rename.
Written == \A p \in Process : io[p] # "moved" /\ (io[p] = "written" => tmp = Mine(p))

\* The file and the engine's copy: the same, or a save is under way.
EngineFile ==
    up => IF Idle("engine") THEN mode = Load(file).mode /\ halt = Load(file).halt
          ELSE Due(Load(file).mode, Load(file).halt, mode, halt, working)

\* The file and the command's copy.
CommandFile ==
    cmd # "none" =>
        IF Idle("command")
        THEN /\ own.mode = Load(file).mode /\ own.halt = Load(file).halt
             /\ cmd = "clear-cooldown" => own.mode = "COOLDOWN"
        ELSE Due(Load(file).mode, Load(file).halt, own.mode, own.halt, "none")

\* What a backfill has read of the ledger is all of it.
LedgerRead == seen # 0 => seen = lines

FileInv ==
    /\ NobodySaves
    /\ ~beside => Alone /\ Written /\ EngineFile /\ CommandFile /\ LedgerRead

LEMMA FileInit == GateInit => FileInv
<1> SUFFICES ASSUME GateInit PROVE FileInv
  OBVIOUS
<1>1. \A p \in Process : io[p] = "no"
  BY Zenon DEF GateInit
<1>2. "engine" \in Process /\ "command" \in Process
  BY SMT DEF Process
<1>3. \A p \in Process : io[p] # "moved" /\ io[p] # "written"
  BY <1>1, SMT
<1>4. seen = 0
  BY Zenon DEF GateInit
<1> QED
  BY <1>1, <1>2, <1>3, <1>4, Zenon DEF GateInit, LifeInit, FileInv, NobodySaves, Idle, Alone,
     Written, EngineFile, CommandFile, LedgerRead

\* A step of a save by a process that has the files to itself.
LEMMA SaveAlone ==
    ASSUME GateTypeOK, Written, NEW p \in Process, NEW q \in Process, p # q, Idle(q),
           UNCHANGED Mine(p), SaveOpen(p) \/ SaveWrite(p) \/ SaveReplace(p)
    PROVE  /\ Written' /\ Idle(q)' /\ ~Idle(p)
           /\ \/ UNCHANGED file /\ ~Idle(p)' /\ ~SaveReplace(p)
              \/ Load(file') = Mine(p) /\ Idle(p)' /\ tmp # Absent /\ SaveReplace(p)
<1>0. /\ io \in [Process -> Saving]
      /\ Mine(p) \in Copy /\ Mine(p) \notin {Absent, Torn}
      /\ io[q] = "no"
      /\ \A r \in Process : r \in {p, q}
  <2>1. Mine(p) \in Copy
    BY MineTyped
  <2>2. Mine(p) \notin {Absent, Torn}
    BY <2>1, GateAssumption, Zenon DEF GateAssumption
  <2>3. \A r \in Process : r \in {p, q}
    BY SMT DEF Process
  <2> QED
    BY <2>1, <2>2, <2>3, Zenon DEF GateTypeOK, Idle
<1>1. CASE SaveOpen(p)
  <2>1. io'[p] = "opened" /\ io'[q] = "no" /\ io[p] = "begin" /\ UNCHANGED file
    BY <1>0, <1>1, Zenon DEF SaveOpen
  <2>2. ~SaveReplace(p)
    BY <1>1, SMT DEF SaveOpen, SaveReplace
  <2>3. Written'
    BY <1>0, <2>1, SMT DEF Written
  <2> QED
    BY <2>1, <2>2, <2>3, SMT DEF Idle
<1>2. CASE SaveWrite(p)
  <2>1. io[p] # "moved"
    BY Zenon DEF Written
  <2>2. io'[p] = "written" /\ io'[q] = "no" /\ io[p] = "opened" /\ UNCHANGED file /\ tmp' = Mine(p)
    BY <1>0, <1>2, <2>1, Zenon DEF SaveWrite
  <2>3. ~SaveReplace(p)
    BY <2>2, SMT DEF SaveReplace
  <2>4. tmp' = Mine(p)'
    BY <2>2, Zenon
  <2>5. \A r \in Process : io'[r] = "written" => r = p
    BY <1>0, <2>2, SMT
  <2>6. \A r \in Process : io'[r] # "moved"
    BY <1>0, <2>2, SMT
  <2>7. Written'
    BY <2>4, <2>5, <2>6, Zenon DEF Written
  <2> QED
    BY <2>2, <2>3, <2>7, SMT DEF Idle
<1>3. CASE SaveReplace(p)
  <2>1. io[p] = "written" /\ tmp = Mine(p) /\ tmp # Absent
    BY <1>0, <1>3, Zenon DEF SaveReplace, Written
  <2>2. file' = Mine(p) /\ io'[p] = "no" /\ io'[q] = "no"
    BY <1>0, <1>3, <2>1, SMT DEF SaveReplace
  <2>3. Load(file') = Mine(p)
    BY <1>0, <2>2, Zenon DEF Load
  <2>4. Written'
    BY <1>0, <2>2, SMT DEF Written
  <2> QED
    BY <1>3, <2>1, <2>2, <2>3, <2>4, SMT DEF Idle
<1> QED
  BY <1>1, <1>2, <1>3

\* Nothing moves but the call, while no save is under way.
LEMMA CallMoves ==
    ASSUME FileInv, UNCHANGED <<copyVars, up, io, diskVars, cmdVars, beside>>,
           UNCHANGED working \/ (up /\ Idle("engine"))
    PROVE  FileInv'
BY Zenon DEF FileInv, NobodySaves, Alone, Written, EngineFile, CommandFile, LedgerRead, Idle,
   Mine, copyVars, diskVars, cmdVars

\* A step of the engine that ends in a save, and is one of the lifecycle.
LEMMA StepIsDue ==
    ASSUME FileInv, up, Idle("engine"), ~beside,
           Due(mode, halt, mode', halt', working')
    PROVE  Due(Load(file).mode, Load(file).halt, mode', halt', working')
<1>1. mode = Load(file).mode /\ halt = Load(file).halt
  BY Zenon DEF FileInv, EngineFile
<1> QED
  BY <1>1, SMT DEF Due

LEMMA LifeStepDue ==
    ASSUME working = "none",
           \/ BeginEntry \/ ConfirmHold \/ AbortEntry \/ RollBackEntry \/ BeginExit
           \/ FinishExit \/ LeaveCooldown \/ SetHalt \/ UNCHANGED lifeVars
    PROVE  Due(mode, halt, mode', halt', working')
<1>1. CASE SetHalt \/ UNCHANGED lifeVars
  BY <1>1, Zenon DEF Due, SetHalt, lifeVars
<1>2. CASE BeginEntry \/ ConfirmHold \/ AbortEntry \/ RollBackEntry \/ BeginExit \/ FinishExit
           \/ LeaveCooldown
  <2> USE DEF DueMove, Moves
  <2>1. CASE BeginEntry
    BY <2>1, Zenon DEF Due, BeginEntry
  <2>2. CASE ConfirmHold \/ AbortEntry \/ RollBackEntry
    BY <2>2, Zenon DEF Due, ConfirmHold, AbortEntry, RollBackEntry
  <2>3. CASE BeginExit
    BY <2>3, Zenon DEF Due, BeginExit
  <2>4. CASE FinishExit \/ LeaveCooldown
    BY <2>4, Zenon DEF Due, FinishExit, LeaveCooldown
  <2> QED
    BY <1>2, <2>1, <2>2, <2>3, <2>4
<1> QED
  BY <1>1, <1>2

LEMMA StepsKeepFile ==
    ASSUME GateTypeOK, FileInv, Enter \/ MoveOn \/ Book \/ AppendLine \/ Latch \/ TickSave
    PROVE  FileInv'
<1>1. /\ UNCHANGED <<up, file, tmp, cmd, own, seen, beside>>
      /\ up /\ Idle("engine") /\ Begins("engine")
  BY Zenon DEF Enter, MoveOn, Book, AppendLine, Latch, TickSave, Steps, cmdVars, history
<1>2. up'
  BY <1>1, Zenon
<1>3. io'["engine"] = "begin" /\ io'["command"] = io["command"]
  <2>1. io \in [Process -> Saving] /\ "engine" \in Process /\ "command" \in Process
    BY SMT DEF GateTypeOK, Process
  <2> QED
    BY <1>1, <2>1, SMT DEF Begins
<1>4. working = "none"
  BY Zenon DEF Enter, MoveOn, Book, AppendLine, Latch, TickSave, Steps, Moves, BeginEntry, ConfirmHold,
     AbortEntry, RollBackEntry, BeginExit, FinishExit, LeaveCooldown, SetHalt
<1>5. NobodySaves'
  BY <1>1, <1>2, <1>3, Zenon DEF FileInv, NobodySaves, Idle
<1>6. ASSUME ~beside PROVE (Alone /\ Written /\ EngineFile /\ CommandFile /\ LedgerRead)'
  <2>1. cmd = "none" /\ io["command"] = "no" /\ seen = 0
    BY <1>1, <1>2, <1>6, Zenon DEF FileInv, Alone, NobodySaves, Idle
  <2>2. Written'
    <3>1. \A p \in Process : io'[p] \in {"begin", "no"}
      BY <1>3, <2>1, SMT DEF Process
    <3> QED
      BY <3>1, SMT DEF Written
  <2>3. Due(Load(file).mode, Load(file).halt, mode', halt', working')
    <3>1. Due(mode, halt, mode', halt', working')
      BY <1>4, LifeStepDue, Zenon DEF Enter, MoveOn, Book, AppendLine, Latch, TickSave, Steps
    <3> QED
      BY <1>1, <1>2, <1>6, <3>1, StepIsDue, Zenon
  <2>4. EngineFile'
    <3>1. ~Idle("engine")'
      BY <1>3, SMT DEF Idle
    <3>2. Load(file)' = Load(file)
      BY <1>1, <1>2, Zenon DEF Load
    <3> QED
      BY <2>3, <3>1, <3>2, Zenon DEF EngineFile, Due
  <2>5. seen' = 0
    BY <1>1, <1>2, <2>1, Zenon
  <2> QED
    BY <1>1, <1>2, <2>1, <2>2, <2>4, <2>5, Zenon DEF Alone, CommandFile, LedgerRead
<1> QED
  BY <1>1, <1>2, <1>5, <1>6, Zenon DEF FileInv

LEMMA EngineSavesKeepFile ==
    ASSUME GateTypeOK, FileInv, EngineSaves
    PROVE  FileInv'
<1>1. /\ UNCHANGED <<copyVars, up, cmd, own, seen, beside>> /\ up
      /\ SaveOpen("engine") \/ SaveWrite("engine") \/ SaveReplace("engine")
      /\ ~SaveReplace("engine") \/ tmp # Absent => UNCHANGED working
  BY Zenon DEF EngineSaves, Saved, cmdVars, history
<1>2. "engine" \in Process /\ "command" \in Process /\ "engine" # "command"
  BY SMT DEF Process
<1>3. /\ cmd = "none" => io'["command"] = "no" /\ seen = 0
      /\ seen # 0 => io'["command"] = "no"
  <2>1. /\ cmd = "none" => io["command"] = "no" /\ seen = 0
        /\ seen # 0 => io["command"] = "no"
    BY Zenon DEF FileInv, NobodySaves, Idle
  <2>2. io["command"] = "no" => io'["command"] = "no"
    BY <1>1, <1>2, SMT DEF SaveOpen, SaveWrite, SaveReplace, GateTypeOK
  <2> QED
    BY <2>1, <2>2
<1>4. NobodySaves'
  BY <1>1, <1>3, Zenon DEF NobodySaves, Idle
<1>5. ASSUME ~beside PROVE (Alone /\ Written /\ EngineFile /\ CommandFile /\ LedgerRead)'
  <2>1. cmd = "none" /\ Idle("command") /\ seen = 0 /\ Written
    BY <1>1, <1>5, Zenon DEF FileInv, Alone, NobodySaves
  <2>2. UNCHANGED Mine("engine")
    BY <1>1, Zenon DEF Mine, copyVars
  <2>3. /\ Written' /\ ~Idle("engine")
        /\ \/ UNCHANGED file /\ ~Idle("engine")' /\ ~SaveReplace("engine")
           \/ Load(file') = Mine("engine") /\ Idle("engine")' /\ tmp # Absent /\ SaveReplace("engine")
    BY <1>1, <1>2, <2>1, <2>2, SaveAlone, Zenon
  <2>4. EngineFile'
    <3>1. CASE UNCHANGED file /\ ~Idle("engine")' /\ ~SaveReplace("engine")
      <4>1. UNCHANGED <<working, mode, halt>> /\ Load(file)' = Load(file)
        BY <1>1, <3>1, Zenon DEF Load, copyVars
      <4>2. Due(Load(file).mode, Load(file).halt, mode, halt, working)
        BY <1>1, <1>5, <2>3, Zenon DEF FileInv, EngineFile
      <4> QED
        BY <3>1, <4>1, <4>2, Zenon DEF EngineFile, Due
    <3>2. CASE Load(file') = Mine("engine") /\ Idle("engine")'
      <4> DEFINE c == [mode |-> mode, halt |-> halt, att |-> att]
      <4>1. c.mode = mode /\ c.halt = halt /\ Mine("engine") = c
        BY Zenon DEF Mine
      <4> HIDE DEF c
      <4>2. Load(file').mode = mode /\ Load(file').halt = halt
        BY <3>2, <4>1, Zenon
      <4>3. UNCHANGED <<mode, halt>>
        BY <1>1, Zenon DEF copyVars
      <4> QED
        BY <3>2, <4>2, <4>3, Zenon DEF EngineFile
    <3> QED
      BY <2>3, <3>1, <3>2
  <2>5. seen' = 0
    BY <1>1, <2>1, Zenon
  <2> QED
    BY <1>1, <2>1, <2>3, <2>4, <2>5, Zenon DEF Alone, CommandFile, LedgerRead
<1> QED
  BY <1>1, <1>4, <1>5, Zenon DEF FileInv

LEMMA StartKeepsFile ==
    ASSUME GateTypeOK, FileInv, Start
    PROVE  FileInv'
<1>1. /\ ~up /\ up' /\ UNCHANGED <<working, io, file, tmp, lines, cmd, own, seen>>
      /\ mode' = Load(file).mode /\ halt' = Load(file).halt
      /\ ~beside' => ~beside /\ cmd = "none"
  BY Zenon DEF Start, diskVars, cmdVars
<1>2. NobodySaves'
  BY <1>1, Zenon DEF FileInv, NobodySaves, Idle
<1>3. ASSUME ~beside' PROVE (Alone /\ Written /\ EngineFile /\ CommandFile /\ LedgerRead)'
  <2>1. cmd = "none" /\ io["command"] = "no" /\ io["engine"] = "no" /\ seen = 0
    BY <1>1, <1>3, Zenon DEF FileInv, NobodySaves, Idle
  <2>2. \A p \in Process : io'[p] # "moved" /\ io'[p] # "written"
    BY <1>1, <2>1, SMT DEF Process
  <2>3. Load(file)' = Load(file)
    BY <1>1, Zenon DEF Load
  <2>4. seen' = 0
    BY <1>1, <2>1, Zenon
  <2> QED
    BY <1>1, <2>1, <2>2, <2>3, <2>4, Zenon DEF Alone, Written, EngineFile, CommandFile, LedgerRead,
       Idle
<1> QED
  BY <1>2, <1>3, Zenon DEF FileInv

LEMMA DownKeepsFile ==
    ASSUME GateTypeOK, FileInv, Down
    PROVE  FileInv'
<1>1. /\ up /\ ~up' /\ working' = "none" /\ UNCHANGED <<file, tmp, lines, cmd, own, seen, beside>>
      /\ io' = [io EXCEPT !["engine"] = "no"]
  BY Zenon DEF Down, diskVars, cmdVars, history
<1>2. io'["engine"] = "no" /\ io'["command"] = io["command"]
  BY <1>1, SMT DEF GateTypeOK, Process
<1>3. NobodySaves'
  BY <1>1, <1>2, Zenon DEF FileInv, NobodySaves, Idle
<1>4. ASSUME ~beside PROVE (Alone /\ Written /\ EngineFile /\ CommandFile /\ LedgerRead)'
  <2>1. cmd = "none" /\ io["command"] = "no" /\ seen = 0
    BY <1>1, <1>4, Zenon DEF FileInv, Alone, NobodySaves, Idle
  <2>2. \A p \in Process : io'[p] # "moved" /\ io'[p] # "written"
    BY <1>2, <2>1, SMT DEF Process
  <2>3. seen' = 0
    BY <1>1, <2>1, Zenon
  <2> QED
    BY <1>1, <2>1, <2>2, <2>3, Zenon DEF Alone, Written, EngineFile, CommandFile, LedgerRead
<1> QED
  BY <1>1, <1>3, <1>4, Zenon DEF FileInv

LEMMA GiveKeepsFile ==
    ASSUME GateTypeOK, FileInv, NEW c \in Command, Give(c)
    PROVE  FileInv'
<1>1. /\ cmd = "none" /\ cmd' = c /\ own' = Load(file) /\ seen' = 0
      /\ UNCHANGED <<up, working, io, file>>
      /\ ~beside' => ~beside /\ ~up
      /\ c = "clear-cooldown" => Load(file).mode = "COOLDOWN"
  BY Zenon DEF Give, Rest, lifeVars, diskVars
<1>2. io'["command"] = "no" /\ (~up => io'["engine"] = "no" /\ working = "none")
  BY <1>1, Zenon DEF FileInv, NobodySaves, Idle
<1>3. NobodySaves'
  BY <1>1, <1>2, Zenon DEF NobodySaves, Idle
<1>4. ASSUME ~beside' PROVE (Alone /\ Written /\ EngineFile /\ CommandFile /\ LedgerRead)'
  <2>1. ~up'
    BY <1>1, <1>4, Zenon
  <2>2. \A p \in Process : io'[p] # "moved" /\ io'[p] # "written"
    BY <1>1, <1>2, <2>1, SMT DEF Process
  <2>3. Load(file)' = Load(file)
    BY <1>1, Zenon DEF Load
  <2> QED
    BY <1>1, <1>2, <2>1, <2>2, <2>3, Zenon DEF Alone, Written, EngineFile, CommandFile, LedgerRead,
       Idle
<1> QED
  BY <1>3, <1>4, Zenon DEF FileInv

\* What a command makes of its copy is one of the lifecycle's steps.
LEMMA EditIsDue ==
    ASSUME GateTypeOK, FileInv, ~beside,
           ClearHaltCommand \/ ClearCooldown \/ VerifyFunding \/ BackfillState
    PROVE  Due(Load(file).mode, Load(file).halt, own'.mode, own'.halt, "none")
<1>1. cmd \in Command /\ cmd # "none" /\ Idle("command")
  BY Zenon DEF ClearHaltCommand, ClearCooldown, VerifyFunding, BackfillState, Edits, Command
<1>2. own.mode = Load(file).mode /\ own.halt = Load(file).halt
  BY <1>1, Zenon DEF FileInv, CommandFile
<1>3. own = [mode |-> own.mode, halt |-> own.halt, att |-> own.att]
  BY SMT DEF GateTypeOK, Copy
<1>4. CASE ClearCooldown
  <2>1. own' = [own EXCEPT !.mode = "IDLE"]
    BY <1>4, Zenon DEF ClearCooldown, Edits
  <2>2. own' = [mode |-> "IDLE", halt |-> own.halt, att |-> own.att]
    BY <1>3, <2>1, SMT
  <2>3. own'.mode = "IDLE" /\ own'.halt = own.halt
    BY <2>2, Zenon
  <2>4. own.mode = "COOLDOWN"
    BY <1>1, <1>4, Zenon DEF ClearCooldown, Edits, FileInv, CommandFile
  <2> QED
    BY <1>2, <2>3, <2>4, Zenon DEF Due
<1>5. ASSUME NEW x, own' = [own EXCEPT !.halt = x] \/ own' = [own EXCEPT !.att = x] \/ own' = own
      PROVE  own'.mode = own.mode
  <2>1. PICK h, a : own' = [mode |-> own.mode, halt |-> h, att |-> a]
    BY <1>3, <1>5, SMT
  <2> QED
    BY <2>1, Zenon
<1>6. CASE ClearHaltCommand \/ VerifyFunding \/ BackfillState
  <2>1. own'.mode = own.mode
    BY <1>5, <1>6, Zenon DEF ClearHaltCommand, VerifyFunding, BackfillState, Edits
  <2> QED
    BY <1>2, <2>1, Zenon DEF Due
<1> QED
  BY <1>4, <1>6

LEMMA EditsKeepFile ==
    ASSUME GateTypeOK, FileInv, ClearHaltCommand \/ ClearCooldown \/ VerifyFunding \/ BackfillState
    PROVE  FileInv'
<1>1. /\ cmd \in Command /\ cmd # "none" /\ Idle("command") /\ seen = 0
      /\ UNCHANGED <<up, working, file, cmd, seen, beside>>
      /\ Begins("command")
  BY Zenon DEF ClearHaltCommand, ClearCooldown, VerifyFunding, BackfillState, Edits, Command,
     Rest, lifeVars, diskVars
<1>2. io'["command"] = "begin" /\ io'["engine"] = io["engine"]
  <2>1. io' = [io EXCEPT !["command"] = "begin"]
    BY <1>1, Zenon DEF Begins
  <2> QED
    BY <2>1, SMT DEF GateTypeOK, Process
<1>3. NobodySaves'
  BY <1>1, <1>2, Zenon DEF FileInv, NobodySaves, Idle
<1>4. ASSUME ~beside PROVE (Alone /\ Written /\ EngineFile /\ CommandFile /\ LedgerRead)'
  <2>1. ~up /\ io["engine"] = "no"
    BY <1>1, <1>4, Zenon DEF FileInv, Alone, NobodySaves, Idle
  <2>2. \A p \in Process : io'[p] # "moved" /\ io'[p] # "written"
    BY <1>2, <2>1, SMT DEF Process
  <2>3. Due(Load(file).mode, Load(file).halt, own'.mode, own'.halt, "none")
    BY <1>4, EditIsDue, Zenon
  <2>4. ~Idle("command")' /\ Load(file)' = Load(file)
    <3>1. ~Idle("command")'
      BY <1>2, SMT DEF Idle
    <3> QED
      BY <1>1, <3>1, Zenon DEF Load
  <2>5. CommandFile'
    BY <2>3, <2>4, Zenon DEF CommandFile, Due
  <2> QED
    BY <1>1, <2>1, <2>2, <2>5, Zenon DEF Alone, Written, EngineFile, LedgerRead
<1> QED
  BY <1>1, <1>3, <1>4, Zenon DEF FileInv

\* A command that is over leaves nothing behind.
LEMMA EndKeepsFile ==
    ASSUME GateTypeOK, FileInv, Ends \/ BackfillLedger
    PROVE  FileInv'
<1>1. /\ cmd # "none" /\ cmd' = "none" /\ seen' = 0
      /\ UNCHANGED <<up, working, beside>>
      /\ io' = [io EXCEPT !["command"] = "no"] \/ (io' = io /\ seen > 0)
  <2>1. CASE Ends
    BY <2>1, Zenon DEF Ends, Rest, lifeVars
  <2>2. CASE BackfillLedger
    BY <2>2, Zenon DEF BackfillLedger, Rest, lifeVars, history
  <2> QED
    BY <2>1, <2>2
<1>2. io'["engine"] = io["engine"] /\ io'["command"] = "no"
  <2>1. seen > 0 => seen # 0
    BY SMT DEF GateTypeOK
  <2>2. io' = io /\ seen > 0 => io'["command"] = "no"
    BY <2>1, Zenon DEF FileInv, NobodySaves, Idle
  <2>3. io' = [io EXCEPT !["command"] = "no"] => io'["engine"] = io["engine"] /\ io'["command"] = "no"
    BY SMT DEF GateTypeOK, Process
  <2> QED
    BY <1>1, <2>2, <2>3
<1>3. NobodySaves'
  BY <1>1, <1>2, Zenon DEF FileInv, NobodySaves, Idle
<1>4. ASSUME ~beside PROVE (Alone /\ Written /\ EngineFile /\ CommandFile /\ LedgerRead)'
  <2>1. ~up /\ io["engine"] = "no"
    BY <1>1, <1>4, Zenon DEF FileInv, Alone, NobodySaves, Idle
  <2>2. \A p \in Process : io'[p] # "moved" /\ io'[p] # "written"
    BY <1>2, <2>1, SMT DEF Process
  <2> QED
    BY <1>1, <2>1, <2>2, Zenon DEF Alone, Written, EngineFile, CommandFile, LedgerRead
<1> QED
  BY <1>1, <1>3, <1>4, Zenon DEF FileInv

LEMMA CommandSavesKeepFile ==
    ASSUME GateTypeOK, FileInv, CommandSaves
    PROVE  FileInv'
<1>1. /\ cmd # "none" /\ UNCHANGED <<up, working, beside>>
      /\ SaveOpen("command") \/ SaveWrite("command") \/ SaveReplace("command")
      /\ \/ UNCHANGED <<cmd, own, seen>> /\ (SaveOpen("command") \/ SaveWrite("command"))
         \/ /\ SaveReplace("command")
            /\ \/ cmd = "backfill-venue-pnl" /\ seen' = lines /\ UNCHANGED <<cmd, own>>
               \/ cmd' = "none" /\ seen' = 0
  <2>1. cmd # "none" /\ UNCHANGED <<up, working>>
    BY Zenon DEF CommandSaves, Rest, lifeVars
  <2>2. CASE SaveReplace("command") /\ (IF tmp = Absent THEN UNCHANGED history ELSE Saved("command"))
             /\ UNCHANGED <<cmd, own>> /\ seen' = lines /\ cmd = "backfill-venue-pnl"
    BY <2>1, <2>2, Zenon DEF Saved, history
  <2>3. CASE SaveReplace("command") /\ (IF tmp = Absent THEN UNCHANGED history ELSE Saved("command"))
             /\ cmd' = "none" /\ seen' = 0
    BY <2>1, <2>3, Zenon DEF Saved, history
  <2>4. CASE (SaveOpen("command") \/ SaveWrite("command")) /\ UNCHANGED <<cmdVars, history>>
    BY <2>1, <2>4, Zenon DEF cmdVars, history
  <2> QED
    BY <2>2, <2>3, <2>4, Zenon DEF CommandSaves
<1>2. "engine" \in Process /\ "command" \in Process /\ "engine" # "command"
  BY SMT DEF Process
<1>3. UNCHANGED lines
  BY <1>1, Zenon DEF SaveOpen, SaveWrite, SaveReplace
<1>4. /\ io["engine"] = "no" => io'["engine"] = "no"
      /\ io["command"] # "no"
      /\ SaveReplace("command") => io'["command"] = "no"
  BY <1>1, <1>2, SMT DEF SaveOpen, SaveWrite, SaveReplace, GateTypeOK
<1>5. seen = 0
  BY <1>4, Zenon DEF FileInv, NobodySaves, Idle
<1>6. NobodySaves'
  BY <1>1, <1>4, <1>5, Zenon DEF FileInv, NobodySaves, Idle
<1>7. ASSUME ~beside PROVE (Alone /\ Written /\ EngineFile /\ CommandFile /\ LedgerRead)'
  <2>1. ~up /\ Idle("engine") /\ Written
    BY <1>1, <1>7, Zenon DEF FileInv, Alone, NobodySaves
  <2>2. CASE UNCHANGED <<cmd, own, seen>> /\ (SaveOpen("command") \/ SaveWrite("command"))
    <3>1. UNCHANGED Mine("command")
      BY <1>2, <2>2, Zenon DEF Mine
    <3>2. Written' /\ UNCHANGED file /\ ~Idle("command") /\ ~Idle("command")'
      <4>1. ~SaveReplace("command")
        BY <2>2, SMT DEF SaveOpen, SaveWrite, SaveReplace, GateTypeOK
      <4> QED
        BY <1>1, <1>2, <2>1, <3>1, <4>1, SaveAlone, Zenon
    <3>3. Due(Load(file).mode, Load(file).halt, own.mode, own.halt, "none") /\ Load(file)' = Load(file)
      BY <1>1, <1>7, <3>2, Zenon DEF FileInv, CommandFile, Load
    <3>4. CommandFile'
      BY <2>2, <3>2, <3>3, Zenon DEF CommandFile, Due
    <3> QED
      BY <1>1, <1>5, <2>1, <2>2, <3>2, <3>4, Zenon DEF Alone, EngineFile, LedgerRead
  <2>3. CASE SaveReplace("command") /\ cmd' = "none" /\ seen' = 0
    <3>1. \A p \in Process : io'[p] # "moved" /\ io'[p] # "written"
      BY <1>4, <2>1, <2>3, SMT DEF Process, Idle
    <3> QED
      BY <1>1, <2>1, <2>3, <3>1, Zenon DEF Alone, Written, EngineFile, CommandFile, LedgerRead
  <2>4. CASE SaveReplace("command") /\ cmd = "backfill-venue-pnl" /\ seen' = lines /\ UNCHANGED <<cmd, own>>
    <3>1. UNCHANGED Mine("command") /\ Mine("command") = own
      BY <1>2, <2>4, Zenon DEF Mine
    <3>2. Written' /\ Load(file') = own
      BY <1>1, <1>2, <2>1, <2>4, <3>1, SaveAlone, Zenon
    <3>3. cmd' # "clear-cooldown"
      BY <2>4, SMT
    <3>4. CommandFile'
      BY <1>4, <2>4, <3>2, <3>3, Zenon DEF CommandFile, Idle
    <3> QED
      BY <1>1, <1>3, <2>1, <2>4, <3>2, <3>4, Zenon DEF Alone, EngineFile, LedgerRead
  <2> QED
    BY <1>1, <2>2, <2>3, <2>4
<1> QED
  BY <1>1, <1>6, <1>7, Zenon DEF FileInv

LEMMA FileHolds == GateSpec => [](GateTypeOK /\ FileInv)
<1>1. ASSUME GateTypeOK, FileInv, [GateNext]_gateVars PROVE FileInv'
  <2>1. CASE Engine
    <3>1. CASE Ask \/ Arm \/ CloseAgain \/ CallReturns
      <4>1. /\ UNCHANGED <<copyVars, up, io, diskVars, cmdVars, beside>>
            /\ UNCHANGED working \/ (up /\ Idle("engine"))
        BY <3>1, Zenon DEF Ask, Arm, CloseAgain, CallReturns, RetryExit, Moves, CallEnds, lifeVars, copyVars,
           history
      <4> QED
        BY <1>1, <4>1, CallMoves, Zenon
    <3> QED
      BY <1>1, <2>1, <3>1, StartKeepsFile, StepsKeepFile, EngineSavesKeepFile, Zenon DEF Engine
  <2>2. CASE Down
    BY <1>1, <2>2, DownKeepsFile
  <2>3. CASE Operator
    BY <1>1, <2>3, GiveKeepsFile, EditsKeepFile, CommandSavesKeepFile, EndKeepsFile, Zenon DEF Operator
  <2>4. CASE Elapse \/ UNCHANGED gateVars
    <3>1. /\ UNCHANGED <<copyVars, up, io, diskVars, cmdVars, beside>>
          /\ UNCHANGED working \/ (up /\ Idle("engine"))
      BY <2>4, Zenon DEF Elapse, gateVars, lifeVars, copyVars, history, diskVars, cmdVars
    <3> QED
      BY <1>1, <3>1, CallMoves
  <2> QED
    BY <1>1, <2>1, <2>2, <2>3, <2>4, Zenon DEF GateNext
<1>2. GateTypeOK /\ FileInv /\ [GateNext]_gateVars => FileInv'
  BY <1>1
<1> QED
  BY <1>2, FileInit, GateTypesHold, PTL DEF GateSpec

-----------------------------------------------------------------------------
(***************************************************************************)
(* The file follows the lifecycle.                                         *)
(***************************************************************************)
OnDisk == Durable!LifeNext \/ UNCHANGED Durable!lifeVars

LEMMA DiskTyped ==
    ASSUME GateTypeOK
    PROVE  Load(file).mode \in Mode /\ Load(file).halt \in BOOLEAN
BY LoadTyped, CopyFields, Zenon DEF GateTypeOK

LEMMA DueIsStep ==
    ASSUME Load(file).halt \in BOOLEAN, Load(file').halt \in BOOLEAN, FileWorking = "none",
           Due(Load(file).mode, Load(file).halt, Load(file').mode, Load(file').halt, FileWorking')
    PROVE  OnDisk
<1>0. Load(file)' = Load(file')
  OBVIOUS
<1>1. CASE Load(file').mode = Load(file).mode /\ FileWorking' = "none"
  <2>1. Durable!SetHalt \/ Durable!ClearHalt
    BY <1>0, <1>1, Zenon DEF Durable!SetHalt, Durable!ClearHalt
  <2> QED
    BY <2>1, Zenon DEF OnDisk, Durable!LifeNext, Durable!LifeStep, Durable!OperatorStep
<1>2. CASE /\ Load(file').halt = Load(file).halt /\ Load(file).mode = "COOLDOWN"
           /\ Load(file').mode = "IDLE" /\ FileWorking' = "none"
  <2>1. Durable!ForceLeaveCooldown
    BY <1>0, <1>2, Zenon DEF Durable!ForceLeaveCooldown
  <2> QED
    BY <2>1, Zenon DEF OnDisk, Durable!LifeNext, Durable!OperatorStep
<1>3. CASE ~Load(file).halt /\ ~Load(file').halt
           /\ DueMove(Load(file).mode, Load(file').mode, FileWorking')
  <2>1. ~Load(file).halt /\ Load(file)'.halt = Load(file).halt /\ Load(file)'.mode = Load(file').mode
    BY <1>0, <1>3, Zenon
  <2> USE DEF Durable!Moves
  <2>2. CASE Load(file).mode = "IDLE" /\ Load(file').mode = "ENTERING" /\ FileWorking' \in {"none", "open"}
    <3>1. Durable!BeginEntry
      BY <2>1, <2>2, Zenon DEF Durable!BeginEntry
    <3> QED
      BY <3>1, Zenon DEF OnDisk, Durable!LifeNext, Durable!LifeStep
  <2>3. CASE /\ Load(file).mode = "ENTERING" /\ Load(file').mode \in {"HOLDING", "IDLE", "COOLDOWN"}
             /\ FileWorking' = "none"
    <3>1. Durable!ConfirmHold \/ Durable!AbortEntry \/ Durable!RollBackEntry
      BY <2>1, <2>3, Zenon DEF Durable!ConfirmHold, Durable!AbortEntry, Durable!RollBackEntry
    <3> QED
      BY <3>1, Zenon DEF OnDisk, Durable!LifeNext, Durable!LifeStep
  <2>4. CASE Load(file).mode = "HOLDING" /\ Load(file').mode = "EXITING" /\ FileWorking' \in {"none", "close"}
    <3>1. Durable!BeginExit
      BY <2>1, <2>4, Zenon DEF Durable!BeginExit
    <3> QED
      BY <3>1, Zenon DEF OnDisk, Durable!LifeNext, Durable!LifeStep
  <2>5. CASE Load(file).mode = "EXITING" /\ Load(file').mode = "COOLDOWN" /\ FileWorking' = "none"
    <3>1. Durable!FinishExit
      BY <2>1, <2>5, Zenon DEF Durable!FinishExit
    <3> QED
      BY <3>1, Zenon DEF OnDisk, Durable!LifeNext, Durable!LifeStep
  <2>6. CASE Load(file).mode = "COOLDOWN" /\ Load(file').mode = "IDLE" /\ FileWorking' = "none"
    <3>1. Durable!LeaveCooldown
      BY <2>1, <2>6, Zenon DEF Durable!LeaveCooldown
    <3> QED
      BY <3>1, Zenon DEF OnDisk, Durable!LifeNext, Durable!LifeStep
  <2> HIDE DEF Durable!Moves
  <2> QED
    BY <1>3, <2>2, <2>3, <2>4, <2>5, <2>6, Zenon DEF DueMove
<1> QED
  BY <1>1, <1>2, <1>3, Zenon DEF Due

\* The file stands; the call goes on, or comes to its end.
LEMMA CallOnDisk ==
    ASSUME UNCHANGED file, FileWorking' \in {FileWorking, "none"}
    PROVE  OnDisk
<1>1. Load(file)' = Load(file)
  BY Zenon DEF Load
<1>2. CASE FileWorking' = FileWorking
  BY <1>1, <1>2, Zenon DEF OnDisk, Durable!lifeVars
<1>3. CASE FileWorking' = "none" /\ FileWorking # "none"
  <2>1. Durable!CallEnds
    BY <1>1, <1>3, Zenon DEF Durable!CallEnds
  <2> QED
    BY <2>1, Zenon DEF OnDisk, Durable!LifeNext
<1> QED
  BY <1>2, <1>3

LEMMA BesideStays ==
    ASSUME [GateNext]_gateVars, ~beside'
    PROVE  ~beside
<1>1. CASE Engine \/ Down
  <2>1. ASSUME NEW p, Saved(p) PROVE UNCHANGED beside
    BY <2>1, Zenon DEF Saved
  <2>2. CASE EngineSaves
    BY <2>1, <2>2, Zenon DEF EngineSaves, history
  <2> QED
    BY <1>1, <2>2, Zenon DEF Engine, Start, Ask, Arm, Enter, MoveOn, Book, AppendLine, Latch, TickSave, Steps,
       CloseAgain, CallReturns, Down, history
<1>2. CASE Operator
  <2>1. ASSUME NEW p, Saved(p) PROVE UNCHANGED beside
    BY <2>1, Zenon DEF Saved
  <2>2. CASE CommandSaves
    BY <2>1, <2>2, Zenon DEF CommandSaves, history
  <2> QED
    BY <1>2, <2>2, Zenon DEF Operator, Give, ClearHaltCommand, ClearCooldown, VerifyFunding,
       BackfillState, BackfillLedger, Ends, Edits, history
<1>3. CASE Elapse \/ UNCHANGED gateVars
  BY <1>3, Zenon DEF Elapse, gateVars, history
<1> QED
  BY <1>1, <1>2, <1>3, Zenon DEF GateNext

LEMMA EngineSavesOnDisk ==
    ASSUME GateTypeOK, GateTypeOK', FileInv, ~beside, EngineSaves
    PROVE  OnDisk
<1>1. /\ UNCHANGED <<copyVars, up>> /\ up /\ cmd = "none"
      /\ SaveOpen("engine") \/ SaveWrite("engine") \/ SaveReplace("engine")
      /\ ~SaveReplace("engine") \/ tmp # Absent => UNCHANGED working
  BY Zenon DEF EngineSaves, FileInv, Alone
<1>2. "engine" \in Process /\ "command" \in Process /\ "engine" # "command"
  BY SMT DEF Process
<1>3. /\ ~Idle("engine")
      /\ \/ UNCHANGED file /\ ~Idle("engine")' /\ ~SaveReplace("engine")
         \/ Load(file') = Mine("engine") /\ Idle("engine")' /\ tmp # Absent /\ SaveReplace("engine")
  <2>1. Idle("command") /\ Written /\ UNCHANGED Mine("engine")
    BY <1>1, Zenon DEF FileInv, NobodySaves, Mine, copyVars
  <2> QED
    BY <1>1, <1>2, <2>1, SaveAlone, Zenon
<1>4. FileWorking = "none"
  BY <1>3, Zenon DEF FileWorking
<1>5. CASE UNCHANGED file /\ ~Idle("engine")'
  BY <1>4, <1>5, CallOnDisk, Zenon DEF FileWorking
<1>6. CASE Load(file') = Mine("engine") /\ Idle("engine")' /\ tmp # Absent
  <2> DEFINE c == [mode |-> mode, halt |-> halt, att |-> att]
  <2>1. c.mode = mode /\ c.halt = halt /\ Mine("engine") = c
    BY Zenon DEF Mine
  <2> HIDE DEF c
  <2>2. Load(file').mode = mode /\ Load(file').halt = halt
    BY <1>6, <2>1, Zenon
  <2>3. FileWorking' = working
    BY <1>1, <1>6, Zenon DEF FileWorking
  <2>4. Due(Load(file).mode, Load(file).halt, mode, halt, working)
    BY <1>1, <1>3, Zenon DEF FileInv, EngineFile
  <2>5. Load(file).halt \in BOOLEAN /\ halt \in BOOLEAN
    BY DiskTyped, Zenon DEF GateTypeOK, LifeTypeOK
  <2>6. Load(file').halt \in BOOLEAN
    BY <2>2, <2>5, Zenon
  <2>7. Due(Load(file).mode, Load(file).halt, Load(file').mode, Load(file').halt, FileWorking')
    BY <2>2, <2>3, <2>4, Zenon DEF Due
  <2> QED
    BY <1>4, <2>5, <2>6, <2>7, DueIsStep, Zenon
<1> QED
  BY <1>3, <1>5, <1>6

LEMMA CommandSavesOnDisk ==
    ASSUME GateTypeOK, FileInv, ~beside, CommandSaves
    PROVE  OnDisk
<1>1. /\ ~up /\ cmd # "none" /\ UNCHANGED up
      /\ \/ (SaveOpen("command") \/ SaveWrite("command")) /\ UNCHANGED own
         \/ SaveReplace("command")
  BY Zenon DEF CommandSaves, FileInv, Alone, Rest, cmdVars
<1>2. "engine" \in Process /\ "command" \in Process /\ "engine" # "command"
  BY SMT DEF Process
<1>3. FileWorking = "none" /\ FileWorking' = "none"
  BY <1>1, Zenon DEF FileWorking
<1>4. Idle("engine") /\ Written
  BY <1>1, Zenon DEF FileInv, NobodySaves
<1>5. CASE (SaveOpen("command") \/ SaveWrite("command")) /\ UNCHANGED own
  <2>1. UNCHANGED Mine("command") /\ Written
    BY <1>2, <1>4, <1>5, Zenon DEF Mine
  <2>2. ~SaveReplace("command")
    BY <1>5, SMT DEF SaveOpen, SaveWrite, SaveReplace, GateTypeOK
  <2>3. UNCHANGED file
    BY <1>2, <1>4, <1>5, <2>1, <2>2, SaveAlone, Zenon
  <2> QED
    BY <1>3, <2>3, CallOnDisk, Zenon
<1>6. CASE SaveReplace("command")
  <2>1. io["command"] = "written" /\ tmp = own
    BY <1>2, <1>4, <1>6, Zenon DEF SaveReplace, Written, Mine
  <2>2. own \in Copy /\ own \notin {Absent, Torn}
    BY GateAssumption, Zenon DEF GateAssumption, GateTypeOK
  <2>3. Load(file') = own
    BY <1>6, <2>1, <2>2, Zenon DEF SaveReplace, Load
  <2>4. ~Idle("command")
    BY <2>1, SMT DEF Idle
  <2>5. Due(Load(file).mode, Load(file).halt, own.mode, own.halt, "none")
    BY <1>1, <2>4, Zenon DEF FileInv, CommandFile
  <2>6. Load(file).halt \in BOOLEAN /\ own.halt \in BOOLEAN
    BY <2>2, DiskTyped, CopyFields, Zenon
  <2>7. Load(file').halt \in BOOLEAN
    BY <2>3, <2>6, Zenon
  <2>8. Due(Load(file).mode, Load(file).halt, Load(file').mode, Load(file').halt, FileWorking')
    BY <1>3, <2>3, <2>5, Zenon DEF Due
  <2> QED
    BY <1>3, <2>6, <2>7, <2>8, DueIsStep, Zenon
<1> QED
  BY <1>1, <1>5, <1>6

LEMMA CloseAgainOnDisk ==
    ASSUME FileInv, ~beside, CloseAgain
    PROVE  OnDisk
<1>1. /\ up /\ Idle("engine") /\ UNCHANGED <<file, up, io>>
      /\ mode = "EXITING" /\ ~halt /\ working = "none" /\ working' = "close"
  BY Zenon DEF CloseAgain, RetryExit, Moves, diskVars
<1>2. Load(file).mode = "EXITING" /\ ~Load(file).halt /\ Load(file)' = Load(file)
  BY <1>1, Zenon DEF FileInv, EngineFile, Load
<1>3. FileWorking = "none" /\ FileWorking' = "close"
  BY <1>1, Zenon DEF FileWorking, Idle
<1>4. Durable!RetryExit
  BY <1>2, <1>3, Zenon DEF Durable!RetryExit, Durable!Moves
<1> QED
  BY <1>4, Zenon DEF OnDisk, Durable!LifeNext, Durable!LifeStep

\* Every other step leaves the file alone.
LEMMA OtherOnDisk ==
    ASSUME GateTypeOK, FileInv, FileInv', ~beside', [GateNext]_gateVars,
           ~EngineSaves, ~CommandSaves, ~CloseAgain
    PROVE  OnDisk
<1>1. UNCHANGED file
  BY Zenon DEF GateNext, Engine, Operator, Start, Ask, Arm, Enter, MoveOn, Book, AppendLine, Latch, TickSave,
     Steps, CallReturns, Down, Give, ClearHaltCommand, ClearCooldown, VerifyFunding,
     BackfillState, BackfillLedger, Edits, Ends, Elapse, gateVars, diskVars
<1>2. FileWorking' \in {FileWorking, "none"}
  <2>1. CASE Start
    BY <2>1, Zenon DEF Start, FileInv, NobodySaves, FileWorking
  <2>2. CASE Enter \/ MoveOn \/ Book \/ AppendLine \/ Latch \/ TickSave
    <3>1. Begins("engine")
      BY <2>2, Zenon DEF Enter, MoveOn, Book, AppendLine, Latch, TickSave, Steps
    <3>2. io'["engine"] = "begin"
      BY <3>1, SMT DEF Begins, GateTypeOK, Process
    <3>3. ~Idle("engine")'
      BY <3>2, SMT DEF Idle
    <3> QED
      BY <3>3, Zenon DEF FileWorking
  <2>3. CASE CallReturns
    BY <2>3, Zenon DEF CallReturns, CallEnds, FileWorking
  <2>4. CASE Down
    BY <2>4, Zenon DEF Down, FileWorking
  <2>5. CASE Operator
    <3>1. UNCHANGED <<up, working>> /\ ~up
      <4>1. Rest
        BY <2>5, Zenon DEF Operator, Give, ClearHaltCommand, ClearCooldown, VerifyFunding,
           BackfillState, BackfillLedger, Edits, Ends
      <4>2. ~beside /\ (cmd = "none" => ~up)
        BY <2>5, BesideStays, Zenon DEF Operator, Give, ClearHaltCommand, ClearCooldown,
           VerifyFunding, BackfillState, BackfillLedger, Edits, Ends
      <4> QED
        BY <4>1, <4>2, Zenon DEF Rest, lifeVars, FileInv, Alone
    <3> QED
      BY <3>1, Zenon DEF FileWorking
  <2>6. CASE Ask \/ Arm \/ Elapse \/ UNCHANGED gateVars
    <3>1. UNCHANGED <<up, io, working>>
      BY <2>6, Zenon DEF Ask, Arm, Elapse, gateVars, lifeVars
    <3>2. FileWorking' = FileWorking
      BY <3>1, Zenon DEF FileWorking, Idle
    <3> QED
      BY <3>2
  <2> QED
    BY <2>1, <2>2, <2>3, <2>4, <2>5, <2>6, Zenon DEF GateNext, Engine
<1> QED
  BY <1>1, <1>2, CallOnDisk

\* Whatever dies wherever, what is on disk is a state of the lifecycle and
\* each save takes it one step on (StateMachine.save, by way of state.tmp).
THEOREM FileFollowsLifecycle == GateSpec => DurableLifecycle
<1> DEFINE Step == ~beside' => OnDisk
<1>1. (GateTypeOK /\ FileInv) /\ (GateTypeOK /\ FileInv)' /\ [GateNext]_gateVars => Step
  BY BesideStays, EngineSavesOnDisk, CommandSavesOnDisk, CloseAgainOnDisk, OtherOnDisk, Zenon
<1>2. Step => (~beside' => Durable!LifeNext \/ UNCHANGED Durable!lifeVars)
  BY Zenon DEF OnDisk
<1> HIDE DEF Step
<1> QED
  BY <1>1, <1>2, FileHolds, PTL DEF GateSpec, DurableLifecycle

\* No line of the ledger is lost, wherever a backfill is cut off
\* (backfill_venue_realized's rewrite and rename).
THEOREM LedgerStands == GateSpec => LedgerKeepsRounds
<1> DEFINE Step == ~beside' => lines' >= lines
<1>1. ASSUME GateTypeOK, FileInv, [GateNext]_gateVars PROVE Step
  <2> SUFFICES ASSUME ~beside' PROVE lines' >= lines
    OBVIOUS
  <2>1. ~beside
    BY <1>1, BesideStays
  <2>2. lines \in Nat
    BY <1>1, GateAssumption, SMT DEF GateTypeOK, GateAssumption
  <2>3. CASE BackfillLedger
    <3>1. lines' = seen /\ seen > 0
      BY <2>3, Zenon DEF BackfillLedger
    <3>2. seen # 0 => seen = lines
      BY <1>1, <2>1, Zenon DEF FileInv, LedgerRead
    <3> QED
      BY <2>2, <3>1, <3>2, SMT
  <2>4. CASE AppendLine
    <3>1. lines' \in {lines} \cup {n \in {lines + 1} : n <= MaxLines}
      BY <2>4, Zenon DEF AppendLine
    <3> QED
      BY <2>2, <3>1, SMT
  <2>5. CASE ~BackfillLedger /\ ~AppendLine
    <3>1. UNCHANGED lines
      BY <1>1, <2>5, Zenon DEF GateNext, Engine, Operator, Start, Ask, Arm, Enter, MoveOn, Book, Latch,
         TickSave, CloseAgain, CallReturns, EngineSaves, CommandSaves, SaveOpen, SaveWrite,
         SaveReplace, Down, Give, ClearHaltCommand, ClearCooldown, VerifyFunding,
         BackfillState, Edits, Ends, Elapse, gateVars, diskVars
    <3> QED
      BY <2>2, <3>1, SMT
  <2> QED
    BY <2>3, <2>4, <2>5
<1>2. (GateTypeOK /\ FileInv) /\ [GateNext]_gateVars => Step
  BY <1>1
<1> QED
  BY <1>2, FileHolds, PTL DEF GateSpec, LedgerKeepsRounds

-----------------------------------------------------------------------------
(***************************************************************************)
(* A refusal stands: in the file, in the engine and in what a command is   *)
(* about to write.                                                         *)
(***************************************************************************)
Closed == refused => Load(file).att = None /\ (up => att = None)

CommandCloses ==
    cmd # "none" =>
        IF cmd # "verify-funding" \/ Idle("command") THEN refused => own.att = None
        ELSE ~verdict => own.att = None

RefusalInv == ~beside => Closed /\ CommandCloses

\* The files, the refusal and what the command makes of it are left alone.
LEMMA RefusalFrame ==
    ASSUME RefusalInv, UNCHANGED <<refused, verdict, file, cmd, own>>,
           ~beside' => ~beside, Idle("command")' <=> Idle("command"),
           up' => att' = Load(file).att \/ (up /\ att' = att)
    PROVE  RefusalInv'
<1>1. Load(file)' = Load(file)
  BY Zenon DEF Load
<1> QED
  BY <1>1, Zenon DEF RefusalInv, Closed, CommandCloses

LEMMA EngineKeepsRefusal ==
    ASSUME GateTypeOK, FileInv, RefusalInv, Engine \/ Down
    PROVE  RefusalInv'
<1>1. ~beside' => ~beside
  BY BesideStays, Zenon DEF GateNext
<1>2. CASE EngineSaves
  <2> SUFFICES ASSUME ~beside' PROVE Closed' /\ CommandCloses'
    BY Zenon DEF RefusalInv
  <2>1. /\ UNCHANGED <<copyVars, up>> /\ up /\ cmd' = "none" /\ cmd = "none"
        /\ SaveOpen("engine") \/ SaveWrite("engine") \/ SaveReplace("engine")
    BY <1>1, <1>2, Zenon DEF EngineSaves, FileInv, Alone, cmdVars
  <2>2. UNCHANGED refused
    BY <1>2, Zenon DEF EngineSaves, Saved, history
  <2>3. "engine" \in Process /\ "command" \in Process /\ "engine" # "command"
    BY SMT DEF Process
  <2>4. UNCHANGED file \/ Load(file') = Mine("engine")
    <3>1. Idle("command") /\ Written /\ UNCHANGED Mine("engine")
      BY <1>1, <2>1, Zenon DEF FileInv, NobodySaves, Mine, copyVars
    <3> QED
      BY <2>1, <2>3, <3>1, SaveAlone, Zenon
  <2>5. Mine("engine").att = att
    <3> DEFINE c == [mode |-> mode, halt |-> halt, att |-> att]
    <3>1. c.att = att /\ Mine("engine") = c
      BY Zenon DEF Mine
    <3> HIDE DEF c
    <3> QED
      BY <3>1, Zenon
  <2>6. Load(file').att \in {Load(file).att, att}
    BY <2>4, <2>5, Zenon DEF Load
  <2> QED
    BY <1>1, <2>1, <2>2, <2>6, Zenon DEF RefusalInv, Closed, CommandCloses, copyVars
<1>3. CASE ~EngineSaves
  <2>1. /\ UNCHANGED <<refused, verdict, file, cmd, own>>
        /\ up' => att' = Load(file).att \/ (up /\ att' = att)
    BY <1>3, Zenon DEF Engine, Down, Start, Ask, Arm, Enter, MoveOn, Book, AppendLine, Latch, TickSave, Steps,
       CloseAgain, CallReturns, diskVars, cmdVars, history
  <2>2. io' = io \/ Begins("engine") \/ io' = [io EXCEPT !["engine"] = "no"]
    BY <1>3, Zenon DEF Engine, Down, Start, Ask, Arm, Enter, MoveOn, Book, AppendLine, Latch, TickSave, Steps,
       CloseAgain, CallReturns
  <2>3. io'["command"] = io["command"]
    BY <2>2, SMT DEF Begins, GateTypeOK, Process
  <2> QED
    BY <1>1, <2>1, <2>3, RefusalFrame, Zenon DEF Idle
<1> QED
  BY <1>2, <1>3

LEMMA EditKeepsRefusal ==
    ASSUME GateTypeOK, RefusalInv,
           ClearHaltCommand \/ ClearCooldown \/ VerifyFunding \/ BackfillState
    PROVE  RefusalInv'
<1> SUFFICES ASSUME ~beside' PROVE Closed' /\ CommandCloses'
  BY Zenon DEF RefusalInv
<1>1. /\ ~beside /\ cmd # "none" /\ Idle("command")
      /\ UNCHANGED <<refused, file, up, att, cmd>>
      /\ Begins("command")
  <2>1. PICK c, copy : Edits(c, copy) /\ c \in Command
    BY Zenon DEF ClearHaltCommand, ClearCooldown, VerifyFunding, BackfillState, Command
  <2>2. c # "none"
    BY <2>1, SMT DEF Command
  <2> QED
    BY <2>1, <2>2, Zenon DEF Edits, Rest, diskVars
<1>2. Closed'
  BY <1>1, Zenon DEF RefusalInv, Closed, Load
<1>3. refused => own.att = None
  BY <1>1, Zenon DEF RefusalInv, CommandCloses
<1>4. own = [mode |-> own.mode, halt |-> own.halt, att |-> own.att]
  BY SMT DEF GateTypeOK, Copy
<1>5. CASE ClearHaltCommand \/ ClearCooldown \/ BackfillState
  <2>1. cmd' # "verify-funding"
    BY <1>1, <1>5, Zenon DEF ClearHaltCommand, ClearCooldown, BackfillState, Edits
  <2>2. ASSUME NEW x, own' = [own EXCEPT !.halt = x] \/ own' = [own EXCEPT !.mode = x] \/ own' = own
        PROVE  own'.att = own.att
    <3>1. PICK m, h : own' = [mode |-> m, halt |-> h, att |-> own.att]
      BY <1>4, <2>2, SMT
    <3> QED
      BY <3>1, Zenon
  <2>3. own'.att = own.att
    BY <1>5, <2>2, Zenon DEF ClearHaltCommand, ClearCooldown, BackfillState, Edits
  <2> QED
    BY <1>1, <1>2, <1>3, <2>1, <2>3, Zenon DEF CommandCloses
<1>6. CASE VerifyFunding
  <2>1. PICK rows \in Streams, ratios \in Ratios :
          /\ own' = [own EXCEPT !.att = Attested(rows, ratios)]
          /\ verdict' = Proves(rows, ratios)
          /\ cmd = "verify-funding"
    BY <1>6, Zenon DEF VerifyFunding, Edits
  <2>2. PICK a : a = Attested(rows, ratios)
    OBVIOUS
  <2>3. own' = [mode |-> own.mode, halt |-> own.halt, att |-> a]
    BY <1>4, <2>1, <2>2, SMT
  <2>4. own'.att = a
    BY <2>3, Zenon
  <2>5. ~verdict' => own'.att = None
    BY <2>1, <2>2, <2>4, Zenon DEF Attested
  <2>6. ~Idle("command")'
    <3>1. io'["command"] = "begin"
      BY <1>1, SMT DEF Begins, GateTypeOK, Process
    <3> QED
      BY <3>1, SMT DEF Idle
  <2> QED
    BY <1>1, <1>2, <2>1, <2>5, <2>6, Zenon DEF CommandCloses
<1> QED
  BY <1>5, <1>6

LEMMA CommandSavesKeepsRefusal ==
    ASSUME GateTypeOK, FileInv, RefusalInv, CommandSaves
    PROVE  RefusalInv'
<1> SUFFICES ASSUME ~beside' PROVE Closed' /\ CommandCloses'
  BY Zenon DEF RefusalInv
<1>1. ~beside
  BY BesideStays, Zenon DEF GateNext, Operator
<1>2. "engine" \in Process /\ "command" \in Process /\ "engine" # "command"
  BY SMT DEF Process
<1>3. ~up /\ ~up' /\ cmd # "none" /\ Idle("engine") /\ Written
  BY <1>1, Zenon DEF CommandSaves, Rest, FileInv, Alone, NobodySaves
<1>4. CASE (SaveOpen("command") \/ SaveWrite("command")) /\ UNCHANGED <<cmdVars, history>>
  <2>1. UNCHANGED Mine("command") /\ UNCHANGED <<cmd, own, refused, verdict>>
    BY <1>2, <1>4, Zenon DEF Mine, cmdVars, history
  <2>2. ~SaveReplace("command")
    BY <1>4, SMT DEF SaveOpen, SaveWrite, SaveReplace, GateTypeOK
  <2>3. UNCHANGED file /\ ~Idle("command") /\ ~Idle("command")'
    BY <1>2, <1>3, <1>4, <2>1, <2>2, SaveAlone, Zenon
  <2> QED
    BY <1>1, <1>3, <2>1, <2>3, Zenon DEF RefusalInv, Closed, CommandCloses, Load
<1>5. CASE SaveReplace("command")
  <2>1. io["command"] = "written" /\ tmp = own
    BY <1>2, <1>3, <1>5, Zenon DEF SaveReplace, Written, Mine
  <2>2. own \in Copy /\ own \notin {Absent, Torn}
    BY GateAssumption, Zenon DEF GateAssumption, GateTypeOK
  <2>3. Load(file') = own
    BY <1>5, <2>1, <2>2, Zenon DEF SaveReplace, Load
  <2>4. ~Idle("command")
    BY <2>1, SMT DEF Idle
  <2>5. Saved("command")
    <3>1. ~SaveOpen("command") /\ ~SaveWrite("command")
      BY <2>1, SMT DEF SaveOpen, SaveWrite
    <3> QED
      BY <2>1, <2>2, <3>1, Zenon DEF CommandSaves
  <2>6. refused' => own.att = None
    BY <1>1, <1>3, <2>4, <2>5, Zenon DEF Saved, RefusalInv, CommandCloses
  <2>7. Closed'
    BY <1>3, <2>3, <2>6, Zenon DEF Closed
  <2>8. cmd' = "none" \/ (cmd' = "backfill-venue-pnl" /\ own' = own)
    <3>1. ~SaveOpen("command") /\ ~SaveWrite("command")
      BY <2>1, SMT DEF SaveOpen, SaveWrite
    <3> QED
      BY <3>1, Zenon DEF CommandSaves
  <2>9. "backfill-venue-pnl" # "verify-funding"
    OBVIOUS
  <2> QED
    BY <2>6, <2>7, <2>8, <2>9, Zenon DEF CommandCloses
<1> QED
  BY <1>4, <1>5, Zenon DEF CommandSaves

LEMMA OperatorKeepsRefusal ==
    ASSUME GateTypeOK, FileInv, RefusalInv, Operator
    PROVE  RefusalInv'
<1>1. ~beside' => ~beside
  BY BesideStays, Zenon DEF GateNext
<1>2. CASE \E c \in Command : Give(c)
  <2>1. /\ UNCHANGED <<refused, up, att, file>> /\ own' = Load(file)
        /\ cmd = "none" /\ UNCHANGED io
    BY <1>2, Zenon DEF Give, Rest, diskVars
  <2>2. Idle("command")'
    BY <2>1, Zenon DEF FileInv, NobodySaves, Idle
  <2>3. Load(file)' = Load(file)
    BY <2>1, Zenon DEF Load
  <2> QED
    BY <1>1, <2>1, <2>2, <2>3, Zenon DEF RefusalInv, Closed, CommandCloses
<1>3. CASE Ends \/ BackfillLedger
  <2>1. UNCHANGED <<refused, up, att, file>> /\ cmd' = "none"
    BY <1>3, Zenon DEF Ends, BackfillLedger, Rest, diskVars, history
  <2> QED
    BY <1>1, <2>1, Zenon DEF RefusalInv, Closed, CommandCloses, Load
<1> QED
  BY <1>2, <1>3, EditKeepsRefusal, CommandSavesKeepsRefusal, Zenon DEF Operator

LEMMA RefusalHolds == GateSpec => []RefusalInv
<1>1. GateInit => RefusalInv
  BY Zenon DEF GateInit, RefusalInv, Closed, CommandCloses
<1>2. ASSUME GateTypeOK, FileInv, RefusalInv, [GateNext]_gateVars PROVE RefusalInv'
  <2>1. CASE Elapse \/ UNCHANGED gateVars
    <3>1. /\ UNCHANGED <<refused, verdict, file, cmd, own>>
          /\ UNCHANGED <<up, att, io, beside>>
      BY <2>1, Zenon DEF Elapse, gateVars, diskVars, cmdVars, history
    <3> QED
      BY <1>2, <3>1, RefusalFrame, Zenon DEF Idle
  <2> QED
    BY <1>2, <2>1, EngineKeepsRefusal, OperatorKeepsRefusal, Zenon DEF GateNext
<1>3. (GateTypeOK /\ FileInv) /\ RefusalInv /\ [GateNext]_gateVars => RefusalInv'
  BY <1>2
<1> QED
  BY <1>1, <1>3, FileHolds, PTL DEF GateSpec

\* A verdict that clears the way was given by an engine that is still up, and
\* no refusal has been saved since.
UnrefusedInv ==
    cleared => up /\ (~beside /\ ~LitSwap /\ Expected \notin Published => ~refused)

LEMMA UnrefusedHolds == GateSpec => []UnrefusedInv
<1>1. GateInit => UnrefusedInv
  BY Zenon DEF GateInit, UnrefusedInv
<1>2. ASSUME FileInv, RefusalInv, UnrefusedInv, [GateNext]_gateVars PROVE UnrefusedInv'
  <2>1. ~beside' => ~beside
    BY <1>2, BesideStays
  <2>2. CASE Ask
    <3>1. up /\ cleared' = Gate /\ UNCHANGED <<up, refused>>
      BY <2>2, Zenon DEF Ask, history
    <3>2. ASSUME Gate, ~beside, ~LitSwap, Expected \notin Published PROVE ~refused
      BY <1>2, <3>1, <3>2, GateNeedsProof, Zenon DEF RefusalInv, Closed
    <3> QED
      BY <2>1, <3>1, <3>2, Zenon DEF UnrefusedInv
  <2>3. CASE (Engine /\ ~Ask) \/ Down
    <3>1. UNCHANGED refused
      <4>1. Saved("engine") => UNCHANGED refused
        BY SMT DEF Saved
      <4> QED
        BY <2>3, <4>1, Zenon DEF Engine, Down, Start, Arm, Enter, MoveOn, Book, AppendLine, Latch,
           TickSave, Steps, CloseAgain, CallReturns, EngineSaves, history
    <3>2. cleared' => cleared
      BY <1>2, <2>3, ClearedKept, Zenon DEF Down, Ask, Drops
    <3>3. cleared' => up'
      BY <1>2, <2>3, <3>2, Zenon DEF Engine, Down, Start, Arm, Enter, MoveOn, Book, AppendLine,
         Latch, TickSave, Steps, CloseAgain, CallReturns, EngineSaves, UnrefusedInv, Drops
    <3> QED
      BY <1>2, <2>1, <3>1, <3>2, <3>3, Zenon DEF UnrefusedInv
  <2>4. CASE Operator
    <3>1. \/ UNCHANGED <<up, cleared>> /\ cmd # "none"
          \/ UNCHANGED <<up, cleared, refused>>
      BY <2>4, Zenon DEF Operator, Give, ClearHaltCommand, ClearCooldown, VerifyFunding, Command,
         BackfillState, BackfillLedger, CommandSaves, Ends, Edits, Rest, tickVars
    <3> QED
      BY <1>2, <2>1, <3>1, Zenon DEF UnrefusedInv, FileInv, Alone
  <2>5. CASE Elapse \/ UNCHANGED gateVars
    <3>1. UNCHANGED <<up, cleared, refused, beside>>
      BY <2>5, Zenon DEF Elapse, gateVars, history, tickVars
    <3> QED
      BY <1>2, <3>1, Zenon DEF UnrefusedInv
  <2> QED
    BY <1>2, <2>2, <2>3, <2>4, <2>5, Zenon DEF GateNext
<1>3. (GateTypeOK /\ FileInv) /\ RefusalInv /\ UnrefusedInv /\ [GateNext]_gateVars => UnrefusedInv'
  BY <1>2
<1> QED
  BY <1>1, <1>3, FileHolds, RefusalHolds, PTL DEF GateSpec

\* With the engine stopped for it, settlements that refute the cadence close
\* the door: no restart reopens it (verify_funding clears the attestation).
THEOREM RefusalsStand == GateSpec => RefusalStands
<1> DEFINE Step == Opens /\ ~beside /\ ~LitSwap /\ Expected \notin Published => ~refused
<1>1. ASSUME UnrefusedInv, [GateNext]_gateVars PROVE Step
  BY <1>1, OpensCleared, Zenon DEF UnrefusedInv
<1>2. UnrefusedInv /\ [GateNext]_gateVars => Step
  BY <1>1
<1> QED
  BY <1>2, UnrefusedHolds, PTL DEF GateSpec, RefusalStands

-----------------------------------------------------------------------------
(***************************************************************************)
(* A HALT stays latched: in the file, in the engine, and in what a command *)
(* is about to write.                                                      *)
(***************************************************************************)
Latched ==
    latched => /\ Load(file).halt
               /\ up => halt
               /\ cmd \notin {"none", "clear-halt"} => own.halt

HaltInv == ~beside => Latched

\* No step of the engine in which it stays up takes its HALT back.
LEMMA EngineKeepsHalt ==
    ASSUME Engine, ~Start, halt
    PROVE  halt'
BY Zenon DEF Engine, Ask, Arm, Enter, MoveOn, Book, AppendLine, Latch, TickSave, Steps, CloseAgain, CallReturns,
   EngineSaves, copyVars, lifeVars, Moves, BeginEntry, ConfirmHold, AbortEntry, RollBackEntry,
   BeginExit, FinishExit, LeaveCooldown, RetryExit, CallEnds, SetHalt

LEMMA EngineStaysLatched ==
    ASSUME GateTypeOK, FileInv, HaltInv, Engine \/ Down
    PROVE  HaltInv'
<1> SUFFICES ASSUME ~beside' PROVE Latched'
  BY Zenon DEF HaltInv
<1>1. ~beside
  BY BesideStays, Zenon DEF GateNext
<1>2. CASE EngineSaves
  <2>1. /\ UNCHANGED <<mode, halt, att, up>> /\ up /\ cmd' = "none" /\ cmd = "none"
        /\ SaveOpen("engine") \/ SaveWrite("engine") \/ SaveReplace("engine")
    BY <1>1, <1>2, Zenon DEF EngineSaves, FileInv, Alone, cmdVars, copyVars
  <2>2. "engine" \in Process /\ "command" \in Process /\ "engine" # "command"
    BY SMT DEF Process
  <2>3. \/ UNCHANGED file /\ ~Idle("engine")' /\ ~SaveReplace("engine")
        \/ Load(file') = Mine("engine")
    <3>1. Idle("command") /\ Written /\ UNCHANGED Mine("engine")
      BY <1>1, <2>1, Zenon DEF FileInv, NobodySaves, Mine
    <3> QED
      BY <2>1, <2>2, <3>1, SaveAlone, Zenon
  <2>4. Mine("engine").halt = halt
    <3> DEFINE c == [mode |-> mode, halt |-> halt, att |-> att]
    <3>1. c.halt = halt /\ Mine("engine") = c
      BY Zenon DEF Mine
    <3> HIDE DEF c
    <3> QED
      BY <3>1, Zenon
  <2>5. CASE UNCHANGED file /\ ~Idle("engine")' /\ ~SaveReplace("engine")
    <3>1. UNCHANGED latched
      BY <1>2, <2>5, Zenon DEF EngineSaves, history
    <3> QED
      BY <1>1, <2>1, <2>5, <3>1, Zenon DEF HaltInv, Latched, Load
  <2>6. CASE Load(file') = Mine("engine")
    <3>1. latched' => latched \/ halt
      BY <1>2, Zenon DEF EngineSaves, Saved, history
    <3>2. latched' => halt
      BY <1>1, <2>1, <3>1, Zenon DEF HaltInv, Latched
    <3> QED
      BY <2>1, <2>4, <2>6, <3>2, Zenon DEF Latched
  <2> QED
    BY <2>3, <2>5, <2>6
<1>3. CASE ~EngineSaves
  <2>1. UNCHANGED <<latched, file, cmd, own>>
    BY <1>3, Zenon DEF Engine, Down, Start, Ask, Arm, Enter, MoveOn, Book, AppendLine, Latch, TickSave, Steps,
       CloseAgain, CallReturns, diskVars, cmdVars, history
  <2>2. Load(file)' = Load(file)
    BY <2>1, Zenon DEF Load
  <2>3. CASE Start
    <3>1. halt' = Load(file).halt
      BY <2>3, Zenon DEF Start
    <3> QED
      BY <1>1, <2>1, <2>2, <3>1, Zenon DEF HaltInv, Latched
  <2>4. CASE Down
    <3>1. ~up'
      BY <2>4, Zenon DEF Down
    <3> QED
      BY <1>1, <2>1, <2>2, <3>1, Zenon DEF HaltInv, Latched
  <2>5. CASE Engine /\ ~Start
    <3>1. up
      BY <2>5, Zenon DEF Engine, Ask, Arm, Enter, MoveOn, Book, AppendLine, Latch, TickSave, Steps,
         CloseAgain, CallReturns, EngineSaves
    <3>2. halt => halt'
      BY <2>5, EngineKeepsHalt
    <3> QED
      BY <1>1, <2>1, <2>2, <3>1, <3>2, Zenon DEF HaltInv, Latched
  <2> QED
    BY <2>3, <2>4, <2>5
<1> QED
  BY <1>2, <1>3

LEMMA CommandStaysLatched ==
    ASSUME GateTypeOK, FileInv, HaltInv, CommandSaves
    PROVE  HaltInv'
<1> SUFFICES ASSUME ~beside' PROVE Latched'
  BY Zenon DEF HaltInv
<1>1. ~beside
  BY BesideStays, Zenon DEF GateNext, Operator
<1>2. "engine" \in Process /\ "command" \in Process /\ "engine" # "command"
  BY SMT DEF Process
<1>3. ~up' /\ cmd # "none" /\ Idle("engine") /\ Written
  BY <1>1, Zenon DEF CommandSaves, Rest, FileInv, Alone, NobodySaves
<1>4. CASE (SaveOpen("command") \/ SaveWrite("command")) /\ UNCHANGED <<cmdVars, history>>
  <2>1. UNCHANGED Mine("command") /\ UNCHANGED <<cmd, own, latched>>
    BY <1>2, <1>4, Zenon DEF Mine, cmdVars, history
  <2>2. ~SaveReplace("command")
    BY <1>4, SMT DEF SaveOpen, SaveWrite, SaveReplace, GateTypeOK
  <2>3. UNCHANGED file
    BY <1>2, <1>3, <1>4, <2>1, <2>2, SaveAlone, Zenon
  <2> QED
    BY <1>1, <1>3, <2>1, <2>3, Zenon DEF HaltInv, Latched, Load
<1>5. CASE SaveReplace("command")
  <2>1. io["command"] = "written" /\ tmp = own
    BY <1>2, <1>3, <1>5, Zenon DEF SaveReplace, Written, Mine
  <2>2. own \in Copy /\ own \notin {Absent, Torn}
    BY GateAssumption, Zenon DEF GateAssumption, GateTypeOK
  <2>3. Load(file') = own
    BY <1>5, <2>1, <2>2, Zenon DEF SaveReplace, Load
  <2>4. Saved("command") /\ (cmd' = "none" \/ (cmd' = cmd /\ own' = own))
    <3>1. ~SaveOpen("command") /\ ~SaveWrite("command")
      BY <2>1, SMT DEF SaveOpen, SaveWrite
    <3>2. Saved("command")
      BY <2>1, <2>2, <3>1, Zenon DEF CommandSaves
    <3>3. cmd' = "none" \/ (cmd' = cmd /\ own' = own)
      BY <3>1, Zenon DEF CommandSaves
    <3> QED
      BY <3>2, <3>3
  <2>5. latched' => latched /\ cmd # "clear-halt"
    BY <1>2, <2>4, Zenon DEF Saved
  <2>6. latched' => own.halt
    BY <1>1, <1>3, <2>5, SMT DEF HaltInv, Latched
  <2> QED
    BY <1>3, <2>3, <2>4, <2>6, SMT DEF Latched
<1> QED
  BY <1>4, <1>5, Zenon DEF CommandSaves

LEMMA OperatorStaysLatched ==
    ASSUME GateTypeOK, FileInv, HaltInv, Operator
    PROVE  HaltInv'
<1>1. ~beside' => ~beside
  BY BesideStays, Zenon DEF GateNext
<1>2. CASE \E c \in Command : Give(c)
  <2>1. UNCHANGED <<latched, up, halt, file>> /\ own' = Load(file)
    BY <1>2, Zenon DEF Give, Rest, lifeVars, diskVars
  <2>2. Load(file)' = Load(file)
    BY <2>1, Zenon DEF Load
  <2> QED
    BY <1>1, <2>1, <2>2, Zenon DEF HaltInv, Latched
<1>3. CASE Ends \/ BackfillLedger
  <2>1. UNCHANGED <<latched, up, halt, file>> /\ cmd' = "none"
    BY <1>3, Zenon DEF Ends, BackfillLedger, Rest, lifeVars, diskVars, history
  <2>2. Load(file)' = Load(file)
    BY <2>1, Zenon DEF Load
  <2> QED
    BY <1>1, <2>1, <2>2, Zenon DEF HaltInv, Latched
<1>4. CASE ClearHaltCommand \/ ClearCooldown \/ VerifyFunding \/ BackfillState
  <2>1. UNCHANGED <<latched, up, halt, file, cmd>>
    BY <1>4, Zenon DEF ClearHaltCommand, ClearCooldown, VerifyFunding, BackfillState, Edits,
       Rest, lifeVars, diskVars
  <2>2. Load(file)' = Load(file)
    BY <2>1, Zenon DEF Load
  <2>3. cmd = "clear-halt" \/ own'.halt = own.halt
    <3>1. own = [mode |-> own.mode, halt |-> own.halt, att |-> own.att]
      BY SMT DEF GateTypeOK, Copy
    <3>2. ASSUME NEW x, own' = [own EXCEPT !.att = x] \/ own' = [own EXCEPT !.mode = x] \/ own' = own
          PROVE  own'.halt = own.halt
      <4>1. PICK m, a : own' = [mode |-> m, halt |-> own.halt, att |-> a]
        BY <3>1, <3>2, SMT
      <4> QED
        BY <4>1, Zenon
    <3>3. CASE ClearHaltCommand
      BY <3>3, Zenon DEF ClearHaltCommand, Edits
    <3>4. CASE ClearCooldown \/ VerifyFunding \/ BackfillState
      BY <3>2, <3>4, Zenon DEF ClearCooldown, VerifyFunding, BackfillState, Edits
    <3> QED
      BY <1>4, <3>3, <3>4
  <2> QED
    BY <1>1, <2>1, <2>2, <2>3, SMT DEF HaltInv, Latched
<1> QED
  BY <1>2, <1>3, <1>4, CommandStaysLatched, Zenon DEF Operator

\* With the engine stopped for the commands, a HALT that was saved holds in
\* every engine until a clear-halt has saved, whichever save is cut off
\* (set_halt, save, _load, clear_halt_and_ledger).
THEOREM HaltsStay == GateSpec => []HaltStaysLatched
<1>1. GateInit => HaltInv
  BY Zenon DEF GateInit, HaltInv, Latched
<1>2. ASSUME GateTypeOK, FileInv, HaltInv, [GateNext]_gateVars PROVE HaltInv'
  <2>1. CASE Elapse \/ UNCHANGED gateVars
    <3>1. UNCHANGED <<latched, beside, up, halt, file, cmd, own>>
      BY <2>1, Zenon DEF Elapse, gateVars, lifeVars, diskVars, cmdVars, history
    <3> QED
      BY <1>2, <3>1, Zenon DEF HaltInv, Latched, Load
  <2> QED
    BY <1>2, <2>1, EngineStaysLatched, OperatorStaysLatched, Zenon DEF GateNext
<1>3. (GateTypeOK /\ FileInv) /\ HaltInv /\ [GateNext]_gateVars => HaltInv'
  BY <1>2
<1>4. HaltInv => HaltStaysLatched
  BY Zenon DEF HaltInv, Latched, HaltStaysLatched
<1> QED
  BY <1>1, <1>3, <1>4, FileHolds, PTL DEF GateSpec
================================================================================
