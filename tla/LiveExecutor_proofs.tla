------------------------ MODULE LiveExecutor_proofs ------------------------
(***************************************************************************)
(* Every step of the venues and of the executor keeps their variables in   *)
(* their types.  The type alone is not inductive: ExecShape adds what the  *)
(* retry of a close and the re-quote loop rely on.  The modules that run   *)
(* the executor cite ExecStepKeeps, and VenueStepKeeps of Venues_proofs.   *)
(***************************************************************************)
EXTENDS LiveExecutor, Venues_proofs

ExecShape ==
    /\ pc = "retry" => call = "close" /\ got[leg] < legs[leg]
    /\ pc \in {"wait", "cancel", "verify"} => quotes > 0

ExecInv == VenueTypeOK /\ ExecTypeOK /\ ExecShape

-----------------------------------------------------------------------------
\* What rounding down to a size step returns: no more than the quantity, and
\* a natural number for one (tick.quantize_down).
LEMMA QuantizeDownNat ==
    ASSUME NEW n \in Nat, NEW s \in Nat \ {0}
    PROVE  QuantizeDown(n, s) \in Nat /\ QuantizeDown(n, s) <= n
<1>1. n % s \in 0 .. s - 1
  BY SMT
<1>2. n = s * (n \div s) + (n % s)
  BY SMT
<1>3. n \div s \in Nat
  BY SMT
<1>4. s * (n \div s) \in Nat
  BY <1>3, SMT
<1> QED
  BY <1>1, <1>2, <1>4, SMT DEF QuantizeDown

\* Of any integer it is an integer.
LEMMA QuantizeDownInt ==
    ASSUME NEW n \in Int, NEW s \in Nat \ {0}
    PROVE  QuantizeDown(n, s) \in Int
<1>1. n % s \in 0 .. s - 1
  BY SMT
<1> QED
  BY <1>1, SMT DEF QuantizeDown

\* The absolute value of an integer is a natural number.
LEMMA AbsNat ==
    ASSUME NEW n \in Int
    PROVE  Abs(n) \in Nat
BY SMT DEF Abs

-----------------------------------------------------------------------------
\* A quote adds to what rests.
LEMMA RestTyped ==
    ASSUME VenueTypeOK, NEW n \in Nat, Rest(n)
    PROVE  VenueTypeOK'
<1>1. Side \in Kind
  BY Zenon DEF Side, Kind
<1> QED
  BY <1>1, SMT DEF VenueTypeOK, Rest

\* A call that is over, or has not begun, is typed.
LEMMA ForgetTyped ==
    ASSUME armed' \in BOOLEAN, maker' \in BOOLEAN, legs' \in [Venue -> Nat], Forget
    PROVE  ExecTypeOK' /\ ExecShape'
<1>1. Flat \in [Venue -> Nat] /\ "var" \in Venue
  BY SMT DEF Flat, Venue
<1>2. 0 \in 0 .. MaxRequotes + 1
  BY ExecutorAssumption, SMT
<1> QED
  BY <1>1, <1>2, Zenon DEF Forget, ExecTypeOK, ExecShape, Pcs, Outcomes

\* A new call is typed.
LEMMA CalledTyped ==
    ASSUME ExecTypeOK, NEW c \in {"open", "close"}, NEW passive \in BOOLEAN,
           armed' \in BOOLEAN, maker' \in BOOLEAN, legs' \in [Venue -> Nat],
           Called(c, passive)
    PROVE  ExecTypeOK' /\ ExecShape'
<1>1. Flat \in [Venue -> Nat] /\ "var" \in Venue
  BY SMT DEF Flat, Venue
<1>2. MaxRequotes + 1 \in 0 .. MaxRequotes + 1
  BY ExecutorAssumption, SMT
<1> QED
  BY <1>1, <1>2, Zenon DEF Called, ExecTypeOK, ExecShape, Pcs, Outcomes

\* The ways on within a call that leave its locals alone: a jump to a place
\* that ExecShape says nothing of, a return, an exception.
LEMMA GotoTyped ==
    ASSUME ExecTypeOK, UNCHANGED ledgerVars,
           NEW p \in Pcs \ {"retry", "wait", "cancel", "verify"}, Goto(p)
    PROVE  ExecTypeOK' /\ ExecShape'
BY Zenon DEF ExecTypeOK, ExecShape, ledgerVars, Goto

LEMMA ReturnTyped ==
    ASSUME ExecTypeOK, UNCHANGED ledgerVars, NEW outcome \in Outcomes, Return(outcome)
    PROVE  ExecTypeOK' /\ ExecShape'
BY Zenon DEF ExecTypeOK, ExecShape, ledgerVars, Return, Pcs

LEMMA RaiseTyped ==
    ASSUME ExecTypeOK, UNCHANGED ledgerVars, Raise
    PROVE  ExecTypeOK' /\ ExecShape'
<1>1. "pull" \in Pcs \ {"retry", "wait", "cancel", "verify"} /\ {"raised", "error"} \subseteq Outcomes
  BY SMT DEF Pcs, Outcomes
<1> QED
  BY <1>1, GotoTyped, ReturnTyped, Zenon DEF Raise

\* Every target and every tolerance test is about integers.
LEMMA StepTyped ==
    ASSUME NEW v \in Venue
    PROVE  StepOf(v) \in Nat \ {0}
BY VenueAssumption, SMT DEF StepOf

LEMMA TargetNat ==
    ASSUME ExecTypeOK, NEW v \in Venue
    PROVE  Target(v) \in Nat
<1>1. legs[v] \in Nat /\ got["var"] \in Nat
  BY SMT DEF ExecTypeOK, Venue
<1>2. Lots(got["var"]) \in Nat
  BY <1>1, VenueAssumption, QuantizeDownNat, Zenon DEF Lots
<1> QED
  BY <1>1, <1>2, ExecutorAssumption, SMT DEF Target

LEMMA DeltaInt ==
    ASSUME ExecTypeOK, NEW v \in Venue, NEW r \in Nat
    PROVE  Delta(v, r) \in Int
BY SMT DEF ExecTypeOK, Delta

LEMMA RemainingInt ==
    ASSUME ExecTypeOK, NEW r \in Nat
    PROVE  Remaining(r) \in Int
<1>1. "lit" \in Venue
  BY Zenon DEF Venue
<1>2. Target("lit") \in Nat /\ Abs(Delta("lit", r)) \in Nat
  BY <1>1, TargetNat, DeltaInt, AbsNat, Zenon
<1> QED
  BY <1>2, SMT DEF Remaining

-----------------------------------------------------------------------------
LEMMA BaselineKeeps ==
    ASSUME ExecInv, Baseline
    PROVE  ExecInv'
<1>1. VenueTypeOK'
  BY Zenon DEF ExecInv, Baseline, VenueTypeOK, venueVars
<1>2. CASE Raise
  BY <1>1, <1>2, RaiseTyped, Zenon DEF ExecInv, Baseline, At
<1>3. CASE ~Raise
  <2>1. PICK r \in ReadsBoth :
          base' = IF call = "open" THEN r ELSE [base EXCEPT ![leg] = r[leg]]
    BY <1>3, Zenon DEF Baseline
  <2>2. r \in [Venue -> Nat]
    BY ReadsNat, Zenon DEF ExecInv
  <2>3. base' \in [Venue -> Nat]
    BY <2>1, <2>2, SMT DEF ExecInv, ExecTypeOK
  <2>4. pc' \in {"maker", "submit"}
    BY <1>3, Zenon DEF Baseline
  <2> QED
    BY <1>1, <1>3, <2>3, <2>4, SMT
       DEF ExecInv, ExecTypeOK, ExecShape, Baseline, At, ledgerVars, Pcs
<1> QED
  BY <1>2, <1>3

LEMMA CloseNothingKeeps ==
    ASSUME ExecInv, CloseNothing
    PROVE  ExecInv'
<1>1. VenueTypeOK'
  BY Zenon DEF ExecInv, CloseNothing, VenueTypeOK, venueVars
<1>2. "closed" \in Outcomes
  BY Zenon DEF Outcomes
<1> QED
  BY <1>1, <1>2, RaiseTyped, ReturnTyped, Zenon DEF ExecInv, CloseNothing, At

LEMMA SubmitKeeps ==
    ASSUME ExecInv, Submit
    PROVE  ExecInv'
<1>1. leg \in Venue /\ Side \in Kind /\ Target(leg) \in Nat
  BY TargetNat, Zenon DEF ExecInv, ExecTypeOK, Side, Kind
<1>2. VenueTypeOK'
  BY <1>1, SubmissionTyped, Zenon DEF ExecInv, Submit
<1>3. "confirm" \in Pcs \ {"retry", "wait", "cancel", "verify"}
  BY SMT DEF Pcs
<1> QED
  BY <1>2, <1>3, GotoTyped, RaiseTyped, Zenon DEF ExecInv, Submit, At

\* What a confirmed quantity leads to; a leg short of its size is the case
\* ExecShape keeps for the retry.
LEMMA ConfirmedTyped ==
    ASSUME ExecInv, UNCHANGED ledgerVars, NEW n \in Nat, Confirmed(n)
    PROVE  ExecTypeOK' /\ ExecShape'
<1> USE DEF ExecInv, ExecTypeOK, ExecShape, Confirmed, ledgerVars
<1>1. got' \in [Venue -> Nat] /\ got'[leg] = n
  BY SMT
<1>2. CASE call = "open"
  <2>1. pc' \in {"idle", "pull", "price", "dust", "maker", "sweep"}
    BY <1>2, SMT DEF OpenConfirmed
  <2>2. res' \in {res, "error"} /\ leg' \in {leg, "lit"}
    BY <1>2, SMT DEF OpenConfirmed
  <2>3. UNCHANGED <<call, base, quotes, retried, calm>>
    BY <1>2, Zenon DEF OpenConfirmed
  <2> QED
    BY <1>1, <2>1, <2>2, <2>3, SMT DEF Pcs, Outcomes, Venue
<1>3. CASE call = "close"
  <2>1. UNCHANGED <<call, base, quotes, calm>>
    BY <1>3, Zenon DEF CloseConfirmed
  <2>2. CASE n < legs[leg]
    <3>1. pc' \in {"idle", "retry"} /\ res' \in {res, "raised"} /\ UNCHANGED <<leg, retried>>
      BY <1>3, <2>2, SMT DEF CloseConfirmed
    <3> QED
      BY <1>1, <1>3, <2>1, <2>2, <3>1, SMT DEF Pcs, Outcomes
  <2>3. CASE ~(n < legs[leg])
    <3>1. pc' \in {"idle", "base"} /\ res' \in {res, "closed"}
          /\ leg' \in {leg, "lit"} /\ retried' = FALSE
      BY <1>3, <2>3, SMT DEF CloseConfirmed
    <3>2. leg' \in Venue /\ pc' \in Pcs /\ res' \in Outcomes /\ retried' \in BOOLEAN
      BY <3>1, Zenon DEF Pcs, Outcomes, Venue
    <3>3. pc' \notin {"retry", "wait", "cancel", "verify"}
      BY <3>1, SMT
    <3> QED
      BY <1>1, <2>1, <3>2, <3>3, Zenon
  <2> QED
    BY <2>2, <2>3
<1> QED
  BY <1>2, <1>3

LEMMA ConfirmKeeps ==
    ASSUME ExecInv, Confirm
    PROVE  ExecInv'
<1>1. VenueTypeOK'
  BY Zenon DEF ExecInv, Confirm, VenueTypeOK, venueVars
<1>2. UNCHANGED ledgerVars
  BY Zenon DEF Confirm, At
<1>3. CASE Raise
  BY <1>1, <1>2, <1>3, RaiseTyped, Zenon DEF ExecInv
<1>4. CASE ~Raise
  <2>1. PICK r \in Reads(leg) : LET d == Delta(leg, r) IN
            IF SeenFill(d) THEN Confirmed(d) ELSE Confirmed(AtDeadline(d))
    BY <1>4, Zenon DEF Confirm
  <2>2. leg \in Venue /\ r \in Nat
    BY ReadsNat, Zenon DEF ExecInv, ExecTypeOK
  <2>3. Delta(leg, r) \in Int /\ StepOf(leg) \in Nat \ {0}
    BY <2>2, DeltaInt, StepTyped, Zenon DEF ExecInv
  <2>4. SeenFill(Delta(leg, r)) => Delta(leg, r) \in Nat
    BY <2>3, SMT DEF SeenFill, AtLeastHalf
  <2>5. AtDeadline(Delta(leg, r)) \in Nat
    BY <2>3, AbsNat, SMT DEF AtDeadline
  <2>6. \E n \in Nat : Confirmed(n)
    BY <2>1, <2>4, <2>5, Zenon
  <2> QED
    BY <1>1, <1>2, <2>6, ConfirmedTyped, Zenon DEF ExecInv
<1> QED
  BY <1>3, <1>4

\* The retry is for a quantity the leg is really short of.
LEMMA RetryCloseKeeps ==
    ASSUME ExecInv, RetryClose
    PROVE  ExecInv'
<1> DEFINE n == legs[leg] - got[leg]
<1>1. n \in Nat /\ leg \in Venue /\ "reduce" \in Kind
  BY SMT DEF ExecInv, ExecTypeOK, ExecShape, RetryClose, At, Kind
<1>2. Accept(leg, "reduce", n) \/ Refuse(leg, "reduce", n)
  BY Zenon DEF RetryClose
<1>3. VenueTypeOK'
  <2> HIDE DEF n
  <2> QED
    BY <1>1, <1>2, SubmissionTyped, Zenon DEF ExecInv
<1>4. CASE Raise
  BY <1>3, <1>4, RaiseTyped, Zenon DEF ExecInv, RetryClose, At
<1>5. CASE ~Raise
  <2>1. pc' = "confirm" /\ retried' = TRUE
        /\ UNCHANGED <<call, leg, base, got, quotes, calm, res, armed, maker, legs>>
    BY <1>5, Zenon DEF RetryClose, At, ledgerVars
  <2> QED
    BY <1>3, <2>1, SMT DEF ExecInv, ExecTypeOK, ExecShape, Pcs
<1> QED
  BY <1>4, <1>5

LEMMA MakerQuoteKeeps ==
    ASSUME ExecInv, MakerQuote
    PROVE  ExecInv'
<1>1. UNCHANGED ledgerVars
  BY Zenon DEF MakerQuote, At
<1>2. CASE (Raise \/ Goto("sweep")) /\ UNCHANGED venueVars
  <2>1. VenueTypeOK'
    BY <1>2, Zenon DEF ExecInv, VenueTypeOK, venueVars
  <2>2. "sweep" \in Pcs \ {"retry", "wait", "cancel", "verify"}
    BY SMT DEF Pcs
  <2> QED
    BY <1>1, <1>2, <2>1, <2>2, RaiseTyped, GotoTyped, Zenon DEF ExecInv
<1>3. ASSUME NEW r \in Reads("lit"),
             NEW n, n = QuantizeDown(Remaining(r), StepOf("lit")), n > 0,
             quotes > 0,
             \/ Rest(n) /\ Goto("wait")
             \/ /\ CancelAll \/ Rest(n)
                /\ quotes' = quotes - 1
                /\ UNCHANGED <<call, pc, leg, base, got, retried, calm, res>>
      PROVE  ExecInv'
  <2>1. r \in Nat /\ "lit" \in Venue
    BY ReadsNat, Zenon DEF ExecInv, Venue
  <2>2. Remaining(r) \in Int /\ StepOf("lit") \in Nat \ {0}
    BY <2>1, RemainingInt, StepTyped, Zenon DEF ExecInv
  <2>3. n \in Int
    BY <1>3, <2>2, QuantizeDownInt, Zenon
  <2>4. n \in Nat
    BY <1>3, <2>3, SMT
  <2>5. VenueTypeOK'
    BY <1>3, <2>4, RestTyped, CancelTyped, Zenon DEF ExecInv
  <2>6. CASE Goto("wait")
    BY <1>1, <1>3, <2>5, <2>6, SMT
       DEF ExecInv, ExecTypeOK, ExecShape, Goto, ledgerVars, Pcs
  <2>7. CASE quotes' = quotes - 1
             /\ UNCHANGED <<call, pc, leg, base, got, retried, calm, res>>
    <3>1. pc = "maker"
      BY Zenon DEF MakerQuote, At
    <3>2. quotes' \in 0 .. MaxRequotes + 1
      BY <1>3, <2>7, ExecutorAssumption, SMT DEF ExecInv, ExecTypeOK
    <3>3. UNCHANGED <<armed, maker, legs>>
      BY <1>1, Zenon DEF ledgerVars
    <3>4. pc' \notin {"retry", "wait", "cancel", "verify"}
      BY <2>7, <3>1, SMT
    <3> QED
      BY <2>5, <2>7, <3>2, <3>3, <3>4, Zenon DEF ExecInv, ExecTypeOK, ExecShape
  <2> QED
    BY <1>3, <2>6, <2>7
<1> QED
  BY <1>2, <1>3, Zenon DEF MakerQuote

\* The three steps of a passive quote keep the count of quotes left above
\* zero until the last takes one off.
LEMMA MakerWorkKeeps ==
    ASSUME ExecInv, MakerWait \/ MakerCancel \/ MakerVerify
    PROVE  ExecInv'
<1>1. UNCHANGED ledgerVars /\ UNCHANGED <<armed, maker, legs>>
  BY Zenon DEF MakerWait, MakerCancel, MakerVerify, At, ledgerVars
<1>2. VenueTypeOK'
  BY CancelTyped, Zenon DEF ExecInv, MakerWait, MakerCancel, MakerVerify, VenueTypeOK, venueVars
<1>3. pc \in {"wait", "cancel", "verify"}
  BY Zenon DEF MakerWait, MakerCancel, MakerVerify, At
<1>4. quotes > 0
  BY <1>3, Zenon DEF ExecInv, ExecShape
<1>5. CASE Raise
  BY <1>1, <1>2, <1>5, RaiseTyped, Zenon DEF ExecInv
<1>6. CASE Goto("cancel") \/ Goto("verify")
  BY <1>1, <1>2, <1>4, <1>6, SMT DEF ExecInv, ExecTypeOK, ExecShape, Goto, Pcs
<1>7. CASE pc' = "maker" /\ quotes' = quotes - 1
           /\ UNCHANGED <<call, leg, base, got, retried, calm, res>>
  <2>1. quotes' \in 0 .. MaxRequotes + 1
    BY <1>4, <1>7, ExecutorAssumption, SMT DEF ExecInv, ExecTypeOK
  <2>2. pc' \in Pcs /\ pc' \notin {"retry", "wait", "cancel", "verify"}
    BY <1>7, SMT DEF Pcs
  <2> QED
    BY <1>1, <1>2, <1>7, <2>1, <2>2, Zenon DEF ExecInv, ExecTypeOK, ExecShape
<1> QED
  BY <1>5, <1>6, <1>7, Zenon DEF MakerWait, MakerCancel, MakerVerify

LEMMA SweepKeeps ==
    ASSUME ExecInv, Sweep
    PROVE  ExecInv'
<1>1. UNCHANGED ledgerVars /\ "confirm" \in Pcs \ {"retry", "wait", "cancel", "verify"}
  BY SMT DEF Sweep, At, Pcs
<1>2. Raise \/ Goto("confirm")
  BY Zenon DEF Sweep
<1>3. ExecTypeOK' /\ ExecShape'
  BY <1>1, <1>2, RaiseTyped, GotoTyped, Zenon DEF ExecInv
<1>4. CASE UNCHANGED venueVars
  BY <1>3, <1>4, Zenon DEF ExecInv, VenueTypeOK, venueVars
<1>5. CASE ~UNCHANGED venueVars
  <2> DEFINE size(r) == QuantizeDown(Remaining(r), StepOf("lit"))
  <2>1. PICK r \in Reads("lit") :
          /\ size(r) > 0
          /\ Accept("lit", Side, size(r)) \/ Refuse("lit", Side, size(r))
    BY <1>5, Zenon DEF Sweep
  <2>2. r \in Nat /\ "lit" \in Venue /\ Side \in Kind
    BY ReadsNat, Zenon DEF ExecInv, Venue, Side, Kind
  <2>3. Remaining(r) \in Int /\ StepOf("lit") \in Nat \ {0}
    BY <2>2, RemainingInt, StepTyped, Zenon DEF ExecInv
  <2>4. size(r) \in Int
    BY <2>3, QuantizeDownInt, Zenon
  <2> HIDE DEF size
  <2>5. size(r) \in Nat
    BY <2>1, <2>4, SMT
  <2> QED
    BY <1>3, <2>1, <2>2, <2>5, SubmissionTyped, Zenon DEF ExecInv
<1> QED
  BY <1>4, <1>5

\* The checks at the end of an open only go on or return.
LEMMA OpenChecksKeep ==
    ASSUME ExecInv, ReadPrices \/ CheckOrders
    PROVE  ExecInv'
<1>1. VenueTypeOK'
  BY Zenon DEF ExecInv, ReadPrices, CheckOrders, VenueTypeOK, venueVars
<1>2. "orders" \in Pcs \ {"retry", "wait", "cancel", "verify"}
      /\ {"error", "naked", "filled"} \subseteq Outcomes
  BY SMT DEF Pcs, Outcomes
<1> QED
  BY <1>1, <1>2, GotoTyped, ReturnTyped, Zenon DEF ExecInv, ReadPrices, CheckOrders, At

\* So do the steps that unwind it, after an order or a cancel.
LEMMA UnwindKeeps ==
    ASSUME ExecInv, PullOrders \/ FlattenVar \/ FlattenDust
    PROVE  ExecInv'
<1>1. "var" \in Venue /\ "reduce" \in Kind /\ got["var"] \in Nat
  BY SMT DEF ExecInv, ExecTypeOK, Venue, Kind
<1>2. VenueTypeOK'
  BY <1>1, SubmissionTyped, CancelTyped, Zenon DEF ExecInv, PullOrders, FlattenVar, FlattenDust
<1>3. "flatten" \in Pcs \ {"retry", "wait", "cancel", "verify"}
      /\ {"error", "naked"} \subseteq Outcomes
  BY SMT DEF Pcs, Outcomes
<1> QED
  BY <1>2, <1>3, GotoTyped, ReturnTyped, Zenon DEF ExecInv, PullOrders, FlattenVar, FlattenDust, At

\* One step of the executor keeps the venues and its own state typed.
LEMMA ExecStepKeeps ==
    ASSUME ExecInv, ExecStep
    PROVE  ExecInv'
BY BaselineKeeps, CloseNothingKeeps, SubmitKeeps, ConfirmKeeps, RetryCloseKeeps,
   MakerQuoteKeeps, MakerWorkKeeps, SweepKeeps, OpenChecksKeep, UnwindKeeps,
   Zenon DEF ExecStep
=============================================================================
