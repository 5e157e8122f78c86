---------------------------- MODULE LiveExecutor ----------------------------
(***************************************************************************)
(* live_executor.py: the two-leg open and close of a live round, one action*)
(* per exchange of the call with a venue.  Between two of them the venues  *)
(* move on their own (VenueStep), which is where the fills, late fills and *)
(* zombie orders of the reviews come from.                                 *)
(*                                                                         *)
(* An open trades Variational first, confirms what really filled by        *)
(* polling the position, and hedges that quantity on Lighter: passively if *)
(* the maker leg is enabled, then with a taker for the remainder.  A close *)
(* does the same to each leg of the ledger with reduce-only orders and one *)
(* retry.  A call ends with one of the Outcomes below.                     *)
(***************************************************************************)
EXTENDS Venues

CONSTANTS Q,            \* size of a round's Variational order, in its units
          MaxRequotes   \* maker_max_requotes

ASSUME ExecutorAssumption ==
    /\ Q \in Nat \ {0}
    /\ MaxRequotes \in Nat

VARIABLES armed,    \* net_guard's write guard
          maker,    \* maker_enabled: the passive Lighter leg is in use
          legs,     \* quantities of the round's ledger legs, NoLegs if none
          call,     \* "open" or "close": which call is, or was last, made
          pc,       \* where that call is, "idle" when it has returned
          leg,      \* the leg it is working
          base,     \* positions read before its orders
          got,      \* quantities it has confirmed, as opposed to ordered
          quotes,   \* passive quotes it may still place
          retried,  \* the leg being closed has had its retry
          calm,     \* the close may work Lighter passively (not urgent)
          res       \* how the last call ended, "none" before it does

execVars == <<call, pc, leg, base, got, quotes, retried, calm, res>>
ledgerVars == <<armed, maker, legs>>

NoLegs == Flat

\* "filled" is open_hedge's return, "naked" its NakedLegError, "error" any
\* other exception out of it; "closed" is close_hedge's return, "raised" any
\* exception out of it.
Outcomes == {"none", "filled", "naked", "error", "closed", "raised"}

Pcs == {"idle", "base", "submit", "confirm", "retry", "maker", "wait",
        "cancel", "verify", "sweep", "price", "orders", "pull", "flatten",
        "dust"}

ExecTypeOK ==
    /\ armed \in BOOLEAN
    /\ maker \in BOOLEAN
    /\ legs \in [Venue -> Nat]
    /\ call \in {"open", "close"}
    /\ pc \in Pcs
    /\ leg \in Venue
    /\ base \in [Venue -> Nat]
    /\ got \in [Venue -> Nat]
    /\ quotes \in 0 .. MaxRequotes + 1
    /\ retried \in BOOLEAN
    /\ calm \in BOOLEAN
    /\ res \in Outcomes

ExecInit ==
    /\ call = "open"
    /\ pc = "idle"
    /\ leg = "var"
    /\ base = Flat
    /\ got = Flat
    /\ quotes = 0
    /\ retried = FALSE
    /\ calm = FALSE
    /\ res = "none"

\* The call's locals are gone: its caller has taken the outcome, or the
\* process died.
Forget ==
    /\ call' = "open"
    /\ pc' = "idle"
    /\ leg' = "var"
    /\ base' = Flat
    /\ got' = Flat
    /\ quotes' = 0
    /\ retried' = FALSE
    /\ calm' = FALSE
    /\ res' = "none"

(***************************************************************************)
(* Quantities.                                                             *)
(***************************************************************************)
Abs(n) == IF n < 0 THEN -n ELSE n
Side == IF call = "open" THEN "open" ELSE "reduce"

\* The size step the code uses: close_hedge works both legs in 0.0001.
StepOf(v) == IF call = "open" /\ v = "lit" THEN LotStep ELSE 1
QuantizeDown(n, step) == n - (n % step)
Lots(n) == QuantizeDown(n, LotStep)

\* Half a step is the tolerance everywhere: n is at least half a step.
AtLeastHalf(n, step) == 2 * n >= step
WithinHalfLot(n) == 2 * Abs(n) <= LotStep

Target(v) == IF call = "close" THEN legs[v]
             ELSE IF v = "var" THEN Q ELSE Lots(got["var"])

\* Signed progress of leg v when its position reads r.
Delta(v, r) == IF call = "open" THEN r - base[v] ELSE base[v] - r

(***************************************************************************)
(* Control.                                                                *)
(***************************************************************************)
GuardDown == ~armed

At(p) == pc = p /\ UNCHANGED ledgerVars

Goto(p) == pc' = p /\ UNCHANGED <<call, leg, base, got, quotes, retried, calm, res>>

Return(outcome) ==
    /\ pc' = "idle"
    /\ res' = outcome
    /\ UNCHANGED <<call, leg, base, got, quotes, retried, calm>>

\* An exception: caught around the Lighter hedge of an open, which unwinds;
\* otherwise out of the call.
Raise ==
    IF call = "close" THEN Return("raised")
    ELSE IF leg = "lit" THEN Goto("pull")
    ELSE Return("error")

Called(c, passive) ==
    /\ call' = c
    /\ calm' = passive
    /\ pc' = "base"
    /\ leg' = "var"
    /\ got' = Flat
    /\ quotes' = MaxRequotes + 1
    /\ retried' = FALSE
    /\ res' = "none"
    /\ UNCHANGED base

(***************************************************************************)
(* Steps of both calls.                                                    *)
(***************************************************************************)
\* The guard, then the positions before any order: both for an open, the
\* leg's own for a close.
Baseline ==
    /\ At("base")
    /\ call = "close" => legs # NoLegs
    /\ \/ Raise
       \/ /\ GuardDown
          /\ \E r \in ReadsBoth :
               base' = IF call = "open" THEN r ELSE [base EXCEPT ![leg] = r[leg]]
          /\ pc' = IF call = "close" /\ leg = "lit" /\ maker /\ calm
                   THEN "maker" ELSE "submit"
          /\ UNCHANGED <<call, leg, got, quotes, retried, calm, res>>
    /\ UNCHANGED venueVars

\* A ledger without legs is closed as soon as the guard lets it.
CloseNothing ==
    /\ At("base")
    /\ call = "close" /\ legs = NoLegs
    /\ IF GuardDown THEN Return("closed") ELSE Raise
    /\ UNCHANGED venueVars

\* A taker order for the whole leg: the RFQ of either call, the IOC of an
\* urgent close.
Submit ==
    /\ At("submit")
    /\ \/ Accept(leg, Side, Target(leg)) /\ Goto("confirm")
       \/ Refuse(leg, Side, Target(leg)) /\ Raise

\* What the caller does with a confirmed quantity of the leg.
OpenConfirmed(n) ==
    /\ UNCHANGED <<call, base, quotes, retried, calm>>
    /\ IF n = 0
       THEN IF leg = "var" THEN pc' = "idle" /\ res' = "error" /\ UNCHANGED leg
                           ELSE pc' = "pull" /\ UNCHANGED <<res, leg>>
       ELSE /\ UNCHANGED res
            /\ IF leg = "lit" THEN pc' = "price" /\ UNCHANGED leg
               ELSE IF Lots(n) = 0 THEN pc' = "dust" /\ UNCHANGED leg
               ELSE pc' = (IF maker THEN "maker" ELSE "sweep") /\ leg' = "lit"

\* Mutant: a leg still open after its retry is taken for closed.
SwallowNotFlat(n) ==
    /\ UNCHANGED <<call, base, quotes, calm>>
    /\ IF n < legs[leg]
       THEN /\ IF retried THEN pc' = "idle" /\ res' = "closed"
                          ELSE pc' = "retry" /\ UNCHANGED res
            /\ UNCHANGED <<leg, retried>>
       ELSE /\ retried' = FALSE
            /\ IF leg = "var" THEN pc' = "base" /\ leg' = "lit" /\ UNCHANGED res
                              ELSE pc' = "idle" /\ res' = "closed" /\ UNCHANGED leg

CloseConfirmed(n) ==
    /\ UNCHANGED <<call, base, quotes, calm>>
    /\ IF n < legs[leg]
       THEN /\ IF retried THEN pc' = "idle" /\ res' = "raised"
                          ELSE pc' = "retry" /\ UNCHANGED res
            /\ UNCHANGED <<leg, retried>>
       ELSE /\ retried' = FALSE
            /\ IF leg = "var" THEN pc' = "base" /\ leg' = "lit" /\ UNCHANGED res
                              ELSE pc' = "idle" /\ res' = "closed" /\ UNCHANGED leg

Confirmed(n) ==
    /\ got' = [got EXCEPT ![leg] = n]
    /\ IF call = "open" THEN OpenConfirmed(n) ELSE CloseConfirmed(n)

\* The quantity _confirm_delta returns for a delta: on the first fill in the
\* expected direction, else at the deadline, where the sign is not looked at.
SeenFill(d) == AtLeastHalf(d, StepOf(leg))
AtDeadline(d) == IF AtLeastHalf(Abs(d), StepOf(leg)) THEN Abs(d) ELSE 0

\* _confirm_delta polls the position.
Confirm ==
    /\ At("confirm")
    /\ \/ Raise
       \/ \E r \in Reads(leg) : LET d == Delta(leg, r) IN
            IF SeenFill(d) THEN Confirmed(d)
            ELSE /\ "late" \in Faults \/ Settled(leg)
                 /\ Confirmed(AtDeadline(d))
    /\ UNCHANGED venueVars

\* The one retry of a leg that is not flat, for the rest of it.
RetryClose ==
    /\ At("retry")
    /\ LET n == legs[leg] - got[leg] IN
        \/ /\ Accept(leg, "reduce", n)
           /\ pc' = "confirm"
           /\ retried' = TRUE
           /\ UNCHANGED <<call, leg, base, got, quotes, calm, res>>
        \/ Refuse(leg, "reduce", n) /\ Raise

(***************************************************************************)
(* The passive Lighter leg.                                                *)
(***************************************************************************)
Remaining(r) == Target("lit") - Abs(Delta("lit", r))

Rest(n) ==
    /\ rest' = [rest EXCEPT ![Side] = @ + n]
    /\ UNCHANGED <<pos, flight>>

\* Mutant: rejected quotes are retried without end.
QuoteForEver ==
    /\ At("maker")
    /\ \/ Raise /\ UNCHANGED venueVars
       \/ Goto("sweep") /\ UNCHANGED venueVars
       \/ \E r \in Reads("lit") : LET n == QuantizeDown(Remaining(r), StepOf("lit")) IN
            /\ n > 0
            /\ \/ Rest(n) /\ Goto("wait")
               \/ /\ \/ CancelAll
                     \/ "ambiguous" \in Faults /\ Rest(n)
                  /\ quotes' = quotes - 1
                  /\ UNCHANGED <<call, pc, leg, base, got, retried, calm, res>>

\* One turn of _maker_work's loop: done, drifted or unsupported (on to the
\* sweep), a quote at the touch, or a placement that raised, after which an
\* unverified cancel is tried and the loop goes on.
MakerQuote ==
    /\ At("maker")
    /\ \/ Raise /\ UNCHANGED venueVars
       \/ Goto("sweep") /\ UNCHANGED venueVars
       \/ \E r \in Reads("lit") : LET n == QuantizeDown(Remaining(r), StepOf("lit")) IN
            /\ quotes > 0
            /\ n > 0
            /\ \/ Rest(n) /\ Goto("wait")
               \/ /\ \/ CancelAll
                     \/ "ambiguous" \in Faults /\ Rest(n)
                  /\ quotes' = quotes - 1
                  /\ UNCHANGED <<call, pc, leg, base, got, retried, calm, res>>

\* Filled, or patience ran out, or the poll raised.
MakerWait ==
    /\ At("wait")
    /\ Goto("cancel") \/ Raise
    /\ UNCHANGED venueVars

MakerCancel == At("cancel") /\ CancelAll /\ Goto("verify")

\* Mutant: an acknowledged cancel is believed (before review22).
TrustCancel ==
    /\ At("verify")
    /\ \/ Raise
       \/ /\ pc' = "maker"
          /\ quotes' = quotes - 1
          /\ UNCHANGED <<call, leg, base, got, retried, calm, res>>
    /\ UNCHANGED venueVars

\* Mutant: a re-quote after a verified cancel is not counted.
FreeRequotes ==
    /\ At("verify")
    /\ \/ Raise
       \/ /\ ShowsNoOrders
          /\ pc' = "maker"
          /\ UNCHANGED quotes
          /\ UNCHANGED <<call, leg, base, got, retried, calm, res>>
    /\ UNCHANGED venueVars

\* _cancel_verified: only an answered query that shows no order lets the
\* loop go on; anything else is a MakerCancelError.
MakerVerify ==
    /\ At("verify")
    /\ \/ Raise
       \/ /\ ShowsNoOrders
          /\ pc' = "maker"
          /\ quotes' = quotes - 1
          /\ UNCHANGED <<call, leg, base, got, retried, calm, res>>
    /\ UNCHANGED venueVars

\* The taker for what is still missing on Lighter.
Sweep ==
    /\ At("sweep")
    /\ \/ Raise /\ UNCHANGED venueVars
       \/ \E r \in Reads("lit") :
            LET left == Remaining(r)
                n == QuantizeDown(left, StepOf("lit"))
            IN  IF AtLeastHalf(left, StepOf("lit")) /\ n > 0
                THEN \/ Accept("lit", Side, n) /\ Goto("confirm")
                     \/ Refuse("lit", Side, n) /\ Raise
                ELSE Goto("confirm") /\ UNCHANGED venueVars

\* Mutant: without the residual imbalance guard.
SkipImbalance ==
    /\ At("price")
    /\ \/ Return("error")
       \/ Goto("orders")
    /\ UNCHANGED venueVars

(***************************************************************************)
(* The end of an open.                                                     *)
(***************************************************************************)
\* Fill prices are read from the venues, then the legs must match.
ReadPrices ==
    /\ At("price")
    /\ \/ Return("error")
       \/ IF WithinHalfLot(got["var"] - got["lit"]) THEN Goto("orders")
                                                    ELSE Return("naked")
    /\ UNCHANGED venueVars

\* No order may rest; a query that cannot be answered is let through.
CheckOrders ==
    /\ At("orders")
    /\ \/ Return("filled")
       \/ rest # NoOrders /\ Return("naked")
    /\ UNCHANGED venueVars

\* The hedge failed: pull what rests, best effort ...
PullOrders == At("pull") /\ CancelAll /\ Goto("flatten")

\* ... and flatten Variational.  The order is not confirmed, and a refused
\* one is a NakedLegError too.
FlattenVar ==
    /\ At("flatten")
    /\ Accept("var", "reduce", got["var"]) \/ Refuse("var", "reduce", got["var"])
    /\ Return("naked")

\* The fill is below one Lighter step: flatten, and an ordinary exception.
FlattenDust ==
    /\ At("dust")
    /\ \/ Accept("var", "reduce", got["var"]) /\ Return("error")
       \/ Refuse("var", "reduce", got["var"]) /\ Return("naked")

ExecStep ==
    \/ Baseline \/ CloseNothing \/ Submit \/ Confirm \/ RetryClose
    \/ MakerQuote \/ MakerWait \/ MakerCancel \/ MakerVerify \/ Sweep
    \/ ReadPrices \/ CheckOrders \/ PullOrders \/ FlattenVar \/ FlattenDust
=============================================================================
