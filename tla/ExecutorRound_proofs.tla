------------------------ MODULE ExecutorRound_proofs ------------------------
(***************************************************************************)
(* What a live round promises, for every size of the round, of a lot and   *)
(* of the number of quotes, and for orders that fill late, in pieces or    *)
(* not at all: the passive leg never doubles the hedge, an open that       *)
(* returns its legs is hedged at the venues, and a close that returns has  *)
(* taken them off.  What it takes is that a submission that raises was not *)
(* accepted and that a query shows what there is: the faults "ambiguous"   *)
(* and "blind" refute it.                                                  *)
(*                                                                         *)
(* HedgeInv follows an open on Lighter.  Until its Variational leg is      *)
(* confirmed there is nothing; while it quotes, nothing of a taker is in   *)
(* flight, and when it is about to quote again or to sweep, nothing rests. *)
(* WholeInv, further down, follows both legs of an open and of its close   *)
(* in a round whose takers do not fill in pieces.                          *)
(***************************************************************************)
EXTENDS ExecutorRound, LiveExecutor_proofs

Truthful == Faults \cap {"ambiguous", "blind"} = {}

InFlight == flight["lit"]["open"]
Resting == rest["open"]
Gained == pos["lit"] - base["lit"]

\* An open reduces nothing on Lighter.
OpensOnly == call = "open" => flight["lit"]["reduce"] = 0 /\ rest["reduce"] = 0

\* A round opens once.
OnceOnly == call = "close" /\ pc = "idle" => res # "none"

\* Nothing of it is on the venue before its baseline has been read.
Fresh ==
    call = "open" /\ (pc = "base" \/ (pc = "idle" /\ res = "none")) =>
        InFlight = 0 /\ Resting = 0

\* Where in an open which leg is worked.
LegOf ==
    call = "open" =>
        /\ pc \in {"base", "submit"} => leg = "var"
        /\ pc \in {"maker", "wait", "cancel", "verify", "sweep"} => leg = "lit"

\* From then on.
Hedging ==
    call = "open" /\ pc \notin {"idle", "base"} =>
        /\ Gained >= 0
        /\ Gained + InFlight + Resting <= Lots(got["var"])
        /\ leg = "var" => Gained = 0 /\ InFlight = 0 /\ Resting = 0
        /\ pc \in {"maker", "wait", "cancel", "verify", "sweep"} => InFlight = 0
        /\ pc \in {"maker", "sweep"} => Resting = 0

RoundInv == ExecInv /\ pieces \in BOOLEAN

HedgeInv == OpensOnly /\ OnceOnly /\ Fresh /\ LegOf /\ Hedging

-----------------------------------------------------------------------------
\* The types hold, as ExecStepKeeps and VenueStepKeeps say of the steps.
LEMMA RoundTypes ==
    ASSUME RoundInv, [Next]_vars
    PROVE  RoundInv'
<1> USE DEF RoundInv
<1>1. CASE OpenHedge \/ CloseHedge \/ CloseLegless
  <2>1. VenueTypeOK' /\ pieces' \in BOOLEAN
    BY <1>1, Zenon DEF OpenHedge, CloseHedge, CloseLegless, ExecInv, VenueTypeOK, venueVars
  <2>2. armed' \in BOOLEAN /\ maker' \in BOOLEAN /\ legs' \in [Venue -> Nat]
    BY <1>1, Zenon DEF OpenHedge, CloseHedge, CloseLegless, ExecInv, ExecTypeOK, ledgerVars
  <2>3. \E c \in {"open", "close"}, passive \in BOOLEAN : Called(c, passive)
    BY <1>1, Zenon DEF OpenHedge, CloseHedge, CloseLegless
  <2> QED
    BY <2>1, <2>2, <2>3, CalledTyped, Zenon DEF ExecInv
<1>2. CASE Executor
  BY <1>2, ExecStepKeeps, Zenon DEF Executor
<1>3. CASE Venues
  <2>1. VenueTypeOK'
    BY <1>3, VenueStepKeeps, Zenon DEF Venues, ExecInv
  <2>2. pieces' \in BOOLEAN
    BY <1>3, Zenon DEF Venues
  <2> QED
    BY <1>3, <2>1, <2>2, Zenon DEF Venues, ExecInv, ExecTypeOK, ExecShape, execVars, ledgerVars
<1>4. CASE UNCHANGED vars
  BY <1>4, Zenon DEF vars, ExecInv, VenueTypeOK, ExecTypeOK, ExecShape, venueVars, execVars, ledgerVars
<1> QED
  BY <1>1, <1>2, <1>3, <1>4, Zenon DEF Next

LEMMA RoundStartsTyped == Init => RoundInv
<1> SUFFICES ASSUME Init PROVE RoundInv
  OBVIOUS
<1>1. NoOrders \in [Kind -> Nat] /\ Flat \in [Venue -> Nat] /\ "var" \in Venue
  BY SMT DEF NoOrders, Flat, Kind, Venue
<1>2. VenueTypeOK
  <2>1. pos \in [Venue -> Nat]
    <3>1. Dust \subseteq Nat
      BY VenueAssumption, SMT DEF Dust
    <3>2. CASE VenueInit
      BY <1>1, <3>2, SMT DEF VenueInit
    <3>3. CASE pos \in [Venue -> Dust]
      <4>1. \A v \in Venue : pos[v] \in Dust
        BY <3>3, Zenon
      <4>2. \A v \in Venue : pos[v] \in Nat
        BY <3>1, <4>1, Zenon
      <4> QED
        BY <3>3, <4>2, Zenon
    <3> QED
      BY <3>2, <3>3, Zenon DEF Init
  <2>2. flight \in [Venue -> [Kind -> Nat]] /\ rest \in [Kind -> Nat]
    BY <1>1, SMT DEF Init, VenueInit
  <2> QED
    BY <2>1, <2>2, Zenon DEF VenueTypeOK
<1>3. 0 \in 0 .. MaxRequotes + 1
  BY ExecutorAssumption, SMT
<1>4. ExecTypeOK /\ ExecShape
  BY <1>1, <1>3, Zenon DEF Init, ExecInit, ExecTypeOK, ExecShape, Pcs, Outcomes, NoLegs
<1> QED
  BY <1>2, <1>4, Zenon DEF ExecInv, RoundInv, Init

\* The types of a round, whatever the venues do.
THEOREM RoundTyped == Spec => []TypeOK
<1>1. RoundInv => TypeOK
  BY Zenon DEF RoundInv, ExecInv, TypeOK
<1>2. RoundInv /\ [Next]_vars => RoundInv'
  BY RoundTypes, Zenon
<1> QED
  BY <1>1, <1>2, RoundStartsTyped, PTL DEF Spec

-----------------------------------------------------------------------------
\* What the venues do of themselves to an open's Lighter leg: orders become
\* position, or nothing.
LEMMA LitMoves ==
    ASSUME VenueTypeOK, VenueStep, flight["lit"]["reduce"] = 0, rest["reduce"] = 0
    PROVE  /\ flight'["lit"]["reduce"] = 0 /\ rest'["reduce"] = 0
           /\ InFlight' \in 0 .. InFlight /\ Resting' \in 0 .. Resting
           /\ pos'["lit"] >= pos["lit"]
           /\ pos'["lit"] + InFlight' + Resting' <= pos["lit"] + InFlight + Resting
<1> USE DEF InFlight, Resting
<1>0. /\ pos["lit"] \in Nat /\ pos["var"] \in Nat
      /\ InFlight \in Nat /\ Resting \in Nat
      /\ "lit" \in Venue /\ "var" \in Venue /\ "open" \in Kind /\ "reduce" \in Kind
  BY SMT DEF VenueTypeOK, Venue, Kind
<1>1. ASSUME NEW v \in Venue, NEW k \in Kind, Fill(v, k)
      PROVE  /\ flight'["lit"]["reduce"] = 0 /\ rest'["reduce"] = 0
             /\ InFlight' \in 0 .. InFlight /\ Resting' \in 0 .. Resting
             /\ pos'["lit"] >= pos["lit"]
             /\ pos'["lit"] + InFlight' + Resting' <= pos["lit"] + InFlight + Resting
  <2>1. PICK n \in 1 .. Fillable(v, k, flight[v][k]) :
          /\ Moved(v, k, n)
          /\ flight' = [flight EXCEPT ![v][k] = IF "partial" \in Faults THEN @ - n ELSE 0]
    BY <1>1, Zenon DEF Fill
  <2>2. flight[v][k] \in Nat /\ pos[v] \in Nat
    BY SMT DEF VenueTypeOK
  <2>3. n \in Nat /\ n > 0 /\ n <= flight[v][k]
    BY <2>2, SMT DEF Fillable
  <2>4. rest' = rest
    BY <1>1, Zenon DEF Fill
  <2>5. CASE v = "var"
    <3>1. flight'["lit"] = flight["lit"] /\ pos'["lit"] = pos["lit"]
      BY <2>1, <2>5, SMT DEF Moved, VenueTypeOK, Venue
    <3> QED
      BY <3>1, <2>4, <1>0, SMT
  <2>6. CASE v = "lit"
    <3>1. k = "open"
      BY <2>3, <2>6, SMT DEF Kind
    <3>2. pos'["lit"] = pos["lit"] + n
      BY <2>1, <2>6, <3>1, <1>0, SMT DEF Moved, VenueTypeOK
    <3>3. flight'["lit"]["reduce"] = flight["lit"]["reduce"]
      BY <2>1, <2>6, <3>1, <1>0, SMT DEF VenueTypeOK
    <3>4. InFlight' = IF "partial" \in Faults THEN InFlight - n ELSE 0
      BY <2>1, <2>6, <3>1, <1>0, SMT DEF VenueTypeOK
    <3> QED
      BY <2>3, <2>4, <2>6, <3>1, <3>2, <3>3, <3>4, <1>0, SMT
  <2> QED
    BY <2>5, <2>6, Zenon DEF Venue
<1>2. ASSUME NEW v \in Venue, NEW k \in Kind, Drop(v, k)
      PROVE  /\ flight'["lit"]["reduce"] = 0 /\ rest'["reduce"] = 0
             /\ InFlight' \in 0 .. InFlight /\ Resting' \in 0 .. Resting
             /\ pos'["lit"] >= pos["lit"]
             /\ pos'["lit"] + InFlight' + Resting' <= pos["lit"] + InFlight + Resting
  <2>1. flight' = [flight EXCEPT ![v][k] = 0] /\ pos' = pos /\ rest' = rest
    BY <1>2, Zenon DEF Drop
  <2>2. flight'["lit"]["reduce"] = 0 /\ InFlight' \in {0, InFlight}
    BY <2>1, <1>0, SMT DEF VenueTypeOK
  <2> QED
    BY <2>1, <2>2, <1>0, SMT
<1>3. ASSUME NEW k \in Kind, FillResting(k)
      PROVE  /\ flight'["lit"]["reduce"] = 0 /\ rest'["reduce"] = 0
             /\ InFlight' \in 0 .. InFlight /\ Resting' \in 0 .. Resting
             /\ pos'["lit"] >= pos["lit"]
             /\ pos'["lit"] + InFlight' + Resting' <= pos["lit"] + InFlight + Resting
  <2>1. PICK n \in 1 .. Fillable("lit", k, rest[k]) :
          /\ Moved("lit", k, n)
          /\ rest' = [rest EXCEPT ![k] = @ - n]
    BY <1>3, Zenon DEF FillResting
  <2>2. n \in Nat /\ n > 0 /\ n <= rest[k] /\ k = "open"
    BY <1>0, SMT DEF VenueTypeOK, Fillable, Kind
  <2>3. pos'["lit"] = pos["lit"] + n
    BY <2>1, <2>2, <1>0, SMT DEF Moved, VenueTypeOK
  <2>4. Resting' = Resting - n /\ rest'["reduce"] = 0
    BY <2>1, <2>2, <1>0, SMT DEF VenueTypeOK
  <2>5. flight' = flight
    BY <1>3, Zenon DEF FillResting
  <2> QED
    BY <2>2, <2>3, <2>4, <2>5, <1>0, SMT
<1> QED
  BY <1>1, <1>2, <1>3, Zenon DEF VenueStep

LEMMA VenuesKeepHedge ==
    ASSUME ExecInv, HedgeInv, Venues
    PROVE  HedgeInv'
<1>1. VenueStep /\ UNCHANGED execVars
  BY Zenon DEF Venues
<1>2. CASE call = "close"
  BY <1>1, <1>2, SMT DEF HedgeInv, OpensOnly, OnceOnly, Fresh, LegOf, Hedging, execVars
<1>3. CASE call = "open"
  <2>1. flight["lit"]["reduce"] = 0 /\ rest["reduce"] = 0
    BY <1>3, Zenon DEF HedgeInv, OpensOnly
  <2>2. /\ flight'["lit"]["reduce"] = 0 /\ rest'["reduce"] = 0
        /\ InFlight' \in 0 .. InFlight /\ Resting' \in 0 .. Resting
        /\ pos'["lit"] >= pos["lit"]
        /\ pos'["lit"] + InFlight' + Resting' <= pos["lit"] + InFlight + Resting
    BY <1>1, <2>1, LitMoves, Zenon DEF ExecInv
  <2>3. /\ call' = call /\ pc' = pc /\ leg' = leg /\ base' = base /\ got' = got /\ res' = res
        /\ Lots(got["var"])' = Lots(got["var"])
    BY <1>1, Zenon DEF execVars, Lots
  <2>4. /\ pos["lit"] \in Nat /\ pos'["lit"] \in Nat /\ base["lit"] \in Nat
        /\ InFlight \in Nat /\ Resting \in Nat /\ Lots(got["var"]) \in Nat
    <3>1. VenueTypeOK'
      BY <1>1, VenueStepKeeps, Zenon DEF ExecInv
    <3>2. got["var"] \in Nat
      BY SMT DEF ExecInv, ExecTypeOK, Venue
    <3>3. Lots(got["var"]) \in Nat
      BY <3>2, VenueAssumption, QuantizeDownNat, Zenon DEF Lots
    <3> QED
      BY <3>1, <3>3, SMT DEF ExecInv, VenueTypeOK, ExecTypeOK, InFlight, Resting, Venue, Kind
  <2>5. OpensOnly' /\ OnceOnly' /\ LegOf'
    BY <1>3, <2>2, <2>3, Zenon DEF HedgeInv, OpensOnly, OnceOnly, LegOf
  <2>6. Fresh'
    BY <2>2, <2>3, <2>4, SMT DEF HedgeInv, Fresh
  <2>7. Hedging'
    <3> SUFFICES ASSUME pc \notin {"idle", "base"} PROVE Hedging'
      BY <2>3, Zenon DEF Hedging
    <3>1. /\ Gained >= 0 /\ Gained + InFlight + Resting <= Lots(got["var"])
          /\ leg = "var" => Gained = 0 /\ InFlight = 0 /\ Resting = 0
      BY <1>3, Zenon DEF HedgeInv, Hedging
    <3>2. /\ Gained' >= 0 /\ Gained' + InFlight' + Resting' <= Lots(got["var"])
          /\ leg = "var" => Gained' = 0 /\ InFlight' = 0 /\ Resting' = 0
          /\ InFlight = 0 => InFlight' = 0
          /\ Resting = 0 => Resting' = 0
      <4>1. PICK l \in Nat : l = Lots(got["var"])
        BY <2>4, Zenon
      <4>2. pos["lit"] - base["lit"] + InFlight + Resting <= l
        BY <3>1, <4>1, Zenon DEF Gained
      <4>3. pos["lit"] - base["lit"] >= 0
        BY <3>1, Zenon DEF Gained
      <4>4. pos'["lit"] - base["lit"] >= 0 /\ pos'["lit"] - base["lit"] + InFlight' + Resting' <= l
        BY <2>2, <2>4, <4>2, <4>3, SMT
      <4>5. InFlight = 0 => InFlight' = 0
        BY <2>2, SMT
      <4>6. Resting = 0 => Resting' = 0
        BY <2>2, SMT
      <4>7. ASSUME leg = "var" PROVE pos'["lit"] - base["lit"] = 0
        <5>1. pos["lit"] - base["lit"] = 0 /\ InFlight = 0 /\ Resting = 0
          BY <3>1, <4>7, Zenon DEF Gained
        <5> QED
          BY <2>2, <2>4, <5>1, SMT
      <4> QED
        BY <2>3, <3>1, <4>1, <4>4, <4>5, <4>6, <4>7, Zenon DEF Gained
    <3>3. Gained' >= 0 /\ Gained' + InFlight' + Resting' <= Lots(got["var"])'
      BY <2>3, <3>2, Zenon
    <3> QED
      BY <1>3, <2>3, <3>2, <3>3, Zenon DEF HedgeInv, Hedging
  <2> QED
    BY <2>5, <2>6, <2>7, Zenon DEF HedgeInv
<1> QED
  BY <1>2, <1>3, Zenon DEF ExecInv, ExecTypeOK

-----------------------------------------------------------------------------
\* What the arithmetic of an open is about.
LEMMA OpenQuantities ==
    ASSUME ExecInv
    PROVE  /\ pos["lit"] \in Nat /\ base["lit"] \in Nat
           /\ InFlight \in Nat /\ Resting \in Nat
           /\ got["var"] \in Nat /\ Lots(got["var"]) \in Nat
<1>1. got["var"] \in Nat
  BY SMT DEF ExecInv, ExecTypeOK, Venue
<1>2. Lots(got["var"]) \in Nat
  BY <1>1, VenueAssumption, QuantizeDownNat, Zenon DEF Lots
<1> QED
  BY <1>1, <1>2, SMT DEF ExecInv, VenueTypeOK, ExecTypeOK, InFlight, Resting, Venue, Kind

\* Rounding down does not make an integer larger.
LEMMA QuantizeDownLess ==
    ASSUME NEW n \in Int, NEW s \in Nat \ {0}
    PROVE  QuantizeDown(n, s) \in Int /\ QuantizeDown(n, s) <= n
<1>1. n % s \in 0 .. s - 1
  BY SMT
<1> QED
  BY <1>1, SMT DEF QuantizeDown

\* An open that returns has nothing left to keep but that it reduces nothing.
LEMMA ReturnKeepsHedge ==
    ASSUME HedgeInv, call = "open", call' = "open", pc' = "idle", res' # "none",
           flight'["lit"] = flight["lit"], rest' = rest
    PROVE  HedgeInv'
BY SMT DEF HedgeInv, OpensOnly, OnceOnly, Fresh, LegOf, Hedging

\* The sum of an open's Lighter leg, when what is on order goes down, or, once
\* that leg is worked, up to the target.
LEMMA Balance ==
    ASSUME NEW g \in Int, NEW i \in Nat, NEW r \in Nat, NEW l \in Nat,
           NEW i2 \in Nat, NEW r2 \in Nat, NEW v \in Venue,
           g + i + r <= l, v = "var" => i = 0 /\ r = 0,
           i2 + r2 <= i + r \/ (v = "lit" /\ g + i2 + r2 <= l)
    PROVE  g + i2 + r2 <= l /\ (v = "var" => i2 = 0 /\ r2 = 0)
<1>1. CASE i2 + r2 <= i + r
  BY <1>1, SMT
<1>2. CASE v = "lit" /\ g + i2 + r2 <= l
  BY <1>2, SMT
<1> QED
  BY <1>1, <1>2, Zenon

\* An open that goes on keeps the balance of the leg it is at.
LEMMA GoingOnKeepsHedge ==
    ASSUME ExecInv, HedgeInv, call = "open", pc \notin {"idle", "base"},
           UNCHANGED <<call, leg, base>>, got'["var"] = got["var"],
           pc' \notin {"idle", "base"},
           pos'["lit"] = pos["lit"],
           flight'["lit"]["reduce"] = 0, rest'["reduce"] = 0,
           InFlight' \in Nat, Resting' \in Nat,
           InFlight' + Resting' <= InFlight + Resting
               \/ (leg = "lit" /\ Gained + InFlight' + Resting' <= Lots(got["var"])),
           pc' = "submit" => leg = "var",
           pc' \in {"maker", "wait", "cancel", "verify", "sweep"} => leg = "lit" /\ InFlight' = 0,
           pc' \in {"maker", "sweep"} => Resting' = 0
    PROVE  HedgeInv'
<1>0. /\ pos["lit"] \in Nat /\ base["lit"] \in Nat
      /\ InFlight \in Nat /\ Resting \in Nat /\ Lots(got["var"]) \in Nat
  BY OpenQuantities
<1>1. Lots(got["var"])' = Lots(got["var"]) /\ Gained' = Gained
  BY Zenon DEF Lots, QuantizeDown, Gained
<1>2. OpensOnly' /\ OnceOnly' /\ Fresh' /\ LegOf'
  BY Zenon DEF OpensOnly, OnceOnly, Fresh, LegOf
<1>3. Hedging'
  <2>1. /\ Gained >= 0 /\ Gained + InFlight + Resting <= Lots(got["var"])
        /\ leg = "var" => Gained = 0 /\ InFlight = 0 /\ Resting = 0
    BY Zenon DEF HedgeInv, Hedging
  <2>2. Gained \in Int
    BY <1>0, SMT DEF Gained
  <2>3. PICK g \in Int, i \in Nat, r \in Nat, l \in Nat, i2 \in Nat, r2 \in Nat :
          /\ g = Gained /\ i = InFlight /\ r = Resting /\ l = Lots(got["var"])
          /\ i2 = InFlight' /\ r2 = Resting'
    BY <1>0, <2>2, Zenon
  <2>4. leg \in Venue
    BY Zenon DEF ExecInv, ExecTypeOK
  <2>5. g + i + r <= l /\ (leg = "var" => i = 0 /\ r = 0)
    BY <2>1, <2>3, Zenon
  <2>6. i2 + r2 <= i + r \/ (leg = "lit" /\ g + i2 + r2 <= l)
    BY <2>3, Zenon
  <2>7. g + i2 + r2 <= l /\ (leg = "var" => i2 = 0 /\ r2 = 0)
    BY <2>4, <2>5, <2>6, Balance, Zenon
  <2>8. Gained' >= 0 /\ Gained' + InFlight' + Resting' <= Lots(got["var"])'
    BY <1>1, <2>1, <2>3, <2>7, Zenon
  <2>9. leg = "var" => Gained' = 0 /\ InFlight' = 0 /\ Resting' = 0
    BY <1>1, <2>1, <2>3, <2>7, Zenon
  <2> QED
    BY <2>8, <2>9, Zenon DEF Hedging
<1> QED
  BY <1>2, <1>3, Zenon DEF HedgeInv

\* An exception of an open, its orders left as they are.
LEMMA RaiseKeepsHedge ==
    ASSUME ExecInv, HedgeInv, call = "open", pc # "idle", pc = "base" => leg = "var",
           Raise, pos'["lit"] = pos["lit"], flight'["lit"] = flight["lit"], rest' = rest
    PROVE  HedgeInv'
<1>0. InFlight \in Nat /\ Resting \in Nat /\ InFlight' = InFlight /\ Resting' = Resting
  BY OpenQuantities, Zenon DEF InFlight, Resting
<1>1. flight'["lit"]["reduce"] = 0 /\ rest'["reduce"] = 0
  BY Zenon DEF HedgeInv, OpensOnly
<1>2. CASE leg = "lit"
  <2>1. Goto("pull")
    BY <1>2, Zenon DEF Raise
  <2>2. pc' = "pull" /\ UNCHANGED <<call, leg, base, got>>
    BY <2>1, Zenon DEF Goto
  <2>3. InFlight' + Resting' <= InFlight + Resting
    BY <1>0, SMT
  <2>4. pc \notin {"idle", "base"}
    BY <1>2, SMT
  <2> QED
    BY <1>0, <1>1, <2>2, <2>3, <2>4, GoingOnKeepsHedge, SMT
<1>3. CASE leg # "lit"
  <2>1. Return("error")
    BY <1>3, Zenon DEF Raise
  <2> QED
    BY <2>1, ReturnKeepsHedge, SMT DEF Return
<1> QED
  BY <1>2, <1>3

\* A Lighter position that can be read is the one there is.
LEMMA LitRead ==
    ASSUME Truthful
    PROVE  Reads("lit") = {pos["lit"]} /\ (ShowsNoOrders <=> rest = NoOrders)
BY SMT DEF Truthful, Reads, ShowsNoOrders

-----------------------------------------------------------------------------
LEMMA BaselineKeepsHedge ==
    ASSUME Truthful, ExecInv, HedgeInv, call = "open", Baseline
    PROVE  HedgeInv'
<1>1. pc = "base" /\ UNCHANGED venueVars
  BY Zenon DEF Baseline, At
<1>2. leg = "var" /\ InFlight = 0 /\ Resting = 0
  BY <1>1, SMT DEF HedgeInv, LegOf, Fresh
<1>3. CASE Raise
  BY <1>1, <1>2, <1>3, RaiseKeepsHedge, SMT DEF venueVars
<1>4. CASE ~Raise
  <2>1. PICK r \in ReadsBoth : base' = r
    BY <1>4, Zenon DEF Baseline
  <2>2. pc' = "submit" /\ UNCHANGED <<call, leg, got>>
    BY <1>4, SMT DEF Baseline
  <2>3. base'["lit"] = pos["lit"]
    BY <2>1, LitRead, SMT DEF ReadsBoth, Venue
  <2>4. pos["lit"] \in Nat /\ Lots(got["var"]) \in Nat
    BY OpenQuantities
  <2>5. Gained' = 0 /\ InFlight' = 0 /\ Resting' = 0 /\ Lots(got["var"])' = Lots(got["var"])
    BY <1>1, <1>2, <2>2, <2>3, <2>4, SMT DEF Gained, InFlight, Resting, Lots, QuantizeDown, venueVars
  <2>6. Hedging'
    BY <2>2, <2>4, <2>5, SMT DEF Hedging
  <2>7. OpensOnly' /\ OnceOnly' /\ Fresh' /\ LegOf'
    BY <1>1, <1>2, <2>2, SMT DEF HedgeInv, OpensOnly, OnceOnly, Fresh, LegOf, venueVars
  <2> QED
    BY <2>6, <2>7, Zenon DEF HedgeInv
<1> QED
  BY <1>3, <1>4

LEMMA SubmitKeepsHedge ==
    ASSUME Truthful, ExecInv, HedgeInv, call = "open", Submit
    PROVE  HedgeInv'
<1>1. pc = "submit" /\ leg = "var"
  BY SMT DEF Submit, At, HedgeInv, LegOf
<1>2. Accept("var", Side, Target(leg)) \/ UNCHANGED venueVars
  BY <1>1, SMT DEF Submit, Refuse, Truthful
<1>3. pos'["lit"] = pos["lit"] /\ flight'["lit"] = flight["lit"] /\ rest' = rest
  <2>1. flight \in [Venue -> [Kind -> Nat]]
    BY Zenon DEF ExecInv, VenueTypeOK
  <2> QED
    BY <1>2, <2>1, SMT DEF Accept, Venue, venueVars
<1>4. CASE Raise
  BY <1>1, <1>3, <1>4, RaiseKeepsHedge, SMT
<1>5. CASE Goto("confirm")
  <2>1. pc' = "confirm" /\ UNCHANGED <<call, leg, base, got>>
    BY <1>5, Zenon DEF Goto
  <2>2. InFlight \in Nat /\ Resting \in Nat /\ InFlight' = InFlight /\ Resting' = Resting
    BY <1>3, OpenQuantities, Zenon DEF InFlight, Resting
  <2>3. flight'["lit"]["reduce"] = 0 /\ rest'["reduce"] = 0
    BY <1>3, Zenon DEF HedgeInv, OpensOnly
  <2> QED
    BY <1>1, <1>3, <2>1, <2>2, <2>3, GoingOnKeepsHedge, SMT
<1> QED
  BY <1>4, <1>5, Zenon DEF Submit

\* What an open confirms is a quantity, on either leg.
LEMMA ConfirmKeepsHedge ==
    ASSUME ExecInv, HedgeInv, call = "open", Confirm
    PROVE  HedgeInv'
<1>1. pc = "confirm" /\ UNCHANGED venueVars
  BY Zenon DEF Confirm, At
<1>2. /\ InFlight \in Nat /\ Resting \in Nat /\ pos["lit"] \in Nat /\ base["lit"] \in Nat
      /\ InFlight' = InFlight /\ Resting' = Resting /\ pos'["lit"] = pos["lit"]
  BY <1>1, OpenQuantities, Zenon DEF venueVars, InFlight, Resting
<1>3. flight'["lit"]["reduce"] = 0 /\ rest'["reduce"] = 0 /\ flight' = flight /\ rest' = rest
  BY <1>1, Zenon DEF HedgeInv, OpensOnly, venueVars
<1>4. leg \in Venue /\ got \in [Venue -> Nat]
  BY Zenon DEF ExecInv, ExecTypeOK
<1>5. CASE Raise
  BY <1>1, <1>2, <1>3, <1>5, RaiseKeepsHedge, SMT
<1>6. CASE ~Raise
  <2>1. PICK n \in Nat : Confirmed(n)
    <3>1. PICK r \in Reads(leg) : LET d == Delta(leg, r) IN
            IF SeenFill(d) THEN Confirmed(d) ELSE Confirmed(AtDeadline(d))
      BY <1>6, Zenon DEF Confirm
    <3>2. r \in Nat
      BY <1>4, <3>1, ReadsNat, Zenon DEF ExecInv
    <3>3. Delta(leg, r) \in Int
      BY <1>4, <3>2, DeltaInt, Zenon DEF ExecInv
    <3>4. AtDeadline(Delta(leg, r)) \in Nat
      BY <3>3, AbsNat, Zenon DEF AtDeadline
    <3>5. SeenFill(Delta(leg, r)) => Delta(leg, r) \in Nat
      BY <1>4, <3>3, StepTyped, SMT DEF SeenFill, AtLeastHalf
    <3> QED
      BY <3>1, <3>4, <3>5, Zenon
  <2>2. got' = [got EXCEPT ![leg] = n] /\ OpenConfirmed(n) /\ UNCHANGED <<call, base>>
    BY <2>1, Zenon DEF Confirmed, OpenConfirmed
  <2>3. CASE leg = "lit"
    <3>1. pc' \in {"pull", "price"} /\ leg' = leg
      BY <2>2, <2>3, Zenon DEF OpenConfirmed
    <3>2. got'["var"] = got["var"]
      BY <1>4, <2>2, <2>3, SMT DEF Venue
    <3>3. InFlight' + Resting' <= InFlight + Resting
      BY <1>2, SMT
    <3>4. pc' \notin {"idle", "base", "submit", "maker", "wait", "cancel", "verify", "sweep"}
      BY <3>1, Zenon
    <3> QED
      BY <1>1, <1>2, <1>3, <2>2, <3>1, <3>2, <3>3, <3>4, GoingOnKeepsHedge, SMT
  <2>4. CASE leg = "var"
    <3>1. Gained = 0 /\ InFlight = 0 /\ Resting = 0
      BY <1>1, <2>4, SMT DEF HedgeInv, Hedging
    <3>2. CASE n = 0
      BY <1>3, <2>2, <2>4, <3>2, ReturnKeepsHedge, SMT DEF OpenConfirmed
    <3>3. CASE n # 0
      <4>1. \/ pc' = "dust" /\ leg' = "var"
            \/ pc' \in {"maker", "sweep"} /\ leg' = "lit"
        BY <2>2, <2>4, <3>3, Zenon DEF OpenConfirmed
      <4>2. got'["var"] \in Nat
        BY <1>4, <2>1, <2>2, <2>4, SMT
      <4>3. Lots(got["var"])' \in Nat
        BY <4>2, VenueAssumption, QuantizeDownNat, Zenon DEF Lots, QuantizeDown
      <4>4. Gained' = 0
        BY <1>2, <2>2, <3>1, Zenon DEF Gained
      <4>5. Gained' + InFlight' + Resting' = 0 /\ Gained' >= 0
        BY <1>2, <3>1, <4>4, SMT
      <4>6. Hedging'
        BY <1>2, <3>1, <4>3, <4>4, <4>5, SMT DEF Hedging
      <4>7. OpensOnly' /\ OnceOnly' /\ Fresh' /\ LegOf'
        BY <1>3, <2>2, <4>1, SMT DEF OpensOnly, OnceOnly, Fresh, LegOf
      <4> QED
        BY <4>6, <4>7, Zenon DEF HedgeInv
    <3> QED
      BY <3>2, <3>3
  <2> QED
    BY <1>4, <2>3, <2>4, Zenon DEF Venue
<1> QED
  BY <1>5, <1>6

-----------------------------------------------------------------------------
\* What an open orders on Lighter, passively or not, is within what is
\* missing there.
LEMMA OrderFits ==
    ASSUME Truthful, ExecInv, HedgeInv, call = "open", pc \in {"maker", "sweep"},
           NEW r \in Reads("lit")
    PROVE  /\ QuantizeDown(Remaining(r), StepOf("lit")) \in Int
           /\ Gained + QuantizeDown(Remaining(r), StepOf("lit")) <= Lots(got["var"])
<1>1. r = pos["lit"]
  BY LitRead, Zenon
<1>2. pos["lit"] \in Nat /\ base["lit"] \in Nat /\ Lots(got["var"]) \in Nat
  BY OpenQuantities
<1>3. Gained >= 0
  BY Zenon DEF HedgeInv, Hedging
<1>4. Remaining(r) = Lots(got["var"]) - Gained
  BY <1>1, <1>2, <1>3, SMT DEF Remaining, Target, Delta, Abs, Gained
<1>5. Remaining(r) \in Int /\ Gained \in Int
  BY <1>2, <1>4, SMT DEF Gained
<1>6. StepOf("lit") \in Nat \ {0}
  BY StepTyped, Zenon DEF Venue
<1>7. PICK q \in Int : q = QuantizeDown(Remaining(r), StepOf("lit")) /\ q <= Remaining(r)
  BY <1>5, <1>6, QuantizeDownLess, Zenon
<1> QED
  BY <1>2, <1>4, <1>5, <1>7, SMT

\* Where in the passive loop of an open.
LEMMA AtMaker ==
    ASSUME ExecInv, HedgeInv, call = "open"
    PROVE  /\ pc \in {"maker", "wait", "cancel", "verify", "sweep"} => leg = "lit" /\ InFlight = 0
           /\ pc \in {"maker", "sweep"} => Resting = 0
           /\ flight["lit"]["reduce"] = 0 /\ rest["reduce"] = 0
           /\ InFlight \in Nat /\ Resting \in Nat
BY OpenQuantities, SMT DEF HedgeInv, OpensOnly, LegOf, Hedging

\* A cancel pulls everything or nothing.
LEMMA CancelPulls ==
    ASSUME ExecInv, HedgeInv, call = "open", CancelAll
    PROVE  /\ pos' = pos /\ flight' = flight /\ rest'["reduce"] = 0
           /\ InFlight' = InFlight /\ Resting' \in Nat /\ Resting' <= Resting
<1>1. InFlight \in Nat /\ Resting \in Nat
  BY OpenQuantities
<1>2. pos' = pos /\ flight' = flight /\ (rest' = rest \/ rest' = NoOrders)
  BY Zenon DEF CancelAll
<1>3. rest'["reduce"] = 0 /\ (Resting' = Resting \/ Resting' = 0)
  BY <1>2, SMT DEF HedgeInv, OpensOnly, Resting, NoOrders, Kind
<1> QED
  BY <1>1, <1>2, <1>3, SMT DEF InFlight

\* An open moves on without touching the venues.
LEMMA MoveKeepsHedge ==
    ASSUME ExecInv, HedgeInv, call = "open", pc \notin {"idle", "base"},
           UNCHANGED venueVars, UNCHANGED <<call, leg, base, got>>,
           pc' \in {"price", "orders", "pull", "flatten", "confirm"}
             \/ (pc' \in {"maker", "sweep"} /\ leg = "lit" /\ InFlight = 0 /\ Resting = 0)
             \/ (pc' \in {"cancel", "verify"} /\ leg = "lit" /\ InFlight = 0)
    PROVE  HedgeInv'
<1>1. InFlight \in Nat /\ Resting \in Nat /\ InFlight' = InFlight /\ Resting' = Resting
  BY OpenQuantities, Zenon DEF venueVars, InFlight, Resting
<1>2. flight'["lit"]["reduce"] = 0 /\ rest'["reduce"] = 0 /\ pos' = pos
  BY Zenon DEF HedgeInv, OpensOnly, venueVars
<1>3. InFlight' + Resting' <= InFlight + Resting
  BY <1>1, SMT
<1>4. /\ pc' \notin {"idle", "base", "submit"}
      /\ pc' \in {"maker", "wait", "cancel", "verify", "sweep"} => leg = "lit" /\ InFlight' = 0
      /\ pc' \in {"maker", "sweep"} => Resting' = 0
  BY <1>1, SMT
<1> QED
  BY <1>1, <1>2, <1>3, <1>4, GoingOnKeepsHedge, Zenon

-----------------------------------------------------------------------------
\* A quote is within what is missing, and a failed placement leaves none.
LEMMA MakerQuoteKeepsHedge ==
    ASSUME Truthful, ExecInv, HedgeInv, call = "open", MakerQuote
    PROVE  HedgeInv'
<1>1. /\ pc = "maker" /\ leg = "lit" /\ InFlight = 0 /\ Resting = 0
      /\ flight["lit"]["reduce"] = 0 /\ rest["reduce"] = 0
  BY AtMaker, Zenon DEF MakerQuote, At
<1>2. CASE Raise /\ UNCHANGED venueVars
  BY <1>1, <1>2, RaiseKeepsHedge, Zenon DEF venueVars
<1>3. CASE Goto("sweep") /\ UNCHANGED venueVars
  BY <1>1, <1>3, MoveKeepsHedge, Zenon DEF Goto
<1>4. ASSUME NEW r \in Reads("lit"), NEW n, n = QuantizeDown(Remaining(r), StepOf("lit")),
             n > 0, Rest(n), Goto("wait")
      PROVE  HedgeInv'
  <2>1. n \in Nat /\ Gained + n <= Lots(got["var"])
    <3>1. n \in Int /\ Gained + n <= Lots(got["var"])
      BY <1>1, <1>4, OrderFits, Zenon
    <3> QED
      BY <1>4, <3>1, SMT
  <2>2. pos' = pos /\ flight' = flight /\ rest' = [rest EXCEPT !["open"] = @ + n]
    BY <1>4, Zenon DEF Rest, Side
  <2>3. InFlight' = 0 /\ Resting' = n /\ rest'["reduce"] = 0 /\ flight'["lit"]["reduce"] = 0
    BY <1>1, <2>1, <2>2, SMT DEF InFlight, Resting, ExecInv, VenueTypeOK, Kind
  <2>4. Gained \in Int
    BY OpenQuantities, SMT DEF Gained
  <2>5. Gained + InFlight' + Resting' <= Lots(got["var"])
    BY <2>1, <2>3, <2>4, SMT
  <2>6. pc' = "wait" /\ UNCHANGED <<call, leg, base, got>>
    BY <1>4, Zenon DEF Goto
  <2>7. InFlight' \in Nat /\ Resting' \in Nat
    BY <2>1, <2>3, SMT
  <2> QED
    BY <1>1, <2>2, <2>3, <2>5, <2>6, <2>7, GoingOnKeepsHedge, SMT
<1>5. CASE CancelAll /\ UNCHANGED <<call, pc, leg, base, got>>
  <2>1. /\ pos' = pos /\ flight' = flight /\ rest'["reduce"] = 0
        /\ InFlight' = InFlight /\ Resting' \in Nat /\ Resting' <= Resting
    BY <1>5, CancelPulls, Zenon
  <2>2. Resting' = 0 /\ InFlight' = 0
    BY <1>1, <2>1, SMT
  <2> QED
    BY <1>1, <1>5, <2>1, <2>2, GoingOnKeepsHedge, SMT
<1> QED
  BY <1>2, <1>3, <1>4, <1>5, Zenon DEF MakerQuote, Truthful

\* The rest of the passive loop: nothing is quoted again before the query of
\* the resting orders has shown none.
LEMMA MakerWorkKeepsHedge ==
    ASSUME Truthful, ExecInv, HedgeInv, call = "open", MakerWait \/ MakerCancel \/ MakerVerify
    PROVE  HedgeInv'
<1>1. /\ pc \in {"wait", "cancel", "verify"} /\ leg = "lit" /\ InFlight = 0
      /\ flight["lit"]["reduce"] = 0
  BY AtMaker, Zenon DEF MakerWait, MakerCancel, MakerVerify, At
<1>2. CASE Raise /\ UNCHANGED venueVars
  BY <1>1, <1>2, RaiseKeepsHedge, SMT DEF venueVars
<1>3. CASE Goto("cancel") /\ UNCHANGED venueVars
  BY <1>1, <1>3, MoveKeepsHedge, SMT DEF Goto
<1>4. CASE CancelAll /\ Goto("verify")
  <2>1. /\ pos' = pos /\ flight' = flight /\ rest'["reduce"] = 0
        /\ InFlight' = InFlight /\ Resting' \in Nat /\ Resting' <= Resting
    BY <1>4, CancelPulls, Zenon
  <2>2. pc' = "verify" /\ UNCHANGED <<call, leg, base, got>>
    BY <1>4, Zenon DEF Goto
  <2>3. InFlight' + Resting' <= InFlight + Resting /\ InFlight' \in Nat
    BY <2>1, OpenQuantities, SMT
  <2> QED
    BY <1>1, <2>1, <2>2, <2>3, GoingOnKeepsHedge, SMT
<1>5. CASE /\ ShowsNoOrders /\ pc' = "maker" /\ UNCHANGED <<call, leg, base, got>>
           /\ UNCHANGED venueVars
  <2>1. Resting = 0
    BY <1>5, LitRead, SMT DEF Resting, NoOrders, Kind
  <2> QED
    BY <1>1, <1>5, <2>1, MoveKeepsHedge, SMT
<1> QED
  BY <1>2, <1>3, <1>4, <1>5, Zenon DEF MakerWait, MakerCancel, MakerVerify

\* The taker is for what the passive quotes left.
LEMMA SweepKeepsHedge ==
    ASSUME Truthful, ExecInv, HedgeInv, call = "open", Sweep
    PROVE  HedgeInv'
<1>1. /\ pc = "sweep" /\ leg = "lit" /\ InFlight = 0 /\ Resting = 0
      /\ flight["lit"]["reduce"] = 0 /\ rest["reduce"] = 0
  BY AtMaker, Zenon DEF Sweep, At
<1>2. CASE Raise /\ UNCHANGED venueVars
  BY <1>1, <1>2, RaiseKeepsHedge, Zenon DEF venueVars
<1>3. CASE Goto("confirm") /\ UNCHANGED venueVars
  BY <1>1, <1>3, MoveKeepsHedge, Zenon DEF Goto
<1>4. ASSUME NEW r \in Reads("lit"), NEW n, n = QuantizeDown(Remaining(r), StepOf("lit")),
             n > 0, Accept("lit", Side, n), Goto("confirm")
      PROVE  HedgeInv'
  <2>1. n \in Nat /\ Gained + n <= Lots(got["var"])
    <3>1. n \in Int /\ Gained + n <= Lots(got["var"])
      BY <1>1, <1>4, OrderFits, Zenon
    <3> QED
      BY <1>4, <3>1, SMT
  <2>2. pos' = pos /\ rest' = rest /\ flight' = [flight EXCEPT !["lit"]["open"] = @ + n]
    BY <1>4, Zenon DEF Accept, Side
  <2>3. InFlight' = n /\ Resting' = 0 /\ rest'["reduce"] = 0 /\ flight'["lit"]["reduce"] = 0
    BY <1>1, <2>1, <2>2, SMT DEF InFlight, Resting, ExecInv, VenueTypeOK, Venue, Kind
  <2>4. Gained \in Int
    BY OpenQuantities, SMT DEF Gained
  <2>5. Gained + InFlight' + Resting' <= Lots(got["var"])
    BY <2>1, <2>3, <2>4, SMT
  <2>6. pc' = "confirm" /\ UNCHANGED <<call, leg, base, got>>
    BY <1>4, Zenon DEF Goto
  <2>7. InFlight' \in Nat /\ Resting' \in Nat
    BY <2>1, <2>3, SMT
  <2> QED
    BY <1>1, <2>2, <2>3, <2>5, <2>6, <2>7, GoingOnKeepsHedge, SMT
<1> QED
  BY <1>2, <1>3, <1>4, Zenon DEF Sweep, Refuse, Truthful

\* The end of an open orders nothing more on Lighter.
LEMMA EndKeepsHedge ==
    ASSUME Truthful, ExecInv, HedgeInv, call = "open",
           ReadPrices \/ CheckOrders \/ PullOrders \/ FlattenVar \/ FlattenDust
    PROVE  HedgeInv'
<1>1. CASE ReadPrices \/ CheckOrders
  <2>1. pc \notin {"idle", "base"} /\ UNCHANGED venueVars
    BY <1>1, SMT DEF ReadPrices, CheckOrders, At
  <2>2. CASE Goto("orders")
    BY <2>1, <2>2, MoveKeepsHedge, SMT DEF Goto
  <2>3. CASE \E outcome \in {"error", "naked", "filled"} : Return(outcome)
    BY <2>1, <2>3, ReturnKeepsHedge, SMT DEF Return, venueVars
  <2> QED
    BY <1>1, <2>2, <2>3, Zenon DEF ReadPrices, CheckOrders
<1>2. CASE PullOrders
  <2>1. /\ pos' = pos /\ flight' = flight /\ rest'["reduce"] = 0
        /\ InFlight' = InFlight /\ Resting' \in Nat /\ Resting' <= Resting
    BY <1>2, CancelPulls, Zenon DEF PullOrders
  <2>2. pc = "pull" /\ pc' = "flatten" /\ UNCHANGED <<call, leg, base, got>>
    BY <1>2, Zenon DEF PullOrders, At, Goto
  <2>3. InFlight' + Resting' <= InFlight + Resting /\ InFlight' \in Nat
    BY <2>1, OpenQuantities, SMT
  <2>4. flight'["lit"]["reduce"] = 0
    BY <2>1, AtMaker, Zenon
  <2> QED
    BY <2>1, <2>2, <2>3, <2>4, GoingOnKeepsHedge, SMT
<1>3. CASE FlattenVar \/ FlattenDust
  <2>1. Accept("var", "reduce", got["var"]) \/ UNCHANGED venueVars
    BY <1>3, Zenon DEF FlattenVar, FlattenDust, Refuse
  <2>2. flight'["lit"] = flight["lit"] /\ rest' = rest
    BY <2>1, SMT DEF Accept, venueVars, ExecInv, VenueTypeOK, Venue
  <2>3. \E outcome \in {"error", "naked"} : Return(outcome)
    BY <1>3, Zenon DEF FlattenVar, FlattenDust
  <2> QED
    BY <2>2, <2>3, ReturnKeepsHedge, SMT DEF Return
<1> QED
  BY <1>1, <1>2, <1>3

-----------------------------------------------------------------------------
\* A close stays one until it has returned with an outcome.
LEMMA CloseStays ==
    ASSUME ExecInv, HedgeInv, call = "close", ExecStep
    PROVE  HedgeInv'
<1> SUFFICES call' = "close" /\ (pc' = "idle" => res' # "none")
  BY Zenon DEF HedgeInv, OpensOnly, OnceOnly, Fresh, LegOf, Hedging
<1> USE DEF Goto, Return, Raise, At
<1>1. CASE Baseline
  <2>1. CASE Raise
    BY <2>1, SMT
  <2>2. CASE ~Raise
    BY <1>1, <2>2, SMT DEF Baseline
  <2> QED
    BY <2>1, <2>2
<1>2. CASE CloseNothing
  BY <1>2, SMT DEF CloseNothing
<1>3. CASE Submit
  BY <1>3, SMT DEF Submit
<1>4. CASE Confirm
  <2>1. CASE Raise
    BY <2>1, SMT
  <2>2. CASE \E n : Confirmed(n)
    BY <2>2, SMT DEF Confirmed, CloseConfirmed
  <2> QED
    BY <1>4, <2>1, <2>2, Zenon DEF Confirm
<1>5. CASE RetryClose
  BY <1>5, SMT DEF RetryClose
<1>6. CASE MakerQuote
  BY <1>6, SMT DEF MakerQuote
<1>7. CASE MakerWait \/ MakerCancel \/ MakerVerify
  BY <1>7, SMT DEF MakerWait, MakerCancel, MakerVerify
<1>8. CASE Sweep
  BY <1>8, SMT DEF Sweep
<1>9. CASE ReadPrices \/ CheckOrders \/ PullOrders \/ FlattenVar \/ FlattenDust
  BY <1>9, SMT DEF ReadPrices, CheckOrders, PullOrders, FlattenVar, FlattenDust
<1> QED
  BY <1>1, <1>2, <1>3, <1>4, <1>5, <1>6, <1>7, <1>8, <1>9, Zenon DEF ExecStep

LEMMA StepKeepsHedge ==
    ASSUME Truthful, RoundInv, HedgeInv, [Next]_vars
    PROVE  HedgeInv'
<1>1. ExecInv
  BY Zenon DEF RoundInv
<1>2. CASE OpenHedge
  <2>1. /\ pc = "idle" /\ res = "none" /\ call' = "open" /\ pc' = "base" /\ leg' = "var"
        /\ UNCHANGED venueVars
    BY <1>2, Zenon DEF OpenHedge, Called
  <2>2. call = "open"
    BY <1>1, <2>1, SMT DEF HedgeInv, OnceOnly, ExecInv, ExecTypeOK
  <2>3. InFlight = 0 /\ Resting = 0 /\ flight["lit"]["reduce"] = 0 /\ rest["reduce"] = 0
    BY <2>1, <2>2, Zenon DEF HedgeInv, Fresh, OpensOnly
  <2> QED
    BY <2>1, <2>3, SMT DEF HedgeInv, OpensOnly, OnceOnly, Fresh, LegOf, Hedging,
       InFlight, Resting, venueVars
<1>3. CASE CloseHedge \/ CloseLegless
  <2>1. call' = "close" /\ pc' = "base"
    BY <1>3, Zenon DEF CloseHedge, CloseLegless, Called
  <2> QED
    BY <2>1, SMT DEF HedgeInv, OpensOnly, OnceOnly, Fresh, LegOf, Hedging
<1>4. CASE Executor
  <2>1. CASE call = "close"
    BY <1>1, <1>4, <2>1, CloseStays, Zenon DEF Executor
  <2>2. CASE call = "open"
    <3>1. ~CloseNothing /\ ~RetryClose
      BY <1>1, <2>2, SMT DEF CloseNothing, RetryClose, At, ExecInv, ExecShape
    <3> QED
      BY <1>1, <1>4, <2>2, <3>1, BaselineKeepsHedge, SubmitKeepsHedge, ConfirmKeepsHedge,
         MakerQuoteKeepsHedge, MakerWorkKeepsHedge, SweepKeepsHedge, EndKeepsHedge,
         Zenon DEF Executor, ExecStep
  <2> QED
    BY <1>1, <2>1, <2>2, Zenon DEF ExecInv, ExecTypeOK
<1>5. CASE Venues
  BY <1>1, <1>5, VenuesKeepHedge, Zenon
<1>6. CASE UNCHANGED vars
  <2>1. UNCHANGED <<pos, flight, rest, call, pc, leg, base, got, res>>
    BY <1>6, Zenon DEF vars, venueVars, execVars
  <2>2. /\ InFlight' = InFlight /\ Resting' = Resting /\ Gained' = Gained
        /\ Lots(got["var"])' = Lots(got["var"])
    BY <2>1, Zenon DEF InFlight, Resting, Gained, Lots, QuantizeDown
  <2> QED
    BY <2>1, <2>2, Zenon DEF HedgeInv, OpensOnly, OnceOnly, Fresh, LegOf, Hedging
<1> QED
  BY <1>2, <1>3, <1>4, <1>5, <1>6, Zenon DEF Next

LEMMA StartsHedge == Init => HedgeInv
<1> SUFFICES ASSUME Init PROVE HedgeInv
  OBVIOUS
<1>1. call = "open" /\ pc = "idle" /\ res = "none"
  BY Zenon DEF Init, ExecInit
<1>2. flight = [v \in Venue |-> NoOrders] /\ rest = NoOrders
  BY Zenon DEF Init, VenueInit
<1>3. InFlight = 0 /\ Resting = 0 /\ flight["lit"]["reduce"] = 0 /\ rest["reduce"] = 0
  BY <1>2, SMT DEF InFlight, Resting, NoOrders, Venue, Kind
<1> QED
  BY <1>1, <1>3, SMT DEF HedgeInv, OpensOnly, OnceOnly, Fresh, LegOf, Hedging

\* Whatever the venues accept, drop, delay or fill in pieces, as long as they
\* tell the truth about it, an open never has more on Lighter, in positions and
\* orders together, than the lots of the Variational fill it hedges.
THEOREM NeverDoubles == Truthful => (Spec => []NoDoubleHedge)
<1> SUFFICES ASSUME Truthful PROVE Spec => []NoDoubleHedge
  OBVIOUS
<1>1. HedgeInv => NoDoubleHedge
  BY Zenon DEF HedgeInv, Hedging, NoDoubleHedge, Gained, InFlight, Resting
<1>2. Init => RoundInv /\ HedgeInv
  BY RoundStartsTyped, StartsHedge, Zenon
<1>3. RoundInv /\ HedgeInv /\ [Next]_vars => (RoundInv /\ HedgeInv)'
  BY RoundTypes, StepKeepsHedge, Zenon
<1> QED
  BY <1>1, <1>2, <1>3, PTL DEF Spec

-----------------------------------------------------------------------------
(***************************************************************************)
(* A round whose takers fill whole: what is confirmed is what there is.    *)
(*                                                                         *)
(* WholeInv follows the two legs of an open and of its close.  A leg of    *)
(* the Variational RFQ is either in flight or filled, so its confirmation  *)
(* is final.  On Lighter the confirmation may come at a passive fill while *)
(* the taker is in flight, but then a whole lot is missing from it and the *)
(* imbalance guard refuses the open.  A close starts with nothing of the   *)
(* open left to fill, so the positions it works can only go down.          *)
(***************************************************************************)
GainedVar == pos["var"] - base["var"]

\* A running call has no outcome, and what a call ends with is one of its own.
OwnOutcome ==
    /\ pc # "idle" => res = "none"
    /\ call = "open" => legs = NoLegs
    /\ call = "close" => /\ pc \notin {"price", "orders", "pull", "flatten", "dust"}
                         /\ res \in {"none", "closed", "raised"}

\* The Variational leg of an open.
VarWhole ==
    call = "open" /\ ~pieces =>
        /\ res \in {"none", "filled"} => flight["var"]["reduce"] = 0
        /\ pc \in {"base", "submit"} \/ (pc = "idle" /\ res = "none") => flight["var"]["open"] = 0
        /\ pc = "submit" => GainedVar = 0
        /\ pc = "confirm" /\ leg = "var" =>
               GainedVar >= 0 /\ (GainedVar = 0 \/ flight["var"]["open"] = 0)
        /\ leg = "lit" /\ res \in {"none", "filled"} =>
               flight["var"]["open"] = 0 /\ GainedVar = got["var"]
        /\ pc \in {"price", "orders"} \/ res = "filled" => leg = "lit"

\* Its Lighter leg, from the taker on.
LitWhole ==
    call = "open" /\ ~pieces =>
        /\ pc = "confirm" /\ leg = "lit" => Resting = 0 /\ (InFlight = 0 \/ InFlight >= LotStep)
        /\ pc = "price" =>
               Resting = 0 /\ ((InFlight = 0 /\ Gained = got["lit"])
                               \/ got["lit"] + LotStep <= Lots(got["var"]))
        /\ pc = "orders" \/ res = "filled" =>
               /\ Resting = 0 /\ InFlight = 0 /\ Gained = got["lit"]
               /\ WithinHalfLot(got["var"] - got["lit"])

\* The legs of a close.
CloseWhole ==
    call = "close" /\ ~pieces /\ legs # NoLegs =>
        /\ \A v \in Venue : flight[v]["open"] = 0
        /\ rest["open"] = 0
        /\ pc \notin {"idle", "base"} => pos[leg] <= base[leg]
        /\ leg = "lit" => pos["var"] <= base["var"] - legs["var"]
        /\ res = "closed" => leg = "lit" /\ pos["lit"] <= base["lit"] - legs["lit"]

WholeInv == OwnOutcome /\ VarWhole /\ LitWhole /\ CloseWhole

-----------------------------------------------------------------------------
\* As long as no taker fills in part, one that fills is gone.
LEMMA FillsWhole ==
    ASSUME VenueTypeOK, Venues, ~pieces', NEW u \in Venue, NEW j \in Kind
    PROVE  flight'[u][j] \in {0, flight[u][j]}
<1>1. flight'[u][j] \in 0 .. flight[u][j] /\ flight[u][j] \in Nat
  BY VenuesMove, SMT DEF Venues, VenueTypeOK
<1>2. flight'[u][j] \notin 1 .. flight[u][j] - 1
  BY Zenon DEF Venues
<1> QED
  BY <1>1, <1>2, SMT

LEMMA VarFillsWhole ==
    ASSUME VenueTypeOK, Venues, ~pieces', flight["var"]["reduce"] = 0
    PROVE  /\ pos'["var"] \in Nat /\ pos'["var"] >= pos["var"]
           /\ pos'["var"] = pos["var"] \/ flight'["var"]["open"] = 0
           /\ flight["var"]["open"] = 0 => pos'["var"] = pos["var"] /\ flight'["var"]["open"] = 0
           /\ flight'["var"]["reduce"] = 0
<1>1. PICK v \in Venue, k \in Kind, n \in Nat, f \in Nat, r \in Nat :
             /\ f <= flight[v][k] /\ flight' = [flight EXCEPT ![v][k] = f]
             /\ r <= rest[k] /\ rest' = [rest EXCEPT ![k] = r]
             /\ pos' = [pos EXCEPT ![v] = IF k = "open" THEN @ + n ELSE @ - n]
             /\ k = "reduce" => n <= pos[v]
             /\ n = 0 \/ flight[v][k] > f \/ (v = "lit" /\ rest[k] > 0)
             /\ v = "lit" \/ n + f <= flight[v][k]
             /\ v = "lit" \/ "partial" \in Faults
                  \/ (f = 0 /\ n \in {0, Fillable(v, k, flight[v][k])})
  BY VenueStepIs DEF Venues
<1>2. /\ pos \in [Venue -> Nat] /\ flight \in [Venue -> [Kind -> Nat]]
      /\ "var" \in Venue /\ "open" \in Kind /\ "reduce" \in Kind
  BY SMT DEF VenueTypeOK, Venue, Kind
<1>3. /\ pos["var"] \in Nat /\ flight["var"]["open"] \in Nat
      /\ pos'["var"] >= pos["var"]
      /\ flight["var"]["open"] = 0 => pos'["var"] <= pos["var"]
      /\ \A j \in Kind : flight'["var"][j] \in 0 .. flight["var"][j]
  BY <1>2, VenuesMove, SMT DEF Venues
<1>4. pos'["var"] = pos["var"] \/ (v = "var" /\ k = "open" /\ pos'["var"] = pos["var"] + n)
  <2>1. v # "var" => pos'["var"] = pos["var"]
    BY <1>1, <1>2, SMT
  <2>2. v = "var" /\ k = "open" => pos'["var"] = pos["var"] + n
    BY <1>1, <1>2, SMT
  <2>3. v = "var" /\ k = "reduce" => pos'["var"] = pos["var"] - n
    BY <1>1, <1>2, SMT
  <2> QED
    BY <1>3, <2>1, <2>2, <2>3, SMT DEF Kind
<1>5. ASSUME v = "var", k = "open", pos'["var"] = pos["var"] + n, n # 0
      PROVE  flight'["var"]["open"] = 0
  <2>1. flight["var"]["open"] > f /\ flight'["var"]["open"] = f
    BY <1>1, <1>2, <1>5, SMT
  <2>2. flight'["var"]["open"] \in {0, flight["var"]["open"]}
    BY <1>2, FillsWhole
  <2> QED
    BY <1>3, <2>1, <2>2, SMT
<1>6. pos'["var"] = pos["var"] \/ flight'["var"]["open"] = 0
  BY <1>3, <1>4, <1>5, SMT
<1>7. flight'["var"]["reduce"] = 0 /\ (flight["var"]["open"] = 0 => flight'["var"]["open"] = 0)
  BY <1>2, <1>3, SMT
<1>8. pos'["var"] \in Nat
  BY <1>3, <1>4, SMT
<1> QED
  BY <1>3, <1>6, <1>7, <1>8, SMT

LEMMA VenuesKeepWhole ==
    ASSUME ExecInv, HedgeInv, WholeInv, Venues
    PROVE  WholeInv'
<1>1. /\ UNCHANGED <<armed, maker, legs, call, pc, leg, base, got, res>> /\ VenueStep
      /\ ~pieces' => ~pieces
      /\ VenueTypeOK /\ VenueTypeOK'
  <2>1. VenueTypeOK /\ VenueStep
    BY Zenon DEF ExecInv, Venues
  <2>2. VenueTypeOK'
    BY <2>1, VenueStepKeeps
  <2>3. UNCHANGED <<armed, maker, legs, call, pc, leg, base, got, res>>
    BY Zenon DEF Venues, execVars, ledgerVars
  <2>4. ~pieces' => ~pieces
    BY Zenon DEF Venues
  <2> QED
    BY <2>1, <2>2, <2>3, <2>4, Zenon
<1>2. OwnOutcome'
  BY <1>1, Zenon DEF WholeInv, OwnOutcome
<1> SUFFICES ASSUME ~pieces', ~pieces PROVE VarWhole' /\ LitWhole' /\ CloseWhole'
  BY <1>1, <1>2, Zenon DEF WholeInv, VarWhole, LitWhole, CloseWhole, Venues
<1>3. /\ pos["var"] \in Nat /\ base["var"] \in Nat /\ pos["lit"] \in Nat /\ base["lit"] \in Nat
      /\ pos'["lit"] \in Nat /\ InFlight \in Nat /\ Resting \in Nat
      /\ legs["var"] \in Nat /\ legs["lit"] \in Nat
  BY <1>1, SMT DEF ExecInv, ExecTypeOK, VenueTypeOK, Venue, Kind, InFlight, Resting
<1>4. CASE call = "open"
  <2>1. VarWhole'
    <3> SUFFICES ASSUME res \in {"none", "filled"} PROVE VarWhole'
      BY <1>1, <1>2, <1>4, Zenon DEF VarWhole, OwnOutcome
    <3>1. flight["var"]["reduce"] = 0
      BY <1>4, Zenon DEF WholeInv, VarWhole
    <3>2. /\ pos'["var"] \in Nat /\ pos'["var"] >= pos["var"]
          /\ pos'["var"] = pos["var"] \/ flight'["var"]["open"] = 0
          /\ flight["var"]["open"] = 0 => pos'["var"] = pos["var"] /\ flight'["var"]["open"] = 0
          /\ flight'["var"]["reduce"] = 0
      BY <1>1, <3>1, VarFillsWhole, Zenon
    <3>3. flight["var"]["open"] = 0 => GainedVar' = GainedVar
      BY <1>1, <3>2, Zenon DEF GainedVar
    <3>4. ASSUME pc = "confirm", leg = "var"
          PROVE  GainedVar' >= 0 /\ (GainedVar' = 0 \/ flight'["var"]["open"] = 0)
      <4>1. GainedVar >= 0 /\ (GainedVar = 0 \/ flight["var"]["open"] = 0)
        BY <1>4, <3>4, Zenon DEF WholeInv, VarWhole
      <4>2. GainedVar' >= 0
        BY <1>1, <1>3, <3>2, <4>1, SMT DEF GainedVar
      <4>3. pos'["var"] = pos["var"] => GainedVar' = GainedVar
        BY <1>1, Zenon DEF GainedVar
      <4> QED
        BY <3>2, <4>1, <4>2, <4>3, Zenon
    <3>5. pc = "submit" => GainedVar' = 0
      BY <1>4, <3>3, Zenon DEF WholeInv, VarWhole
    <3>6. pc \in {"base", "submit"} \/ (pc = "idle" /\ res = "none") => flight'["var"]["open"] = 0
      BY <1>4, <3>2, Zenon DEF WholeInv, VarWhole
    <3>7. leg = "lit" => flight'["var"]["open"] = 0 /\ GainedVar' = got["var"]
      BY <1>4, <3>2, <3>3, Zenon DEF WholeInv, VarWhole
    <3>8. pc \in {"price", "orders"} \/ res = "filled" => leg = "lit"
      BY <1>4, Zenon DEF WholeInv, VarWhole
    <3> QED
      BY <1>1, <3>2, <3>4, <3>5, <3>6, <3>7, <3>8, Zenon DEF VarWhole
  <2>2. flight["lit"]["reduce"] = 0 /\ rest["reduce"] = 0
    BY <1>4, Zenon DEF HedgeInv, OpensOnly
  <2>3. Resting' \in 0 .. Resting /\ InFlight' \in {0, InFlight} /\ pos'["lit"] >= pos["lit"]
    BY <1>1, <2>2, VenuesMove, FillsWhole, Zenon DEF Resting, InFlight, Venue, Kind
  <2>4. Resting = 0 => Resting' = 0
    BY <2>3, SMT
  <2>5. InFlight = 0 /\ Resting = 0 => InFlight' = 0 /\ Gained' = Gained
    <3>1. InFlight = 0 /\ Resting = 0 => pos'["lit"] <= pos["lit"]
      BY <1>1, VenuesMove, Zenon DEF Resting, InFlight, Venue
    <3>2. InFlight = 0 /\ Resting = 0 => pos'["lit"] = pos["lit"]
      BY <1>3, <2>3, <3>1, SMT
    <3> QED
      BY <1>1, <2>3, <3>2, Zenon DEF Gained
  <2>6. LitWhole'
    <3>1. Lots(got["var"])' = Lots(got["var"])
          /\ (WithinHalfLot(got["var"] - got["lit"])' <=> WithinHalfLot(got["var"] - got["lit"]))
      BY <1>1, Zenon DEF Lots, QuantizeDown, WithinHalfLot, Abs
    <3>2. pc = "confirm" /\ leg = "lit" => Resting' = 0 /\ (InFlight' = 0 \/ InFlight' >= LotStep)
      BY <1>4, <2>3, <2>4, Zenon DEF WholeInv, LitWhole
    <3>3. pc = "price" =>
               Resting' = 0 /\ ((InFlight' = 0 /\ Gained' = got["lit"])
                               \/ got["lit"] + LotStep <= Lots(got["var"]))
      BY <1>4, <2>4, <2>5, Zenon DEF WholeInv, LitWhole
    <3>4. pc = "orders" \/ res = "filled" =>
               /\ Resting' = 0 /\ InFlight' = 0 /\ Gained' = got["lit"]
               /\ WithinHalfLot(got["var"] - got["lit"])
      BY <1>4, <2>4, <2>5, Zenon DEF WholeInv, LitWhole
    <3> QED
      BY <1>1, <3>1, <3>2, <3>3, <3>4, Zenon DEF LitWhole
  <2>7. CloseWhole'
    BY <1>1, <1>4, Zenon DEF CloseWhole
  <2> QED
    BY <2>1, <2>6, <2>7, Zenon
<1>5. CASE call = "close"
  <2>1. VarWhole' /\ LitWhole'
    BY <1>1, <1>5, Zenon DEF VarWhole, LitWhole
  <2>2. ASSUME legs # NoLegs PROVE CloseWhole'
    <3>1. (\A v \in Venue : flight[v]["open"] = 0) /\ rest["open"] = 0
      BY <1>5, <2>2, Zenon DEF WholeInv, CloseWhole
    <3>2. ASSUME NEW v \in Venue PROVE pos'[v] <= pos[v] /\ flight'[v]["open"] = 0
      <4>1. flight'[v]["open"] \in 0 .. flight[v]["open"] /\ pos'[v] <= pos[v]
        BY <1>1, <3>1, VenuesMove, Zenon DEF Kind
      <4> QED
        BY <3>1, <4>1, SMT
    <3>3. rest'["open"] = 0
      <4>1. rest'["open"] \in 0 .. rest["open"]
        BY <1>1, VenuesMove, Zenon DEF Venue, Kind
      <4> QED
        BY <3>1, <4>1, SMT
    <3>4. \A v \in Venue, n \in Int : pos[v] <= n => pos'[v] <= n
      <4>1. \A v \in Venue : pos[v] \in Int /\ pos'[v] \in Int
        BY <1>1, SMT DEF VenueTypeOK
      <4> QED
        BY <3>2, <4>1, SMT
    <3>5. leg \in Venue /\ "var" \in Venue /\ "lit" \in Venue
          /\ base[leg] \in Int /\ base["var"] - legs["var"] \in Int /\ base["lit"] - legs["lit"] \in Int
      BY <1>3, SMT DEF ExecInv, ExecTypeOK, Venue
    <3>6. pc \notin {"idle", "base"} => pos'[leg] <= base[leg]
      BY <1>5, <2>2, <3>4, <3>5, Zenon DEF WholeInv, CloseWhole
    <3>7. leg = "lit" => pos'["var"] <= base["var"] - legs["var"]
      BY <1>5, <2>2, <3>4, <3>5, Zenon DEF WholeInv, CloseWhole
    <3>8. res = "closed" => leg = "lit" /\ pos'["lit"] <= base["lit"] - legs["lit"]
      BY <1>5, <2>2, <3>4, <3>5, Zenon DEF WholeInv, CloseWhole
    <3> QED
      BY <1>1, <3>2, <3>3, <3>6, <3>7, <3>8, Zenon DEF CloseWhole
  <2>3. legs = NoLegs => CloseWhole'
    BY <1>1, Zenon DEF CloseWhole
  <2> QED
    BY <2>1, <2>2, <2>3, Zenon
<1> QED
  BY <1>4, <1>5, Zenon DEF ExecInv, ExecTypeOK

-----------------------------------------------------------------------------
\* An open that returns without the legs is out of what WholeInv follows.
LEMMA ReturnKeepsWhole ==
    ASSUME WholeInv, call = "open", UNCHANGED <<call, legs>>, pc' = "idle", res' \in {"naked", "error"}
    PROVE  WholeInv'
BY SMT DEF WholeInv, OwnOutcome, VarWhole, LitWhole, CloseWhole

\* An open at work on Lighter leaves Variational alone.
LEMMA GoingOnKeepsWhole ==
    ASSUME WholeInv, call = "open", ~pieces, pc # "idle", leg = "lit",
           UNCHANGED <<call, leg, base, legs, pieces>>, got'["var"] = got["var"],
           pos'["var"] = pos["var"], flight'["var"] = flight["var"],
           \/ pc' \notin {"idle", "base", "submit"} /\ res' = res
           \/ pc' = "idle" /\ res' = "filled",
           pc' = "confirm" => Resting' = 0 /\ (InFlight' = 0 \/ InFlight' >= LotStep),
           pc' = "price" =>
               Resting' = 0 /\ ((InFlight' = 0 /\ Gained' = got'["lit"])
                               \/ got'["lit"] + LotStep <= Lots(got["var"])),
           pc' = "orders" \/ res' = "filled" =>
               /\ Resting' = 0 /\ InFlight' = 0 /\ Gained' = got'["lit"]
               /\ WithinHalfLot(got["var"] - got["lit"])'
    PROVE  WholeInv'
<1>1. res = "none" /\ legs = NoLegs
  BY Zenon DEF WholeInv, OwnOutcome
<1>2. OwnOutcome'
  BY <1>1, Zenon DEF OwnOutcome
<1>3. /\ flight["var"]["reduce"] = 0 /\ flight["var"]["open"] = 0 /\ GainedVar = got["var"]
      /\ GainedVar' = GainedVar
  BY <1>1, Zenon DEF WholeInv, VarWhole, GainedVar
<1>4. VarWhole'
  BY <1>1, <1>3, Zenon DEF VarWhole
<1>5. Lots(got["var"])' = Lots(got["var"])
  BY Zenon DEF Lots, QuantizeDown
<1>6. LitWhole'
  BY <1>1, <1>5, Zenon DEF LitWhole
<1>7. CloseWhole'
  BY Zenon DEF CloseWhole
<1> QED
  BY <1>2, <1>4, <1>6, <1>7, Zenon DEF WholeInv

\* An exception of an open.
LEMMA RaiseKeepsWhole ==
    ASSUME ExecInv, WholeInv, call = "open", ~pieces, pc # "idle", UNCHANGED <<legs, pieces>>,
           pos'["var"] = pos["var"], flight'["var"] = flight["var"], Raise
    PROVE  WholeInv'
<1>1. CASE leg = "lit"
  <2>1. pc' = "pull" /\ UNCHANGED <<call, leg, base, got, res>>
    BY <1>1, Zenon DEF Raise, Goto
  <2>2. res' # "filled"
    BY <2>1, Zenon DEF WholeInv, OwnOutcome
  <2> QED
    BY <1>1, <2>1, <2>2, GoingOnKeepsWhole, Zenon
<1>2. CASE leg # "lit"
  BY <1>2, ReturnKeepsWhole, Zenon DEF Raise, Return
<1> QED
  BY <1>1, <1>2

-----------------------------------------------------------------------------
\* A call runs without an outcome and ends with one of its own.
LEMMA OwnOutcomeKept ==
    ASSUME ExecInv, OwnOutcome, ExecStep
    PROVE  OwnOutcome'
<1>1. /\ pc # "idle" /\ res = "none" /\ legs' = legs
      /\ call = "close" => pc \notin {"price", "orders", "pull", "flatten", "dust"}
  <2>1. pc # "idle" /\ UNCHANGED ledgerVars
    BY SMT DEF ExecStep, Baseline, CloseNothing, Submit, Confirm, RetryClose, MakerQuote, MakerWait,
       MakerCancel, MakerVerify, Sweep, ReadPrices, CheckOrders, PullOrders, FlattenVar, FlattenDust, At
  <2> QED
    BY <2>1, Zenon DEF OwnOutcome, ledgerVars
<1>2. call \in {"open", "close"}
  BY Zenon DEF ExecInv, ExecTypeOK
<1> SUFFICES /\ call' = call
             /\ pc' # "idle" => res' = "none"
             /\ call = "close" => /\ pc' \notin {"price", "orders", "pull", "flatten", "dust"}
                                  /\ res' \in {"none", "closed", "raised"}
  BY <1>1, Zenon DEF OwnOutcome
<1> USE <1>1, <1>2 DEF Goto, Return
<1>3. CASE Raise
  BY <1>3, SMT DEF Raise
<1>4. CASE Baseline
  BY <1>3, <1>4, SMT DEF Baseline
<1>5. CASE CloseNothing
  BY <1>3, <1>5, SMT DEF CloseNothing
<1>6. CASE Submit \/ RetryClose
  BY <1>3, <1>6, SMT DEF Submit, RetryClose
<1>7. CASE Confirm
  <2>1. CASE \E n : Confirmed(n)
    BY <2>1, SMT DEF Confirmed, CloseConfirmed, OpenConfirmed
  <2> QED
    BY <1>3, <1>7, <2>1, Zenon DEF Confirm
<1>8. CASE MakerQuote
  BY <1>3, <1>8, SMT DEF MakerQuote
<1>9. CASE MakerWait \/ MakerCancel \/ MakerVerify
  BY <1>3, <1>9, SMT DEF MakerWait, MakerCancel, MakerVerify
<1>10. CASE Sweep
  BY <1>3, <1>10, SMT DEF Sweep
<1>11. CASE ReadPrices \/ CheckOrders \/ PullOrders \/ FlattenVar \/ FlattenDust
  <2>1. pc \in {"price", "orders", "pull", "flatten", "dust"}
    BY <1>11, Zenon DEF ReadPrices, CheckOrders, PullOrders, FlattenVar, FlattenDust, At
  <2> QED
    BY <1>11, <2>1, SMT DEF ReadPrices, CheckOrders, PullOrders, FlattenVar, FlattenDust
<1> QED
  BY <1>4, <1>5, <1>6, <1>7, <1>8, <1>9, <1>10, <1>11, Zenon DEF ExecStep

\* A read of either venue shows the position there is.
LEMMA VarRead ==
    ASSUME Truthful, NEW r \in ReadsBoth
    PROVE  r["var"] = pos["var"] /\ r["lit"] = pos["lit"]
BY LitRead, SMT DEF ReadsBoth, Reads, Venue

\* What a step of an open starts from.
LEMMA OpenRuns ==
    ASSUME ExecInv, HedgeInv, WholeInv, call = "open", ~pieces, pc # "idle"
    PROVE  /\ res = "none" /\ legs = NoLegs /\ flight["var"]["reduce"] = 0
           /\ leg \in Venue /\ (pc \in {"base", "submit"} => leg = "var")
           /\ pos["var"] \in Nat /\ base["var"] \in Nat /\ got["var"] \in Nat
           /\ flight["var"]["open"] \in Nat
BY SMT DEF WholeInv, OwnOutcome, VarWhole, HedgeInv, LegOf, ExecInv, ExecTypeOK, VenueTypeOK, Venue, Kind

\* The baseline of an open is the position its order is sent at.
LEMMA BaselineKeepsWhole ==
    ASSUME Truthful, ExecInv, HedgeInv, WholeInv, OwnOutcome', call = "open", ~pieces,
           UNCHANGED pieces, Baseline
    PROVE  WholeInv'
<1>1. /\ pc = "base" /\ legs' = legs /\ pos' = pos /\ flight' = flight
  BY Zenon DEF Baseline, At, ledgerVars, venueVars
<1>2. /\ res = "none" /\ leg = "var" /\ flight["var"]["reduce"] = 0 /\ flight["var"]["open"] = 0
      /\ pos["var"] \in Nat
  BY <1>1, OpenRuns, SMT DEF WholeInv, VarWhole
<1>3. CASE Raise
  BY <1>1, <1>3, RaiseKeepsWhole, SMT
<1>4. CASE ~Raise
  <2>1. PICK r \in ReadsBoth : base' = r
    BY <1>4, Zenon DEF Baseline
  <2>2. pc' = "submit" /\ UNCHANGED <<call, leg, got, res>>
    BY <1>4, SMT DEF Baseline
  <2>3. base'["var"] = pos["var"]
    BY <2>1, VarRead, Zenon
  <2>4. GainedVar' = 0
    BY <1>1, <1>2, <2>3, SMT DEF GainedVar
  <2>5. VarWhole'
    BY <1>1, <1>2, <2>2, <2>4, SMT DEF VarWhole
  <2>6. LitWhole' /\ CloseWhole'
    BY <1>2, <2>2, SMT DEF LitWhole, CloseWhole
  <2> QED
    BY <2>5, <2>6, Zenon DEF WholeInv
<1> QED
  BY <1>3, <1>4

\* The RFQ goes out with nothing else of the open on the venue.
LEMMA SubmitKeepsWhole ==
    ASSUME Truthful, ExecInv, HedgeInv, WholeInv, OwnOutcome', call = "open", ~pieces,
           UNCHANGED pieces, Submit
    PROVE  WholeInv'
<1>1. pc = "submit" /\ legs' = legs
  BY Zenon DEF Submit, At, ledgerVars
<1>2. /\ res = "none" /\ leg = "var" /\ flight["var"]["reduce"] = 0 /\ GainedVar = 0
  BY <1>1, OpenRuns, SMT DEF WholeInv, VarWhole
<1>3. CASE Raise /\ UNCHANGED venueVars
  BY <1>1, <1>3, RaiseKeepsWhole, SMT DEF venueVars
<1>4. CASE Accept("var", "open", Q) /\ Goto("confirm")
  <2>1. pc' = "confirm" /\ UNCHANGED <<call, leg, base, got, res>>
    BY <1>4, Zenon DEF Goto
  <2>2. pos' = pos /\ flight' = [flight EXCEPT !["var"]["open"] = @ + Q]
    BY <1>4, Zenon DEF Accept
  <2>3. flight'["var"]["reduce"] = 0
    BY <1>2, <2>2, SMT DEF ExecInv, VenueTypeOK, Venue, Kind
  <2>4. GainedVar' = 0
    BY <1>2, <2>1, <2>2, Zenon DEF GainedVar
  <2>5. GainedVar' >= 0
    BY <2>4, SMT
  <2>6. VarWhole'
    BY <1>2, <2>1, <2>3, <2>4, <2>5, SMT DEF VarWhole
  <2>7. LitWhole' /\ CloseWhole'
    BY <1>2, <2>1, SMT DEF LitWhole, CloseWhole
  <2> QED
    BY <2>6, <2>7, Zenon DEF WholeInv
<1> QED
  BY <1>2, <1>3, <1>4, SMT DEF Submit, Refuse, Truthful, Side, Target

\* What an open confirms of a leg is what it has gained there, or nothing.
LEMMA OpenConfirms ==
    ASSUME Truthful, ExecInv, HedgeInv, WholeInv, call = "open", ~pieces, Confirm, ~Raise
    PROVE  \E n \in Nat :
             /\ got' = [got EXCEPT ![leg] = n] /\ OpenConfirmed(n)
             /\ leg = "var" => n = GainedVar
             /\ leg = "lit" => n = 0 \/ n = Gained
<1>1. PICK r \in Reads(leg) :
        LET d == Delta(leg, r) IN
            IF SeenFill(d) THEN Confirmed(d) ELSE Confirmed(AtDeadline(d))
  BY Zenon DEF Confirm
<1>2. leg \in Venue /\ pc = "confirm"
  BY Zenon DEF ExecInv, ExecTypeOK, Confirm, At
<1>3. r = pos[leg]
  BY <1>2, LitRead, SMT DEF Reads, Venue
<1>4. /\ pos["var"] \in Nat /\ base["var"] \in Nat /\ pos["lit"] \in Nat /\ base["lit"] \in Nat
  BY OpenQuantities, SMT DEF ExecInv, VenueTypeOK, ExecTypeOK, Venue
<1>5. PICK d \in Int, g \in Int, h \in Int :
        d = Delta(leg, r) /\ g = GainedVar /\ h = Gained
  <2>1. GainedVar \in Int /\ Gained \in Int
    BY <1>4, SMT DEF GainedVar, Gained
  <2>2. Delta(leg, r) \in Int
    BY <1>2, <1>3, <1>4, SMT DEF Delta, Venue
  <2> QED
    BY <2>1, <2>2, Zenon
<1>6. (leg = "var" => d = g) /\ (leg = "lit" => d = h)
  <2>1. leg = "var" => Delta(leg, r) = GainedVar
    BY <1>3, Zenon DEF Delta, GainedVar
  <2>2. leg = "lit" => Delta(leg, r) = Gained
    BY <1>3, Zenon DEF Delta, Gained
  <2> QED
    BY <1>5, <2>1, <2>2, Zenon
<1>7. g >= 0 \/ leg # "var"
  BY <1>2, <1>5, Zenon DEF WholeInv, VarWhole
<1>8. h >= 0
  BY <1>2, <1>5, Zenon DEF HedgeInv, Hedging
<1>9. d >= 0
  BY <1>2, <1>6, <1>7, <1>8, SMT DEF Venue
<1>10. AtDeadline(d) \in {0, d} /\ (leg = "var" => AtDeadline(d) = d)
  BY <1>9, SMT DEF AtDeadline, AtLeastHalf, Abs, StepOf
<1>11. PICK n \in {0, d} : Confirmed(n) /\ (leg = "var" => n = d)
  BY <1>1, <1>5, <1>10, Zenon
<1>12. n \in Nat
  BY <1>9, <1>11, SMT
<1> QED
  BY <1>5, <1>6, <1>11, <1>12, Zenon DEF Confirmed

\* A confirmed RFQ has filled, and there is nothing left of it.
LEMMA ConfirmVarKeepsWhole ==
    ASSUME Truthful, ExecInv, HedgeInv, WholeInv, OwnOutcome', call = "open", ~pieces,
           UNCHANGED pieces, Confirm, leg = "var"
    PROVE  WholeInv'
<1>1. pc = "confirm" /\ legs' = legs /\ pos' = pos /\ flight' = flight
  BY Zenon DEF Confirm, At, ledgerVars, venueVars
<1>2. /\ res = "none" /\ flight["var"]["reduce"] = 0
      /\ GainedVar = 0 \/ flight["var"]["open"] = 0
  BY <1>1, OpenRuns, SMT DEF WholeInv, VarWhole
<1>3. CASE Raise
  BY <1>1, <1>3, RaiseKeepsWhole, SMT
<1>4. CASE ~Raise
  <2>1. PICK n \in Nat : got' = [got EXCEPT !["var"] = n] /\ OpenConfirmed(n) /\ n = GainedVar
    BY <1>4, OpenConfirms, Zenon
  <2>2. UNCHANGED <<call, base>>
    BY <2>1, Zenon DEF OpenConfirmed
  <2>3. CASE n = 0
    <3>1. pc' = "idle" /\ res' = "error"
      BY <2>1, <2>3, Zenon DEF OpenConfirmed
    <3> QED
      BY <1>1, <2>2, <3>1, ReturnKeepsWhole, Zenon
  <2>4. CASE n # 0
    <3>1. /\ res' = res
          /\ \/ pc' = "dust" /\ leg' = "var"
             \/ pc' \in {"maker", "sweep"} /\ leg' = "lit"
      BY <2>1, <2>4, Zenon DEF OpenConfirmed
    <3>2. flight'["var"]["open"] = 0 /\ flight'["var"]["reduce"] = 0
      BY <1>1, <1>2, <2>1, <2>4, Zenon
    <3>3. got'["var"] = n
      BY <2>1, SMT DEF ExecInv, ExecTypeOK, Venue
    <3>4. GainedVar' = got'["var"]
      BY <1>1, <2>1, <2>2, <3>3, Zenon DEF GainedVar
    <3>5. VarWhole'
      BY <1>2, <3>1, <3>2, <3>4, SMT DEF VarWhole
    <3>6. LitWhole' /\ CloseWhole'
      BY <1>2, <2>2, <3>1, SMT DEF LitWhole, CloseWhole
    <3> QED
      BY <3>5, <3>6, Zenon DEF WholeInv
  <2> QED
    BY <2>3, <2>4
<1> QED
  BY <1>3, <1>4

\* A Lighter leg confirmed while its taker is in flight is a lot short.
LEMMA ConfirmLitKeepsWhole ==
    ASSUME Truthful, ExecInv, HedgeInv, WholeInv, OwnOutcome', call = "open", ~pieces,
           UNCHANGED pieces, Confirm, leg = "lit"
    PROVE  WholeInv'
<1>1. pc = "confirm" /\ legs' = legs /\ pos' = pos /\ flight' = flight /\ rest' = rest
  BY Zenon DEF Confirm, At, ledgerVars, venueVars
<1>2. res = "none" /\ Resting = 0 /\ (InFlight = 0 \/ InFlight >= LotStep)
  BY <1>1, OpenRuns, SMT DEF WholeInv, LitWhole
<1>3. CASE Raise
  BY <1>1, <1>3, RaiseKeepsWhole, SMT
<1>4. CASE ~Raise
  <2>1. PICK n \in Nat : got' = [got EXCEPT !["lit"] = n] /\ OpenConfirmed(n) /\ (n = 0 \/ n = Gained)
    BY <1>4, OpenConfirms, Zenon
  <2>2. UNCHANGED <<call, base>>
    BY <2>1, Zenon DEF OpenConfirmed
  <2>3. /\ leg' = leg /\ res' = res
        /\ pc' = "pull" \/ (pc' = "price" /\ n = Gained)
    BY <2>1, Zenon DEF OpenConfirmed
  <2>4. got'["var"] = got["var"] /\ got'["lit"] = n
    BY <2>1, SMT DEF ExecInv, ExecTypeOK, Venue
  <2>5. InFlight' = InFlight /\ Resting' = 0 /\ Gained' = Gained
    BY <1>1, <1>2, <2>2, Zenon DEF InFlight, Resting, Gained
  <2>6. ASSUME n = Gained
        PROVE  (InFlight = 0 /\ Gained = n) \/ n + LotStep <= Lots(got["var"])
    <3>1. PICK l \in Nat, f \in Nat : l = Lots(got["var"]) /\ f = InFlight
      BY OpenQuantities, Zenon
    <3>2. n + f + 0 <= l
      BY <1>1, <1>2, <2>6, <3>1, Zenon DEF HedgeInv, Hedging
    <3>3. f = 0 \/ n + LotStep <= l
      BY <1>2, <3>1, <3>2, VenueAssumption, SMT
    <3> QED
      BY <2>6, <3>1, <3>3, Zenon
  <2>7. pc' = "price" =>
           Resting' = 0 /\ ((InFlight' = 0 /\ Gained' = got'["lit"])
                               \/ got'["lit"] + LotStep <= Lots(got["var"]))
    BY <2>3, <2>4, <2>5, <2>6, Zenon
  <2>8. /\ pc' \notin {"idle", "base", "submit", "confirm", "orders"} /\ res' # "filled"
        /\ pos'["var"] = pos["var"] /\ flight'["var"] = flight["var"] /\ pc # "idle"
    BY <1>1, <1>2, <2>3, SMT
  <2> QED
    BY <1>1, <2>2, <2>3, <2>4, <2>7, <2>8, GoingOnKeepsWhole, Zenon
<1> QED
  BY <1>3, <1>4

\* The passive loop works on Lighter only, and confirms nothing.
LEMMA MakerKeepsWhole ==
    ASSUME Truthful, ExecInv, HedgeInv, WholeInv, OwnOutcome', call = "open", ~pieces,
           UNCHANGED pieces, MakerQuote \/ MakerWait \/ MakerCancel \/ MakerVerify
    PROVE  WholeInv'
<1>1. pc \in {"maker", "wait", "cancel", "verify"} /\ UNCHANGED <<armed, maker, legs>>
  BY Zenon DEF MakerQuote, MakerWait, MakerCancel, MakerVerify, At, ledgerVars
<1>2. leg = "lit" /\ res = "none"
  BY <1>1, AtMaker, OpenRuns, SMT
<1>3. pos' = pos /\ flight' = flight
  BY Zenon DEF MakerQuote, MakerWait, MakerCancel, MakerVerify, venueVars, Rest, CancelAll
<1>4. CASE Raise
  BY <1>1, <1>3, <1>4, RaiseKeepsWhole, SMT
<1>5. CASE ~Raise
  <2>1. pc' \in {"sweep", "wait", "maker", "cancel", "verify"} /\ UNCHANGED <<call, leg, base, got, res>>
    <3>1. CASE MakerQuote
      <4>1. Goto("sweep") \/ Goto("wait") \/ UNCHANGED <<call, pc, leg, base, got, retried, calm, res>>
        BY <1>5, <3>1, Zenon DEF MakerQuote
      <4> QED
        BY <1>1, <4>1, SMT DEF Goto
    <3>2. CASE MakerWait \/ MakerCancel \/ MakerVerify
      BY <1>5, <3>2, SMT DEF MakerWait, MakerCancel, MakerVerify, Goto
    <3> QED
      BY <3>1, <3>2
  <2>2. /\ pc' \notin {"idle", "base", "submit", "confirm", "price", "orders"}
        /\ res' # "filled" /\ pc # "idle" /\ got'["var"] = got["var"]
        /\ pos'["var"] = pos["var"] /\ flight'["var"] = flight["var"]
    BY <1>1, <1>2, <1>3, <2>1, SMT
  <2> QED
    BY <1>1, <1>2, <2>1, <2>2, GoingOnKeepsWhole, Zenon
<1> QED
  BY <1>4, <1>5

\* Rounding down to a step leaves nothing or a whole step.
LEMMA WholeSteps ==
    ASSUME NEW n \in Int, NEW s \in Nat \ {0}, QuantizeDown(n, s) > 0
    PROVE  QuantizeDown(n, s) >= s
<1>1. n % s \in 0 .. s - 1 /\ n \div s \in Int
  BY SMT
<1>2. n = s * (n \div s) + (n % s)
  BY SMT
<1>3. PICK k \in Int : k = n \div s
  BY <1>1, Zenon
<1>4. QuantizeDown(n, s) = s * k
  BY <1>1, <1>2, <1>3, SMT DEF QuantizeDown
<1>5. k >= 1
  BY <1>3, <1>4, SMT
<1>6. s * k >= s
  BY <1>5, SMT
<1> QED
  BY <1>4, <1>6, SMT

\* The taker is for whole lots.
LEMMA SweepKeepsWhole ==
    ASSUME Truthful, ExecInv, HedgeInv, WholeInv, OwnOutcome', call = "open", ~pieces,
           UNCHANGED pieces, Sweep
    PROVE  WholeInv'
<1>1. /\ pc = "sweep" /\ legs' = legs /\ leg = "lit" /\ InFlight = 0 /\ Resting = 0
  BY AtMaker, Zenon DEF Sweep, At, ledgerVars
<1>2. res = "none"
  BY <1>1, OpenRuns, SMT
<1>3. CASE Raise /\ UNCHANGED venueVars
  BY <1>1, <1>3, RaiseKeepsWhole, SMT DEF venueVars
<1>4. ASSUME Goto("confirm"), Resting' = 0, InFlight' = 0 \/ InFlight' >= LotStep,
             pos' = pos, flight'["var"] = flight["var"]
      PROVE  WholeInv'
  <2>1. pc' = "confirm" /\ UNCHANGED <<call, leg, base, got, res>>
    BY <1>4, Zenon DEF Goto
  <2>2. /\ pc' \notin {"idle", "base", "submit", "price", "orders"}
        /\ res' # "filled" /\ pc # "idle"
    BY <1>1, <1>2, <2>1, SMT
  <2> QED
    BY <1>1, <1>4, <2>1, <2>2, GoingOnKeepsWhole, Zenon
<1>5. CASE Goto("confirm") /\ UNCHANGED venueVars
  <2>1. Resting' = 0 /\ InFlight' = 0
    BY <1>1, <1>5, Zenon DEF venueVars, Resting, InFlight
  <2> QED
    BY <1>4, <1>5, <2>1, Zenon DEF venueVars
<1>6. ASSUME NEW r \in Reads("lit"), NEW n, n = QuantizeDown(Remaining(r), StepOf("lit")),
             n > 0, Accept("lit", Side, n), Goto("confirm")
      PROVE  WholeInv'
  <2>1. r \in Nat
    BY ReadsNat, Zenon DEF ExecInv, Venue
  <2>2. Remaining(r) \in Int /\ StepOf("lit") = LotStep
    BY <2>1, RemainingInt, Zenon DEF ExecInv, StepOf
  <2>3. n \in Int /\ n >= LotStep
    BY <1>6, <2>2, QuantizeDownInt, WholeSteps, VenueAssumption, Zenon
  <2>4. pos' = pos /\ rest' = rest /\ flight' = [flight EXCEPT !["lit"]["open"] = @ + n]
    BY <1>6, Zenon DEF Accept, Side
  <2>5. flight'["lit"]["open"] = flight["lit"]["open"] + n /\ flight'["var"] = flight["var"]
    BY <2>4, SMT DEF ExecInv, VenueTypeOK, Venue, Kind
  <2>6. InFlight' >= LotStep
    BY <1>1, <2>3, <2>5, SMT DEF InFlight
  <2>7. Resting' = 0
    BY <1>1, <2>4, Zenon DEF Resting
  <2> QED
    BY <1>4, <1>6, <2>4, <2>5, <2>6, <2>7, Zenon
<1> QED
  BY <1>3, <1>5, <1>6, Zenon DEF Sweep, Refuse, Truthful

\* The imbalance guard lets an open go on only if its Lighter leg is whole.
LEMMA ReadPricesKeepsWhole ==
    ASSUME ExecInv, HedgeInv, WholeInv, OwnOutcome', call = "open", ~pieces,
           UNCHANGED pieces, ReadPrices
    PROVE  WholeInv'
<1>1. pc = "price" /\ legs' = legs /\ UNCHANGED <<pos, flight, rest>>
  BY Zenon DEF ReadPrices, At, ledgerVars, venueVars
<1>2. CASE Return("error") \/ Return("naked")
  BY <1>1, <1>2, ReturnKeepsWhole, SMT DEF Return
<1>3. CASE WithinHalfLot(got["var"] - got["lit"]) /\ Goto("orders")
  <2>1. res = "none" /\ leg = "lit"
    BY <1>1, OpenRuns, SMT DEF WholeInv, VarWhole
  <2>2. Resting = 0
    BY <1>1, Zenon DEF WholeInv, LitWhole
  <2>3. InFlight = 0 /\ Gained = got["lit"]
    <3>1. got["var"] \in Nat /\ got["lit"] \in Nat
      BY SMT DEF ExecInv, ExecTypeOK, Venue
    <3>2. PICK l \in Nat : l = Lots(got["var"]) /\ l <= got["var"]
      BY <3>1, VenueAssumption, QuantizeDownNat, Zenon DEF Lots
    <3>3. ~(got["lit"] + LotStep <= l)
      BY <1>3, <3>1, <3>2, VenueAssumption, SMT DEF WithinHalfLot, Abs
    <3> QED
      BY <1>1, <3>2, <3>3, Zenon DEF WholeInv, LitWhole
  <2>4. pc' = "orders" /\ UNCHANGED <<call, leg, base, got, res>>
    BY <1>3, Zenon DEF Goto
  <2>5. /\ Resting' = 0 /\ InFlight' = 0 /\ Gained' = got'["lit"]
        /\ WithinHalfLot(got["var"] - got["lit"])'
    BY <1>1, <1>3, <2>2, <2>3, <2>4, Zenon DEF Resting, InFlight, Gained, WithinHalfLot, Abs
  <2>6. /\ pc' \notin {"idle", "base", "submit", "confirm", "price"} /\ pc # "idle"
        /\ pos'["var"] = pos["var"] /\ flight'["var"] = flight["var"] /\ got'["var"] = got["var"]
    BY <1>1, <2>4, SMT
  <2> QED
    BY <1>1, <2>1, <2>4, <2>5, <2>6, GoingOnKeepsWhole, Zenon
<1> QED
  BY <1>2, <1>3, Zenon DEF ReadPrices

\* An open that returns the legs has nothing left to fill.
LEMMA CheckOrdersKeepsWhole ==
    ASSUME ExecInv, HedgeInv, WholeInv, OwnOutcome', call = "open", ~pieces,
           UNCHANGED pieces, CheckOrders
    PROVE  WholeInv'
<1>1. pc = "orders" /\ legs' = legs /\ UNCHANGED <<pos, flight, rest>>
  BY Zenon DEF CheckOrders, At, ledgerVars, venueVars
<1>2. CASE Return("naked")
  BY <1>1, <1>2, ReturnKeepsWhole, SMT DEF Return
<1>3. CASE Return("filled")
  <2>1. leg = "lit"
    BY <1>1, Zenon DEF WholeInv, VarWhole
  <2>2. Resting = 0 /\ InFlight = 0 /\ Gained = got["lit"] /\ WithinHalfLot(got["var"] - got["lit"])
    BY <1>1, Zenon DEF WholeInv, LitWhole
  <2>3. pc' = "idle" /\ res' = "filled" /\ UNCHANGED <<call, leg, base, got>>
    BY <1>3, Zenon DEF Return
  <2>4. /\ Resting' = 0 /\ InFlight' = 0 /\ Gained' = got'["lit"]
        /\ WithinHalfLot(got["var"] - got["lit"])'
    BY <1>1, <2>2, <2>3, Zenon DEF Resting, InFlight, Gained, WithinHalfLot, Abs
  <2>5. /\ pc' \notin {"confirm", "price"} /\ pc # "idle"
        /\ pos'["var"] = pos["var"] /\ flight'["var"] = flight["var"] /\ got'["var"] = got["var"]
    BY <1>1, <2>3, SMT
  <2> QED
    BY <1>1, <2>1, <2>3, <2>4, <2>5, GoingOnKeepsWhole, Zenon
<1> QED
  BY <1>2, <1>3, Zenon DEF CheckOrders

\* Unwinding an open ends without the legs.
LEMMA UnwindKeepsWhole ==
    ASSUME ExecInv, HedgeInv, WholeInv, OwnOutcome', call = "open", ~pieces,
           UNCHANGED pieces, PullOrders \/ FlattenVar \/ FlattenDust
    PROVE  WholeInv'
<1>1. pc # "idle" /\ legs' = legs
  BY SMT DEF PullOrders, FlattenVar, FlattenDust, At, ledgerVars
<1>2. CASE PullOrders
  <2>1. /\ res = "none" /\ flight["var"]["reduce"] = 0
        /\ leg = "lit" => flight["var"]["open"] = 0 /\ GainedVar = got["var"]
    BY <1>1, OpenRuns, SMT DEF WholeInv, VarWhole
  <2>2. pc' = "flatten" /\ UNCHANGED <<call, leg, base, got, res, pos, flight>>
    BY <1>2, Zenon DEF PullOrders, Goto, CancelAll
  <2>3. GainedVar' = GainedVar
    BY <2>2, Zenon DEF GainedVar
  <2>4. VarWhole'
    BY <2>1, <2>2, <2>3, SMT DEF VarWhole
  <2>5. LitWhole' /\ CloseWhole'
    BY <2>1, <2>2, SMT DEF LitWhole, CloseWhole
  <2> QED
    BY <2>4, <2>5, Zenon DEF WholeInv
<1>3. CASE FlattenVar \/ FlattenDust
  <2>1. Return("naked") \/ Return("error")
    BY <1>3, Zenon DEF FlattenVar, FlattenDust
  <2> QED
    BY <1>1, <2>1, ReturnKeepsWhole, SMT DEF Return
<1> QED
  BY <1>2, <1>3

-----------------------------------------------------------------------------
\* A close orders reductions only, and moves no position itself.
LEMMA CloseOrders ==
    ASSUME ExecInv, OwnOutcome, call = "close", ExecStep
    PROVE  /\ pos' = pos /\ legs' = legs
           /\ \A v \in Venue : flight'[v]["open"] = flight[v]["open"]
           /\ rest'["open"] \in {rest["open"], 0}
<1>1. /\ flight \in [Venue -> [Kind -> Nat]] /\ rest \in [Kind -> Nat]
      /\ "open" \in Kind /\ "reduce" \in Kind
  BY SMT DEF ExecInv, VenueTypeOK, Kind
<1>2. Side = "reduce"
  BY SMT DEF Side
<1> DEFINE Kept == /\ pos' = pos
                   /\ \A v \in Venue : flight'[v]["open"] = flight[v]["open"]
                   /\ rest'["open"] \in {rest["open"], 0}
<1>3. ASSUME NEW v \in Venue, NEW n, Accept(v, "reduce", n) PROVE Kept
  BY <1>1, <1>3, SMT DEF Accept
<1>4. ASSUME NEW n, Rest(n) PROVE Kept
  BY <1>1, <1>2, <1>4, SMT DEF Rest
<1>5. ASSUME CancelAll PROVE Kept
  BY <1>1, <1>5, SMT DEF CancelAll, NoOrders
<1>6. ASSUME UNCHANGED venueVars PROVE Kept
  BY <1>6, SMT DEF venueVars
<1> HIDE DEF Kept
<1>7. leg \in Venue /\ "lit" \in Venue /\ "var" \in Venue
  BY SMT DEF ExecInv, ExecTypeOK, Venue
<1>8. Kept
  <2>1. CASE Baseline \/ CloseNothing \/ Confirm \/ MakerWait \/ MakerVerify \/ ReadPrices \/ CheckOrders
    BY <1>6, <2>1, Zenon DEF Baseline, CloseNothing, Confirm, MakerWait,
       MakerVerify, ReadPrices, CheckOrders
  <2>2. CASE Submit \/ RetryClose \/ Sweep \/ FlattenVar \/ FlattenDust
    BY <1>2, <1>3, <1>6, <1>7, <2>2, Zenon DEF Submit, RetryClose, Sweep, FlattenVar, FlattenDust, Refuse
  <2>3. CASE MakerQuote \/ MakerCancel \/ PullOrders
    BY <1>4, <1>5, <1>6, <2>3, Zenon DEF MakerQuote, MakerCancel, PullOrders
  <2> QED
    BY <2>1, <2>2, <2>3, Zenon DEF ExecStep
<1>9. legs' = legs
  BY Zenon DEF ExecStep, Baseline, CloseNothing, Submit, Confirm, RetryClose, MakerQuote, MakerWait,
       MakerCancel, MakerVerify, Sweep, ReadPrices, CheckOrders, PullOrders, FlattenVar, FlattenDust,
       At, ledgerVars
<1> QED
  BY <1>8, <1>9, Zenon DEF Kept

\* What a step of a close keeps when it stays with the leg it is at.
LEMMA StayingKeepsWhole ==
    ASSUME ExecInv, WholeInv, OwnOutcome', call = "close", ~pieces, UNCHANGED pieces, ExecStep,
           call' = "close", UNCHANGED <<leg, base>>, pc \notin {"idle", "base"}, res' # "closed"
    PROVE  WholeInv'
<1>1. /\ pos' = pos /\ legs' = legs
      /\ \A v \in Venue : flight'[v]["open"] = flight[v]["open"]
      /\ rest'["open"] \in {rest["open"], 0}
  BY CloseOrders, Zenon DEF WholeInv
<1>2. VarWhole' /\ LitWhole'
  BY SMT DEF VarWhole, LitWhole
<1>3. CloseWhole'
  BY <1>1, Zenon DEF WholeInv, CloseWhole
<1> QED
  BY <1>2, <1>3, Zenon DEF WholeInv

\* A leg is closed against the position read before its orders.
LEMMA BaselineClosesWhole ==
    ASSUME Truthful, ExecInv, WholeInv, OwnOutcome', call = "close", ~pieces, UNCHANGED pieces, Baseline
    PROVE  WholeInv'
<1>1. UNCHANGED <<pos, flight, rest, legs, call, leg>>
  BY SMT DEF Baseline, At, ledgerVars, venueVars, Raise, Return
<1>2. VarWhole' /\ LitWhole'
  BY <1>1, SMT DEF VarWhole, LitWhole
<1>3. leg \in Venue /\ base \in [Venue -> Nat] /\ pos \in [Venue -> Nat]
  BY Zenon DEF ExecInv, ExecTypeOK, VenueTypeOK
<1>4. res = "none"
  BY SMT DEF WholeInv, OwnOutcome, Baseline, At
<1>5. CASE Raise
  <2>1. pc' = "idle" /\ base' = base /\ res' = "raised"
    BY <1>5, SMT DEF Raise, Return
  <2> QED
    BY <1>1, <1>2, <2>1, SMT DEF WholeInv, CloseWhole
<1>6. CASE ~Raise
  <2>1. PICK r \in ReadsBoth : base' = [base EXCEPT ![leg] = r[leg]]
    BY <1>6, SMT DEF Baseline
  <2>2. res' = res
    BY <1>6, Zenon DEF Baseline
  <2>3. r[leg] = pos[leg]
    BY <1>3, <2>1, VarRead, Zenon DEF Venue
  <2>4. base'[leg] = pos[leg] /\ pos[leg] <= base'[leg]
    BY <1>3, <2>1, <2>3, SMT
  <2>5. leg = "lit" => base'["var"] = base["var"]
    BY <1>3, <2>1, SMT
  <2>6. ASSUME legs # NoLegs PROVE CloseWhole'
    <3>1. /\ \A v \in Venue : flight[v]["open"] = 0
          /\ rest["open"] = 0
          /\ leg = "lit" => pos["var"] <= base["var"] - legs["var"]
      BY <2>6, Zenon DEF WholeInv, CloseWhole
    <3>2. leg = "lit" => pos["var"] <= base'["var"] - legs["var"]
      BY <2>5, <3>1, Zenon
    <3>3. res' # "closed"
      BY <1>4, <2>2, Zenon
    <3> QED
      BY <1>1, <2>4, <3>1, <3>2, <3>3, Zenon DEF CloseWhole
  <2>7. legs = NoLegs => CloseWhole'
    BY <1>1, Zenon DEF CloseWhole
  <2> QED
    BY <1>2, <2>6, <2>7, Zenon DEF WholeInv
<1> QED
  BY <1>5, <1>6

\* A leg that is confirmed is off its venue by as much.
LEMMA ConfirmClosesWhole ==
    ASSUME Truthful, ExecInv, WholeInv, OwnOutcome', call = "close", ~pieces, UNCHANGED pieces, Confirm,
           legs # NoLegs
    PROVE  WholeInv'
<1>1. /\ pc = "confirm" /\ res = "none" /\ UNCHANGED <<pos, flight, rest, legs>> /\ ExecStep
  BY SMT DEF Confirm, At, ledgerVars, venueVars, WholeInv, OwnOutcome, ExecStep
<1>2. /\ \A v \in Venue : flight[v]["open"] = 0
      /\ rest["open"] = 0
      /\ pos[leg] <= base[leg]
      /\ leg = "lit" => pos["var"] <= base["var"] - legs["var"]
  BY <1>1, Zenon DEF WholeInv, CloseWhole
<1>3. leg \in Venue /\ base[leg] \in Nat /\ pos[leg] \in Nat /\ legs[leg] \in Nat
  BY SMT DEF ExecInv, ExecTypeOK, VenueTypeOK
<1>4. CASE Raise
  <2>1. call' = "close" /\ UNCHANGED <<leg, base>> /\ res' = "raised"
    BY <1>4, SMT DEF Raise, Return
  <2> QED
    BY <1>1, <2>1, StayingKeepsWhole, SMT
<1>5. CASE ~Raise
  <2>1. PICK r \in Reads(leg) :
          LET d == Delta(leg, r) IN
            IF SeenFill(d) THEN Confirmed(d) ELSE Confirmed(AtDeadline(d))
    BY <1>5, Zenon DEF Confirm
  <2>2. r = pos[leg]
    BY <1>3, <2>1, LitRead, SMT DEF Reads, Venue
  <2>3. PICK d \in Nat : d = Delta(leg, r) /\ d = base[leg] - pos[leg]
    <3>1. Delta(leg, r) = base[leg] - pos[leg] /\ base[leg] - pos[leg] \in Nat
      BY <1>2, <1>3, <2>2, SMT DEF Delta
    <3> QED
      BY <3>1, Zenon
  <2>4. AtDeadline(d) = d
    BY SMT DEF AtDeadline, AtLeastHalf, Abs, StepOf
  <2>5. CloseConfirmed(d) /\ UNCHANGED <<call, base>>
    <3>1. Confirmed(d)
      BY <2>1, <2>3, <2>4, Zenon
    <3> QED
      BY <3>1, Zenon DEF Confirmed, CloseConfirmed
  <2>6. CASE d < legs[leg]
    <3>1. UNCHANGED leg /\ res' # "closed"
      BY <1>1, <2>5, <2>6, Zenon DEF CloseConfirmed
    <3> QED
      BY <1>1, <2>5, <3>1, StayingKeepsWhole, SMT
  <2>7. CASE ~(d < legs[leg])
    <3>1. pos[leg] <= base[leg] - legs[leg]
      BY <1>3, <2>3, <2>7, SMT
    <3>2. CASE leg = "var"
      <4>1. pc' = "base" /\ leg' = "lit" /\ res' # "closed"
        BY <1>1, <2>5, <2>7, <3>2, Zenon DEF CloseConfirmed
      <4>2. CloseWhole'
        BY <1>1, <1>2, <2>5, <3>1, <3>2, <4>1, Zenon DEF CloseWhole
      <4> QED
        BY <2>5, <4>2, SMT DEF WholeInv, VarWhole, LitWhole
    <3>3. CASE leg = "lit"
      <4>1. pc' = "idle" /\ leg' = "lit"
        BY <2>5, <2>7, <3>3, SMT DEF CloseConfirmed
      <4>2. CloseWhole'
        BY <1>1, <1>2, <2>5, <3>1, <3>3, <4>1, Zenon DEF CloseWhole
      <4> QED
        BY <2>5, <4>2, SMT DEF WholeInv, VarWhole, LitWhole
    <3> QED
      BY <1>3, <3>2, <3>3, Zenon DEF Venue
  <2> QED
    BY <2>6, <2>7
<1> QED
  BY <1>4, <1>5

LEMMA CloseKeepsWhole ==
    ASSUME Truthful, ExecInv, WholeInv, OwnOutcome', call = "close", ~pieces, UNCHANGED pieces, ExecStep
    PROVE  WholeInv'
<1>1. legs' = legs /\ call' = "close"
  <2>1. legs' = legs
    BY CloseOrders, Zenon DEF WholeInv
  <2>2. call' = "close"
    <3>1. CASE Raise
      BY <3>1, SMT DEF Raise, Return
    <3>2. CASE \E n : Confirmed(n)
      BY <3>2, SMT DEF Confirmed, CloseConfirmed
    <3>3. CASE Submit \/ RetryClose \/ Sweep \/ FlattenVar \/ FlattenDust
      BY <3>1, <3>3, SMT DEF Submit, RetryClose, Sweep, FlattenVar, FlattenDust, Goto, Return
    <3>4. CASE MakerQuote \/ MakerWait \/ MakerCancel \/ MakerVerify \/ PullOrders \/ ReadPrices \/ CheckOrders
      BY <3>1, <3>4, SMT DEF MakerQuote, MakerWait, MakerCancel, MakerVerify, PullOrders, ReadPrices, CheckOrders, Goto, Return
    <3>5. CASE Baseline \/ CloseNothing
      BY <3>1, <3>5, SMT DEF Baseline, CloseNothing, Return
    <3>6. CASE Confirm
      BY <3>1, <3>2, <3>6, Zenon DEF Confirm
    <3> QED
      BY <3>3, <3>4, <3>5, <3>6, Zenon DEF ExecStep
  <2> QED
    BY <2>1, <2>2
<1>2. CASE legs = NoLegs
  BY <1>1, <1>2, SMT DEF WholeInv, VarWhole, LitWhole, CloseWhole
<1>3. CASE legs # NoLegs
  <2>1. ~CloseNothing
    BY <1>3, Zenon DEF CloseNothing
  <2>2. CASE Baseline
    BY <2>2, BaselineClosesWhole
  <2>3. CASE Confirm
    BY <1>3, <2>3, ConfirmClosesWhole
  <2>4. pc # "idle" /\ res = "none" /\ pc \notin {"price", "orders", "pull", "flatten", "dust"}
    BY SMT DEF WholeInv, OwnOutcome, ExecStep, Baseline, CloseNothing, Submit, Confirm, RetryClose,
       MakerQuote, MakerWait, MakerCancel, MakerVerify, Sweep, ReadPrices, CheckOrders, PullOrders,
       FlattenVar, FlattenDust, At
  <2>5. CASE Submit \/ RetryClose \/ MakerQuote \/ MakerWait \/ MakerCancel \/ MakerVerify \/ Sweep
    <3>1. pc # "base"
      BY <2>5, SMT DEF Submit, RetryClose, MakerQuote, MakerWait, MakerCancel, MakerVerify, Sweep, At
    <3>2. UNCHANGED <<leg, base>> /\ res' # "closed"
      <4>1. CASE Raise
        BY <4>1, SMT DEF Raise, Return
      <4>2. CASE ~Raise
        <5>1. UNCHANGED <<leg, base, res>>
          BY <2>5, <4>2, SMT DEF Submit, RetryClose, MakerQuote, MakerWait, MakerCancel, MakerVerify, Sweep, Goto
        <5> QED
          BY <2>4, <5>1, SMT
      <4> QED
        BY <4>1, <4>2
    <3> QED
      BY <1>1, <2>4, <3>1, <3>2, StayingKeepsWhole, SMT
  <2>6. ~(ReadPrices \/ CheckOrders \/ PullOrders \/ FlattenVar \/ FlattenDust)
    BY <2>4, Zenon DEF ReadPrices, CheckOrders, PullOrders, FlattenVar, FlattenDust, At
  <2> QED
    BY <2>1, <2>2, <2>3, <2>5, <2>6, Zenon DEF ExecStep
<1> QED
  BY <1>2, <1>3

-----------------------------------------------------------------------------
\* A call starts from an outcome of the one before.
LEMMA CallsKeepWhole ==
    ASSUME ExecInv, HedgeInv, WholeInv, OpenHedge \/ CloseHedge \/ CloseLegless
    PROVE  WholeInv'
<1>1. pc = "idle" /\ UNCHANGED <<pos, flight, rest, pieces>>
  BY Zenon DEF OpenHedge, CloseHedge, CloseLegless, venueVars
<1>2. \E c \in {"open", "close"}, passive \in BOOLEAN : Called(c, passive)
  BY Zenon DEF OpenHedge, CloseHedge, CloseLegless
<1>3. pc' = "base" /\ leg' = "var" /\ res' = "none"
  BY <1>2, Zenon DEF Called
<1>4. call = "open" /\ legs = NoLegs
  <2>1. res \in {"none", "filled"}
    BY Zenon DEF OpenHedge, CloseHedge, CloseLegless
  <2>2. call \in {"open", "close"}
    BY Zenon DEF ExecInv, ExecTypeOK
  <2>3. call # "close"
    BY <1>1, <2>1, SMT DEF HedgeInv, OnceOnly, WholeInv, OwnOutcome
  <2> QED
    BY <2>2, <2>3, Zenon DEF WholeInv, OwnOutcome
<1>5. CASE OpenHedge
  <2>1. call' = "open" /\ legs' = legs /\ res = "none"
    BY <1>5, Zenon DEF OpenHedge, Called, ledgerVars
  <2>2. ~pieces => flight["var"]["reduce"] = 0 /\ flight["var"]["open"] = 0
    BY <1>1, <1>4, <2>1, SMT DEF WholeInv, VarWhole
  <2> QED
    BY <1>1, <1>3, <1>4, <2>1, <2>2, SMT DEF WholeInv, OwnOutcome, VarWhole, LitWhole, CloseWhole
<1>6. CASE CloseLegless
  <2>1. call' = "close" /\ legs' = legs
    BY <1>6, Zenon DEF CloseLegless, Called, ledgerVars
  <2> QED
    BY <1>3, <1>4, <2>1, SMT DEF WholeInv, OwnOutcome, VarWhole, LitWhole, CloseWhole
<1>7. CASE CloseHedge
  <2>1. call' = "close" /\ res = "filled"
    BY <1>7, Zenon DEF CloseHedge, Called
  <2>2. ~pieces => flight["var"]["open"] = 0 /\ flight["lit"]["open"] = 0 /\ rest["open"] = 0
    BY <1>4, <2>1, SMT DEF WholeInv, VarWhole, LitWhole, InFlight, Resting
  <2> QED
    BY <1>1, <1>3, <2>1, <2>2, SMT DEF WholeInv, OwnOutcome, VarWhole, LitWhole, CloseWhole, Venue
<1> QED
  BY <1>5, <1>6, <1>7

\* A step of the executor whose round has had a taker in pieces keeps only
\* that its call ends with an outcome of its own.
LEMMA StepKeepsWhole ==
    ASSUME Truthful, RoundInv, HedgeInv, WholeInv, [Next]_vars
    PROVE  WholeInv'
<1>1. ExecInv
  BY Zenon DEF RoundInv
<1>2. CASE OpenHedge \/ CloseHedge \/ CloseLegless
  BY <1>1, <1>2, CallsKeepWhole
<1>3. CASE Executor
  <2>1. ExecStep /\ UNCHANGED pieces
    BY <1>3, Zenon DEF Executor
  <2>2. OwnOutcome'
    BY <1>1, <2>1, OwnOutcomeKept, Zenon DEF WholeInv
  <2>3. CASE pieces
    BY <2>1, <2>2, <2>3, Zenon DEF WholeInv, VarWhole, LitWhole, CloseWhole
  <2>4. CASE ~pieces /\ call = "close"
    BY <1>1, <2>1, <2>2, <2>4, CloseKeepsWhole, Zenon
  <2>5. CASE ~pieces /\ call = "open"
    <3>1. ~CloseNothing /\ ~RetryClose
      BY <1>1, <2>5, SMT DEF CloseNothing, RetryClose, At, ExecInv, ExecShape
    <3>2. leg \in {"var", "lit"}
      BY <1>1, Zenon DEF ExecInv, ExecTypeOK, Venue
    <3> QED
      BY <1>1, <2>1, <2>2, <2>5, <3>1, <3>2, BaselineKeepsWhole, SubmitKeepsWhole,
         ConfirmVarKeepsWhole, ConfirmLitKeepsWhole, MakerKeepsWhole, SweepKeepsWhole,
         ReadPricesKeepsWhole, CheckOrdersKeepsWhole, UnwindKeepsWhole, Zenon DEF ExecStep
  <2> QED
    BY <1>1, <2>3, <2>4, <2>5, Zenon DEF ExecInv, ExecTypeOK
<1>4. CASE Venues
  BY <1>1, <1>4, VenuesKeepWhole
<1>5. CASE UNCHANGED vars
  <2>1. UNCHANGED <<pos, flight, rest, call, pc, leg, base, got, res, legs, pieces>>
    BY <1>5, Zenon DEF vars, venueVars, execVars, ledgerVars
  <2>2. /\ InFlight' = InFlight /\ Resting' = Resting /\ Gained' = Gained /\ GainedVar' = GainedVar
        /\ Lots(got["var"])' = Lots(got["var"])
        /\ WithinHalfLot(got["var"] - got["lit"])' <=> WithinHalfLot(got["var"] - got["lit"])
    BY <2>1, Zenon DEF InFlight, Resting, Gained, GainedVar, Lots, QuantizeDown, WithinHalfLot, Abs
  <2>3. OwnOutcome' /\ VarWhole' /\ CloseWhole'
    BY <2>1, <2>2, Zenon DEF WholeInv, OwnOutcome, VarWhole, CloseWhole
  <2>4. LitWhole'
    BY <2>1, <2>2, Zenon DEF WholeInv, LitWhole
  <2> QED
    BY <2>3, <2>4, Zenon DEF WholeInv
<1> QED
  BY <1>2, <1>3, <1>4, <1>5, Zenon DEF Next

LEMMA StartsWhole == Init => WholeInv
<1> SUFFICES ASSUME Init PROVE WholeInv
  OBVIOUS
<1>1. call = "open" /\ pc = "idle" /\ res = "none" /\ leg = "var" /\ legs = NoLegs
  BY Zenon DEF Init, ExecInit
<1>2. flight = [v \in Venue |-> NoOrders]
  BY Zenon DEF Init, VenueInit
<1>3. flight["var"]["open"] = 0 /\ flight["var"]["reduce"] = 0
  BY <1>2, SMT DEF NoOrders, Venue, Kind
<1> QED
  BY <1>1, <1>3, SMT DEF WholeInv, OwnOutcome, VarWhole, LitWhole, CloseWhole

\* The invariant of a round whose takers fill whole.
LEMMA WholeHolds == Truthful => (Spec => [](RoundInv /\ HedgeInv /\ WholeInv))
<1> SUFFICES ASSUME Truthful PROVE Spec => [](RoundInv /\ HedgeInv /\ WholeInv)
  OBVIOUS
<1>1. Init => RoundInv /\ HedgeInv /\ WholeInv
  BY RoundStartsTyped, StartsHedge, StartsWhole, Zenon
<1>2. RoundInv /\ HedgeInv /\ WholeInv /\ [Next]_vars => (RoundInv /\ HedgeInv /\ WholeInv)'
  BY RoundTypes, StepKeepsHedge, StepKeepsWhole, Zenon
<1> QED
  BY <1>1, <1>2, PTL DEF Spec

\* An open that returns the legs it filled has really added to each venue what
\* it says, matched within half a lot, with nothing of it left to fill: as long
\* as the venues tell the truth and no taker of the round fills in pieces.
THEOREM FilledIsHedged == Truthful => (Spec => []FilledMeansHedged)
<1> SUFFICES ASSUME Truthful PROVE Spec => []FilledMeansHedged
  OBVIOUS
<1>1. RoundInv /\ HedgeInv /\ WholeInv => FilledMeansHedged
  <2> SUFFICES ASSUME RoundInv, HedgeInv, WholeInv, call = "open", res = "filled", ~pieces
               PROVE  /\ WithinHalfLot((pos["var"] - base["var"]) - (pos["lit"] - base["lit"]))
                      /\ \A v \in Venue : flight[v]["open"] = 0
                      /\ rest["open"] = 0
    BY Zenon DEF FilledMeansHedged
  <2>1. flight["var"]["open"] = 0 /\ GainedVar = got["var"]
    BY Zenon DEF WholeInv, VarWhole
  <2>2. Resting = 0 /\ InFlight = 0 /\ Gained = got["lit"] /\ WithinHalfLot(got["var"] - got["lit"])
    BY Zenon DEF WholeInv, LitWhole
  <2> QED
    BY <2>1, <2>2, Zenon DEF GainedVar, Gained, InFlight, Resting, Venue
<1> QED
  BY <1>1, WholeHolds, PTL

\* A close that returns has taken at least the whole of each leg it was given
\* off its venue, whatever its orders went through, under the same provisos.
THEOREM ClosedIsReduced == Truthful => (Spec => []ClosedMeansReduced)
<1> SUFFICES ASSUME Truthful PROVE Spec => []ClosedMeansReduced
  OBVIOUS
<1>1. RoundInv /\ HedgeInv /\ WholeInv => ClosedMeansReduced
  <2> SUFFICES ASSUME RoundInv, HedgeInv, WholeInv, call = "close", res = "closed", ~pieces,
                      NEW v \in Venue, legs[v] > 0
               PROVE  pos[v] <= base[v] - legs[v]
    BY Zenon DEF ClosedMeansReduced
  <2>1. legs # NoLegs
    BY SMT DEF NoLegs, Flat
  <2>2. /\ pos["var"] <= base["var"] - legs["var"]
        /\ pos["lit"] <= base["lit"] - legs["lit"]
    BY <2>1, Zenon DEF WholeInv, CloseWhole
  <2> QED
    BY <2>2, Zenon DEF Venue
<1> QED
  BY <1>1, WholeHolds, PTL
=============================================================================
