------------------------------- MODULE Venues -------------------------------
(***************************************************************************)
(* The two venues of the hedge as the executor sees them: Variational      *)
(* ("var", an RFQ venue, illiquid) and RHC Lighter ("lit", an order book). *)
(* Neither is code of this repository; the module is read off the way      *)
(* live_executor.py, engine.py and the two gateways use them.              *)
(*                                                                         *)
(* Quantities are counted in Variational size units (0.0001) and in the    *)
(* direction of the hedge, so an opening order adds to a position and a    *)
(* reduce-only order takes from it, down to zero.  LotStep is the size     *)
(* step of the Lighter market in the same unit.                            *)
(*                                                                         *)
(* Faults names what the venues may do beyond refusing a call:             *)
(*   "partial"    an accepted order may fill in several pieces;            *)
(*   "late"       an order may outlive the confirmation window, or a       *)
(*                restart of the bot;                                      *)
(*   "ambiguous"  a submission may raise although the venue accepted it;   *)
(*   "blind"      Lighter may answer a read of the account or of the       *)
(*                resting orders without them, which its readers take for  *)
(*                a flat position and no orders (module VenueCalls).       *)
(***************************************************************************)
EXTENDS Integers

CONSTANTS LotStep,  \* Lighter size step, in Variational units
          Faults    \* the venue faults of this instance

ASSUME VenueAssumption ==
    /\ LotStep \in Nat \ {0}
    /\ Faults \subseteq {"partial", "late", "ambiguous", "blind"}

VARIABLES pos,     \* pos[v]: position held at v
          flight,  \* flight[v][k]: accepted, unfilled RFQ / IOC quantity
          rest     \* rest[k]: post-only quantity resting on the Lighter book

venueVars == <<pos, flight, rest>>

Venue == {"var", "lit"}
Kind == {"open", "reduce"}

NoOrders == [k \in Kind |-> 0]
Flat == [v \in Venue |-> 0]

VenueTypeOK ==
    /\ pos \in [Venue -> Nat]
    /\ flight \in [Venue -> [Kind -> Nat]]
    /\ rest \in [Kind -> Nat]

VenueInit ==
    /\ pos = Flat
    /\ flight = [v \in Venue |-> NoOrders]
    /\ rest = NoOrders

(***************************************************************************)
(* What the venue does on its own.                                         *)
(***************************************************************************)
\* Reduce-only quantity never takes a position through zero.
Fillable(v, k, n) == IF k = "reduce" /\ pos[v] < n THEN pos[v] ELSE n

Moved(v, k, n) ==
    pos' = [pos EXCEPT ![v] = IF k = "open" THEN @ + n ELSE @ - n]

\* An accepted RFQ or IOC fills, whole unless the venue fills in pieces.
Fill(v, k) ==
    /\ \E n \in 1 .. Fillable(v, k, flight[v][k]) :
        /\ "partial" \in Faults \/ n = Fillable(v, k, flight[v][k])
        /\ Moved(v, k, n)
        /\ flight' = [flight EXCEPT ![v][k] =
                         IF "partial" \in Faults THEN @ - n ELSE 0]
    /\ UNCHANGED rest

\* It is rejected, or its unfilled remainder is cancelled.
Drop(v, k) ==
    /\ flight[v][k] > 0
    /\ flight' = [flight EXCEPT ![v][k] = 0]
    /\ UNCHANGED <<pos, rest>>

\* A resting post-only order is hit; resting orders do fill in pieces.
FillResting(k) ==
    /\ \E n \in 1 .. Fillable("lit", k, rest[k]) :
        /\ Moved("lit", k, n)
        /\ rest' = [rest EXCEPT ![k] = @ - n]
    /\ UNCHANGED flight

VenueStep ==
    \/ \E v \in Venue, k \in Kind : Fill(v, k) \/ Drop(v, k)
    \/ \E k \in Kind : FillResting(k)

(***************************************************************************)
(* What a call to a venue does.                                            *)
(***************************************************************************)
Settled(v) == flight[v] = NoOrders

\* The values a position read of v may return (it may also raise).
Reads(v) == {pos[v]} \cup (IF v = "lit" /\ "blind" \in Faults THEN {0} ELSE {})
ReadsBoth == {r \in [Venue -> {pos["var"], pos["lit"], 0}] :
                 \A v \in Venue : r[v] \in Reads(v)}

\* What lets a query of the resting orders show none (it may also raise).
ShowsNoOrders == rest = NoOrders \/ "blind" \in Faults

\* Submissions of a taker order: acknowledged, refused, or refused to the
\* caller's eyes only.
Accept(v, k, n) ==
    /\ flight' = [flight EXCEPT ![v][k] = @ + n]
    /\ UNCHANGED <<pos, rest>>
Refuse(v, k, n) ==
    \/ UNCHANGED venueVars
    \/ "ambiguous" \in Faults /\ Accept(v, k, n)

\* cancel_all: every resting order of the market is pulled, or the call fails.
CancelAll ==
    /\ rest' \in {rest, NoOrders}
    /\ UNCHANGED <<pos, flight>>
=============================================================================
