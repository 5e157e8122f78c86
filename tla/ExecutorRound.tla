---------------------------- MODULE ExecutorRound ----------------------------
(***************************************************************************)
(* One live round of the executor on its own: open_hedge called once and,  *)
(* if it returns, close_hedge on the legs it reported, while the venues    *)
(* fill, drop and delay orders.  The engine's part in between (saving the  *)
(* legs, choosing when and how urgently to leave) is reduced to the two    *)
(* calls; HedgeEngine has all of it.                                       *)
(***************************************************************************)
EXTENDS LiveExecutor

VARIABLE pieces   \* history: an RFQ or IOC of this round has filled in part

vars == <<venueVars, execVars, ledgerVars, pieces>>

\* _preopen_flat_or_halt lets through whatever is within half a lot of flat.
Dust == {n \in 0 .. LotStep : WithinHalfLot(n)}

Init ==
    /\ VenueInit \/ /\ pos \in [Venue -> Dust]
                    /\ flight = [v \in Venue |-> NoOrders]
                    /\ rest = NoOrders
    /\ ExecInit
    /\ armed = FALSE
    /\ maker \in BOOLEAN
    /\ legs = NoLegs
    /\ pieces = FALSE

\* _do_entry's call.
OpenHedge ==
    /\ pc = "idle" /\ res = "none"
    /\ Called("open", FALSE)
    /\ UNCHANGED <<venueVars, ledgerVars, pieces>>

\* confirm_hold keeps the legs, _close_and_finish closes them.
CloseHedge ==
    /\ pc = "idle" /\ res = "filled"
    /\ \E passive \in BOOLEAN : Called("close", passive)
    /\ legs' = got
    /\ UNCHANGED <<venueVars, armed, maker, pieces>>

\* A restarted engine leaves a round whose legs were never written (a crash
\* between the first two writes of confirm_hold).
CloseLegless ==
    /\ pc = "idle" /\ res = "none"
    /\ \E passive \in BOOLEAN : Called("close", passive)
    /\ UNCHANGED <<venueVars, ledgerVars, pieces>>

\* The venues act between two steps of the executor.
Venues ==
    /\ VenueStep
    /\ pieces' = (pieces \/ \E v \in Venue, k \in Kind : flight'[v][k] \in 1 .. flight[v][k] - 1)
    /\ UNCHANGED <<execVars, ledgerVars>>

Executor == ExecStep /\ UNCHANGED pieces

Next == OpenHedge \/ CloseHedge \/ CloseLegless \/ Executor \/ Venues

\* The engine's thread runs on: every wait of the executor has a deadline.
Spec == Init /\ [][Next]_vars /\ WF_vars(Executor)

TypeOK == VenueTypeOK /\ ExecTypeOK /\ pieces \in BOOLEAN

-----------------------------------------------------------------------------
\* Every call comes back: no poll, re-quote loop or retry runs for ever,
\* whatever the venues accept, drop, delay or answer.
CallReturns == pc # "idle" ~> pc = "idle"

\* The passive leg never doubles the hedge: what an open has got on Lighter,
\* has in flight there and has resting there stays within the lots of the
\* Variational fill it hedges.  This is what cancelling with proof before
\* each re-quote and before the taker sweep is for (MakerCancelError).
NoDoubleHedge ==
    call = "open" /\ pc \notin {"idle", "base"} =>
        pos["lit"] - base["lit"] + flight["lit"]["open"] + rest["open"]
            <= Lots(got["var"])

\* An open that reports both legs filled has hedged at the venues, not only in
\* what it confirmed: what the round added to either venue matches within half
\* a lot, and nothing of the open is left to fill later.  This is as long as no
\* taker fills in part: _confirm_delta returns at the first fill it sees, and
\* what the order fills after that is not in what the open reports.
FilledMeansHedged ==
    call = "open" /\ res = "filled" /\ ~pieces =>
        /\ WithinHalfLot((pos["var"] - base["var"]) - (pos["lit"] - base["lit"]))
        /\ \A v \in Venue : flight[v]["open"] = 0
        /\ rest["open"] = 0

\* A close that returns has really taken the whole of each leg of the ledger
\* off its venue; an acknowledged order that filled less is an exception
\* (ExitNotFlatError), never a booked round.  As long as no taker of the round
\* filled in part, as above: the rest of an open may fill during its close.
ClosedMeansReduced ==
    call = "close" /\ res = "closed" /\ ~pieces =>
        \A v \in Venue : legs[v] > 0 => pos[v] <= base[v] - legs[v]

\* The docstring of live_executor.py: any timeout or mismatch of an entry
\* flattens whatever filled and raises NakedLegError.  So an open that saw a
\* fill and raises anything else leaves nothing of itself on a venue that a
\* flatten under way does not take off.
FailedOpenLeavesNothing ==
    call = "open" /\ res = "error" /\ got["var"] > 0 =>
        \A v \in Venue : pos[v] - base[v] <= flight[v]["reduce"]

\* ExitNotFlatError: only a position that returned to flat is a real close.
\* So a close does not go on from a leg, nor return, that has not shrunk; but
\* at its deadline _confirm_delta hands back a delta of either sign, of which
\* close_hedge takes the absolute value.
ConfirmedIsReduced ==
    [][ call = "close" /\ pc = "confirm" /\ legs[leg] > 0
        /\ (pc' = "base" \/ res' = "closed") => pos[leg] < base[leg] ]_vars
=============================================================================
