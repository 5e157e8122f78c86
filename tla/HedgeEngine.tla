----------------------------- MODULE HedgeEngine -----------------------------
(***************************************************************************)
(* engine.py and state_machine.py: the process that runs one hedge round   *)
(* after another, with the file it recovers from.                          *)
(*                                                                         *)
(* One action is what the engine does between two exchanges with a venue   *)
(* or two writes of state.json, whichever come first, so at the end of an  *)
(* action the file and the memory hold the same round and a crash between  *)
(* two actions loses only the volatile variables (memVars).  While epc is  *)
(* "opening" or "closing" the live executor is the one that runs.          *)
(*                                                                         *)
(* "live" is live_trading with both gateways built (gw) and the write      *)
(* guard down (~armed).  A round's mode and shadow flag are the file's.    *)
(***************************************************************************)
EXTENDS LiveExecutor

CONSTANTS IdleEvery,    \* idle_reconcile_every_ticks
          FailStreak,   \* reconcile_fail_streak
          MaxRounds,    \* bound: rounds a behaviour opens
          MaxRestarts   \* bound: times the process goes down

ASSUME EngineAssumption ==
    /\ IdleEvery \in Nat \ {0}
    /\ FailStreak \in Nat \ {0}
    /\ MaxRounds \in Nat
    /\ MaxRestarts \in Nat

VARIABLES mode,      \* state.json: mode
          shadow,    \* state.json: the round's shadow flag
          halt,      \* state.json: a HALT is latched
          breach,    \* today's booked loss has reached max_daily_loss_usdt
          round,     \* state.json: round_id
          booked,    \* shadow_rounds.jsonl: the round_id of each line
          epc,       \* where the engine is, "down" when it does not run
          ret,       \* where it goes on after an exit
          gw,        \* this process has built the live gateways
          idle,      \* idle ticks since the last flat check
          streak,    \* consecutive reconcile failures while holding
          restarts   \* times the process went down (bounded)

fileVars == <<mode, shadow, halt, breach, round, booked>>
memVars == <<gw, idle, streak>>
engineVars == <<fileVars, memVars, epc, ret, restarts>>
vars == <<venueVars, execVars, ledgerVars, engineVars>>

Mode == {"IDLE", "ENTERING", "HOLDING", "EXITING", "COOLDOWN"}
Active == {"ENTERING", "HOLDING", "EXITING"}

Epcs == {"down", "arm", "startup", "probe", "proven", "tick", "recover",
         "fetch", "idle", "entry", "gate", "opening", "shadowfill",
         "confirm2", "confirm3", "orders", "hold", "closing",
         "closed", "finish2", "finish3", "aborted",
         "recovered", "ddhalt"}
Returns == {"tick", "fetch", "ddhalt"}

EngineTypeOK ==
    /\ mode \in Mode
    /\ shadow \in BOOLEAN
    /\ halt \in BOOLEAN
    /\ breach \in BOOLEAN
    /\ round \in 0 .. MaxRounds
    /\ booked \in [0 .. MaxRounds -> Nat]
    /\ epc \in Epcs
    /\ ret \in Returns
    /\ gw \in BOOLEAN
    /\ idle \in 0 .. IdleEvery - 1
    /\ streak \in 0 .. FailStreak
    /\ restarts \in 0 .. MaxRestarts

TypeOK == VenueTypeOK /\ ExecTypeOK /\ EngineTypeOK

\* A first start: empty_state, an empty ledger, flat venues.
Init ==
    /\ VenueInit
    /\ ExecInit
    /\ armed = TRUE
    /\ maker = FALSE
    /\ legs = NoLegs
    /\ mode = "IDLE"
    /\ shadow = TRUE
    /\ halt = FALSE
    /\ breach = FALSE
    /\ round = 0
    /\ booked = [i \in 0 .. MaxRounds |-> 0]
    /\ epc = "down"
    /\ ret = "tick"
    /\ gw = FALSE
    /\ idle = 0
    /\ streak = 0
    /\ restarts = 0

(***************************************************************************)
(* Shorthands.  Each step says what it changes of the round (mode, shadow, *)
(* halt, legs); the frames below say that the rest stays.                  *)
(***************************************************************************)
In(p) == epc = p
To(p) == epc' = p /\ UNCHANGED <<ret, restarts>>

NoExec == UNCHANGED execVars
NoVenue == UNCHANGED venueVars
NoCall == NoExec /\ NoVenue
SameProcess == UNCHANGED <<armed, maker, gw>>
SameRound == UNCHANGED <<mode, shadow, legs, round>>
SameBook == UNCHANGED <<breach, booked>>
SameCounts == UNCHANGED <<idle, streak>>
SameFile == SameRound /\ SameBook /\ UNCHANGED halt

\* set_halt: latches, and keeps an earlier latch.
SetHalt == halt' = TRUE
Latch(p) == SetHalt /\ SameRound /\ SameBook /\ To(p)

FlatRead(r) == \A v \in Venue : WithinHalfLot(r[v])
BooksFlat == \A v \in Venue : pos[v] <= LotStep \div 2
MatchesLedger(r) == \A v \in Venue : WithinHalfLot(r[v] - legs[v])
Live == gw /\ ~armed

(***************************************************************************)
(* The process: start, arming, the maker preflight.                        *)
(***************************************************************************)
\* Orders of the last process have settled before a new one reads, unless
\* the venue is late.
Quiet == "late" \in Faults \/ \A v \in Venue : Settled(v)

\* Engine.__init__ on the file, with the write guard up.  The configuration
\* may have changed while it was down: live trading on or off, the maker leg,
\* the daily loss limit.
Start ==
    /\ In("down") /\ Quiet
    /\ gw' \in BOOLEAN
    /\ maker' \in BOOLEAN
    /\ breach' \in {breach, TRUE}
    /\ armed' = TRUE
    /\ idle' = 0
    /\ streak' = 0
    /\ To("arm")
    /\ NoCall
    /\ SameRound
    /\ UNCHANGED <<halt, booked>>

\* preflight's book_flat row.
BookFlat(r) ==
    \/ FlatRead(r)
    \/ ~shadow /\ mode \in {"HOLDING", "EXITING"} /\ legs # NoLegs /\ MatchesLedger(r)

\* _maybe_arm_live: the operator's token and every gate, or stay armed.
Arm ==
    /\ In("arm")
    /\ \/ UNCHANGED armed
       \/ gw /\ (\E r \in ReadsBoth : BookFlat(r)) /\ armed' = FALSE
    /\ To("startup")
    /\ NoCall /\ SameFile /\ SameCounts /\ UNCHANGED <<maker, gw>>

\* halt_if_unmanageable_live_round, after which a live process with a maker
\* leg probes the venue; a HALT latched earlier does not keep it from that.
Unmanageable == armed /\ mode \in Active /\ ~shadow /\ ~halt

\* Mutant: before review16, no startup halt.
ResumeHalfManaged ==
    /\ In("startup")
    /\ SameFile
    /\ To(IF Live /\ maker THEN "probe" ELSE "tick")
    /\ NoCall /\ SameProcess /\ SameCounts

StartupHalt ==
    /\ In("startup")
    /\ IF Unmanageable THEN Latch("tick")
       ELSE /\ SameFile
            /\ To(IF Live /\ maker THEN "probe" ELSE "tick")
    /\ NoCall /\ SameProcess /\ SameCounts

\* maker_cancel_selfcheck rests one post-only order well below the touch,
MakerProbe ==
    /\ In("probe")
    /\ \/ /\ rest' = [rest EXCEPT !["open"] = @ + LotStep]
          /\ base' = [base EXCEPT !["lit"] = pos["lit"]]
          /\ To("proven")
          /\ UNCHANGED <<pos, flight, maker>>
       \/ /\ CancelAll
          /\ maker' = FALSE
          /\ To("tick")
          /\ UNCHANGED base
    /\ UNCHANGED <<call, pc, leg, got, quotes, retried, calm, res, armed, gw>>
    /\ SameFile /\ SameCounts

\* cancels it, and trusts the maker leg only if the book is proven empty and
\* the position has not moved; otherwise this process takes.
MakerProven ==
    /\ In("proven")
    /\ CancelAll
    /\ \/ maker' = FALSE
       \/ ShowsNoOrders' /\ WithinHalfLot(pos["lit"] - base["lit"]) /\ UNCHANGED maker
    /\ To("tick")
    /\ Forget /\ SameFile /\ SameCounts /\ UNCHANGED <<armed, gw>>

\* The process dies or is stopped, anywhere.
Down ==
    /\ ~In("down") /\ restarts < MaxRestarts
    /\ epc' = "down"
    /\ restarts' = restarts + 1
    /\ Forget /\ UNCHANGED ret
    /\ NoVenue /\ SameFile /\ SameProcess /\ SameCounts

(***************************************************************************)
(* Booking a round: finish_exit, one step per write.                       *)
(***************************************************************************)
\* Mutant: the mode is left to the last write, which forgets it.
BookBeforeMode ==
    /\ epc' = "finish2"
    /\ UNCHANGED <<mode, shadow, legs, round, halt, restarts>>
    /\ SameBook

\* First the mode; the round stays in the file until the last write.
FinishExit ==
    /\ mode' = "COOLDOWN"
    /\ epc' = "finish2"
    /\ UNCHANGED <<shadow, legs, round, halt, restarts>>
    /\ SameBook

\* The append to shadow_rounds.jsonl may fail; it is best effort.
FinishLedger ==
    /\ In("finish2")
    /\ \/ booked' = [booked EXCEPT ![round] = @ + 1]
       \/ UNCHANGED booked
    /\ To("finish3")
    /\ NoCall /\ SameRound /\ SameProcess /\ SameCounts
    /\ UNCHANGED <<breach, halt>>

\* The last write clears the round and adds its result to the day's.
FinishSave ==
    /\ In("finish3")
    /\ legs' = NoLegs
    /\ breach' \in BOOLEAN
    /\ To(ret)
    /\ NoCall /\ SameProcess /\ SameCounts
    /\ UNCHANGED <<mode, shadow, round, halt, booked>>

(***************************************************************************)
(* Leaving a round.                                                        *)
(***************************************************************************)
\* _close_and_finish, from EXITING: held back while a price is missing; a
\* shadow round is closed on paper, a live one by the executor.
CloseAndFinish(passive, then) ==
    /\ \/ epc' = then /\ NoExec
       \/ shadow /\ epc' = "closed" /\ NoExec
       \/ ~shadow /\ Called("close", passive) /\ epc' = "closing"
    /\ ret' = then
    /\ UNCHANGED restarts

\* _do_exit: a live round whose guard is up is halted where it stands.
DoExit(passive, then) ==
    /\ UNCHANGED <<shadow, legs, round>>
    /\ SameBook
    /\ IF ~shadow /\ armed
       THEN SetHalt /\ To(then) /\ NoExec /\ UNCHANGED mode
       ELSE CloseAndFinish(passive, then) /\ mode' = "EXITING" /\ UNCHANGED halt

\* The paper close is priced; book it.
ShadowClosed ==
    /\ In("closed")
    /\ FinishExit
    /\ NoCall /\ SameProcess /\ SameCounts /\ UNCHANGED ret

\* Mutant: the round is booked on the acknowledgement.
BookAnyClose ==
    /\ In("closing") /\ pc = "idle"
    /\ FinishExit /\ UNCHANGED ret
    /\ Forget /\ NoVenue /\ SameProcess /\ SameCounts

\* Mutant: the engine gives up on a close that takes long, and latches.
GiveUpOnClose ==
    /\ In("closing")
    /\ IF res = "closed" THEN FinishExit /\ UNCHANGED ret ELSE Latch(ret)
    /\ Forget /\ NoVenue /\ SameProcess /\ SameCounts

\* close_hedge came back: book the round, or latch on whatever it raised.
LiveClosed ==
    /\ In("closing") /\ pc = "idle"
    /\ IF res = "closed" THEN FinishExit /\ UNCHANGED ret ELSE Latch(ret)
    /\ Forget /\ NoVenue /\ SameProcess /\ SameCounts

(***************************************************************************)
(* One tick: recovery, market data, and what the mode calls for.           *)
(***************************************************************************)
\* Mutant: only entries are recovered; a deferred exit is not made again.
RecoverEntries ==
    /\ In("tick") /\ Quiet
    /\ To(IF ~halt /\ mode = "ENTERING" THEN "recover" ELSE "fetch")
    /\ NoCall /\ SameFile /\ SameProcess /\ SameCounts

\* Ticks are poll_interval_seconds apart, longer than an order takes to
\* settle or expire on a venue that is not late.
TickBegin ==
    /\ In("tick") /\ Quiet
    /\ To(IF ~halt /\ mode \in {"ENTERING", "EXITING"} THEN "recover" ELSE "fetch")
    /\ NoCall /\ SameFile /\ SameProcess /\ SameCounts

\* abort_entry and rollback_entry_to_cooldown: first the mode,
LeaveEntry(m, p) ==
    /\ mode' = m
    /\ To(p)
    /\ UNCHANGED <<shadow, legs, round, halt>>
    /\ SameBook

\* then what may be left of an earlier round's legs.
ClearLegs ==
    /\ \/ In("aborted") /\ To("tick")
       \/ In("recovered") /\ To("fetch")
    /\ legs' = NoLegs
    /\ NoCall /\ SameBook /\ SameProcess /\ SameCounts
    /\ UNCHANGED <<mode, shadow, round, halt>>

\* _recover of a shadow round: on the model alone.
RecoverShadow ==
    /\ In("recover") /\ shadow
    /\ IF mode = "ENTERING"
       THEN LeaveEntry("IDLE", "recovered") /\ NoExec
       ELSE CloseAndFinish(FALSE, "fetch") /\ SameFile
    /\ NoVenue /\ SameProcess /\ SameCounts

\* _recover of a live round that cannot be read, or that left a position it
\* may not touch.
RecoverHalt ==
    /\ In("recover") /\ ~shadow
    /\ Latch("fetch")
    /\ NoCall /\ SameProcess /\ SameCounts

\* Mutant: a flat exit is rolled back like a flat entry.
AbortExit ==
    /\ In("recover") /\ ~shadow /\ gw
    /\ \E r \in ReadsBoth : FlatRead(r)
    /\ LeaveEntry("IDLE", "recovered")
    /\ NoCall /\ SameProcess /\ SameCounts

\* It left nothing: the entry is rolled back, the exit booked at zero.
RecoverFlat ==
    /\ In("recover") /\ ~shadow /\ gw
    /\ \E r \in ReadsBoth : FlatRead(r)
    /\ IF mode = "ENTERING" THEN LeaveEntry("IDLE", "recovered")
                            ELSE FinishExit /\ ret' = "fetch"
    /\ NoCall /\ SameProcess /\ SameCounts

\* It is the round of the ledger, mid-exit, and it can be traded: resume.
RecoverResume ==
    /\ In("recover") /\ ~shadow /\ Live
    /\ mode = "EXITING" /\ legs # NoLegs
    /\ \E r \in ReadsBoth : ~FlatRead(r) /\ MatchesLedger(r)
    /\ CloseAndFinish(FALSE, "fetch")
    /\ NoVenue /\ SameFile /\ SameProcess /\ SameCounts

\* The snapshot fails, a HALT is latched, or the mode has to wait.
NoTrading ==
    /\ In("fetch")
    /\ To("tick")
    /\ NoCall /\ SameFile /\ SameProcess /\ SameCounts

\* The drawdown breaker: an open round is flattened, then HALT is latched.
Drawdown ==
    /\ In("fetch") /\ ~halt /\ breach
    /\ IF mode = "HOLDING" THEN DoExit(FALSE, "ddhalt")
                           ELSE Latch("tick") /\ NoExec
    /\ NoVenue /\ SameProcess /\ SameCounts

DrawdownHalt ==
    /\ In("ddhalt")
    /\ Latch("tick")
    /\ NoCall /\ SameProcess /\ SameCounts

\* Mutant: the latch is not looked at before trading.
IgnoreHalt ==
    /\ In("fetch") /\ ~breach
    /\ \/ mode = "COOLDOWN" /\ mode' = "IDLE" /\ To("idle")
       \/ mode = "IDLE" /\ To("idle") /\ UNCHANGED mode
       \/ mode = "HOLDING" /\ To("hold") /\ UNCHANGED mode
    /\ UNCHANGED <<shadow, legs, round, halt>>
    /\ SameBook /\ NoCall /\ SameProcess /\ SameCounts

\* Within the limit, by mode.  maybe_leave_cooldown, and the same tick goes
\* on from IDLE.
Decide ==
    /\ In("fetch") /\ ~halt /\ ~breach
    /\ \/ mode = "COOLDOWN" /\ mode' = "IDLE" /\ To("idle")
       \/ mode = "IDLE" /\ To("idle") /\ UNCHANGED mode
       \/ mode = "HOLDING" /\ To("hold") /\ UNCHANGED mode
    /\ UNCHANGED <<shadow, legs, round, halt>>
    /\ SameBook /\ NoCall /\ SameProcess /\ SameCounts

\* Mutant: the idle counter runs one past its period.
CountPast ==
    /\ In("idle")
    /\ idle' = IF gw THEN (idle + 1) % (IdleEvery + 1) ELSE idle
    /\ \/ /\ gw /\ idle' = 0
          /\ \E r \in ReadsBoth : ~FlatRead(r)
          /\ Latch("tick")
       \/ SameFile /\ To("entry")
    /\ NoCall /\ SameProcess /\ UNCHANGED streak

\* Mutant: the flat check is due when the count is IdleEvery, which it never is.
CheckNeverDue ==
    /\ In("idle")
    /\ idle' = IF gw THEN (idle + 1) % IdleEvery ELSE idle
    /\ \/ /\ gw /\ idle' = IdleEvery
          /\ \E r \in ReadsBoth : ~FlatRead(r)
          /\ Latch("tick")
       \/ SameFile /\ To("entry")
    /\ NoCall /\ SameProcess /\ UNCHANGED streak

(***************************************************************************)
(* Between rounds.                                                         *)
(***************************************************************************)
\* _idle_flat_check: on every IdleEvery-th idle tick of a process with
\* gateways, a residual halts; a read that fails is left for the next time.
IdleCheck ==
    /\ In("idle")
    /\ idle' = IF gw THEN (idle + 1) % IdleEvery ELSE idle
    /\ \/ /\ gw /\ idle' = 0
          /\ \E r \in ReadsBoth : ~FlatRead(r)
          /\ Latch("tick")
       \/ SameFile /\ To("entry")
    /\ NoCall /\ SameProcess /\ UNCHANGED streak

\* _do_entry: no signal or no size step; a shadow round, when live is off or
\* its gates refuse; or a live one, once the book is proven flat.
Entry ==
    /\ In("entry")
    /\ \/ To("tick") /\ UNCHANGED mode
       \/ round < MaxRounds /\ mode' = "ENTERING" /\ To("shadowfill")
       \/ round < MaxRounds /\ Live /\ To("gate") /\ UNCHANGED mode
    /\ UNCHANGED <<shadow, legs, round, halt>>
    /\ SameBook /\ NoCall /\ SameProcess /\ SameCounts

\* _preopen_flat_or_halt: unreadable or not flat halts; flat begins a live
\* entry.
GateHalt ==
    /\ In("gate")
    /\ Latch("tick")
    /\ NoCall /\ SameProcess /\ SameCounts

\* Mutant: before review23, no proof of flatness ahead of an open.
OpenUnproven ==
    /\ In("gate")
    /\ mode' = "ENTERING"
    /\ Called("open", FALSE)
    /\ To("opening")
    /\ UNCHANGED <<shadow, legs, round, halt>>
    /\ NoVenue /\ SameBook /\ SameProcess /\ SameCounts

GateOpen ==
    /\ In("gate")
    /\ \E r \in ReadsBoth : FlatRead(r)
    /\ mode' = "ENTERING"
    /\ Called("open", FALSE)
    /\ To("opening")
    /\ UNCHANGED <<shadow, legs, round, halt>>
    /\ NoVenue /\ SameBook /\ SameProcess /\ SameCounts

(***************************************************************************)
(* What an entry came to.                                                  *)
(***************************************************************************)
\* confirm_hold's first write, the mode.
Holding ==
    /\ mode' = "HOLDING"
    /\ To("confirm2")
    /\ UNCHANGED <<shadow, legs, round, halt>>
    /\ SameBook /\ NoCall /\ SameProcess /\ SameCounts

\* The paper round always fills.
ShadowFilled == In("shadowfill") /\ Holding

\* Both live legs filled; or an exception other than a naked leg rolls the
\* entry back to IDLE, unseen by HALT.
LiveFilled == In("opening") /\ pc = "idle" /\ res = "filled" /\ Holding

LiveFailed ==
    /\ In("opening") /\ pc = "idle" /\ res = "error"
    /\ LeaveEntry("IDLE", "aborted")
    /\ Forget /\ NoVenue /\ SameProcess /\ SameCounts

\* A naked leg: flat positions, then an empty book, make it a cooldown; two
\* reads, between which an order may still fill.
LiveNaked ==
    /\ In("opening") /\ pc = "idle" /\ res = "naked"
    /\ \/ Latch("tick")
       \/ (\E r \in ReadsBoth : FlatRead(r)) /\ To("orders") /\ SameFile
    /\ Forget /\ NoVenue /\ SameProcess /\ SameCounts

RollBack ==
    /\ In("orders")
    /\ \/ Latch("tick")
       \/ ShowsNoOrders /\ LeaveEntry("COOLDOWN", "aborted")
    /\ NoCall /\ SameProcess /\ SameCounts

\* confirm_hold's second write, the round and its legs.  The executor's
\* quantities for a live round, the model's for a paper one.
FilledLegs == IF res = "filled" THEN got
              ELSE [v \in Venue |-> IF v = "var" THEN Q ELSE Lots(Q)]

ConfirmLegs ==
    /\ In("confirm2")
    /\ round' = round + 1
    /\ legs' = FilledLegs
    /\ To("confirm3")
    /\ UNCHANGED <<mode, shadow, halt>>
    /\ SameBook /\ NoCall /\ SameProcess /\ SameCounts

\* Only the third write says whose round it is.
ConfirmShadow ==
    /\ In("confirm3")
    /\ shadow' = (res # "filled")
    /\ To("tick")
    /\ Forget
    /\ UNCHANGED <<mode, legs, round, halt>>
    /\ SameBook /\ NoVenue /\ SameProcess /\ SameCounts

(***************************************************************************)
(* Holding.                                                                *)
(***************************************************************************)
\* The round goes on (or is frozen by a closed market), or one of the exit
\* signals fires: calm ones may work Lighter passively.
HoldOn ==
    \/ To("tick") /\ NoExec /\ SameFile
    \/ \E passive \in BOOLEAN : DoExit(passive, "tick")

\* check_single_leg: positions that are not exactly the ledger's.  Without
\* legs it has nothing to compare.
CheckSingleLeg(r) == legs # NoLegs /\ r # legs

\* What it finds, it exits on, before anything else of the tick.
Watchdog(r) == IF CheckSingleLeg(r) THEN DoExit(FALSE, "tick") ELSE HoldOn

\* Mutant: a failed read does not count.
ForgiveFailures ==
    /\ In("hold")
    /\ \/ shadow /\ streak' = 0 /\ HoldOn
       \/ ~shadow /\ gw /\ streak' = 0 /\ \E r \in ReadsBoth : Watchdog(r)
       \/ ~shadow /\ gw /\ UNCHANGED streak /\ HoldOn
    /\ NoVenue /\ SameProcess /\ UNCHANGED idle

\* _live_positions: what was read goes to the watchdog; a failure to read skips
\* it, but the FailStreak-th in a row shows it a flat book.
Hold ==
    /\ In("hold")
    /\ \/ shadow /\ streak' = 0 /\ HoldOn
       \/ ~shadow /\ gw /\ streak' = 0 /\ \E r \in ReadsBoth : Watchdog(r)
       \/ /\ ~shadow /\ gw
          /\ streak' = IF streak < FailStreak THEN streak + 1 ELSE streak
          /\ IF streak' = FailStreak THEN Watchdog(Flat) ELSE HoldOn
    /\ NoVenue /\ SameProcess /\ UNCHANGED idle

(***************************************************************************)
(* The operator, while the process is down, and the day.                   *)
(***************************************************************************)
\* clear-halt: the latch, and the day's counters that may have caused it.
ClearHalt ==
    /\ In("down") /\ halt
    /\ halt' = FALSE
    /\ breach' = FALSE
    /\ NoCall /\ SameRound /\ SameProcess /\ SameCounts
    /\ UNCHANGED <<booked, epc, ret, restarts>>

\* clear-cooldown.
ClearCooldown ==
    /\ In("down") /\ mode = "COOLDOWN"
    /\ mode' = "IDLE"
    /\ NoCall /\ SameBook /\ SameProcess /\ SameCounts
    /\ UNCHANGED <<shadow, legs, round, halt, epc, ret, restarts>>

\* Both legs flattened by hand, as every HALT asks; the orders perhaps too.
Flatten ==
    /\ In("down") /\ Quiet
    /\ pos' = Flat
    /\ rest' \in {rest, NoOrders}
    /\ NoExec /\ UNCHANGED <<flight, ledgerVars, engineVars>>

\* A new UTC day has no loss yet.
NewDay ==
    /\ breach' = FALSE
    /\ NoCall /\ SameRound /\ SameProcess /\ SameCounts
    /\ UNCHANGED <<booked, halt, epc, ret, restarts>>

Executor ==
    /\ epc \in {"opening", "closing"}
    /\ ExecStep
    /\ UNCHANGED engineVars

VenueActs == VenueStep /\ UNCHANGED <<execVars, ledgerVars, engineVars>>

EngineStep ==
    \/ Arm \/ StartupHalt \/ MakerProbe \/ MakerProven
    \/ TickBegin \/ RecoverShadow \/ RecoverHalt \/ RecoverFlat \/ RecoverResume
    \/ NoTrading \/ Drawdown \/ DrawdownHalt \/ Decide
    \/ IdleCheck \/ Entry \/ GateHalt \/ GateOpen
    \/ ShadowFilled \/ LiveFilled \/ LiveFailed \/ LiveNaked \/ RollBack \/ ClearLegs
    \/ ConfirmLegs \/ ConfirmShadow
    \/ Hold \/ ShadowClosed \/ LiveClosed \/ FinishLedger \/ FinishSave

Operator == ClearHalt \/ ClearCooldown \/ Flatten

Next ==
    \/ EngineStep \/ Executor \/ VenueActs
    \/ Start \/ Down \/ Operator \/ NewDay

Spec == Init /\ [][Next]_vars

(***************************************************************************)
(* Fairness: the engine thread runs, systemd starts it again, an accepted  *)
(* taker order fills or is dropped, prices and positions are not unreadable*)
(* for ever, and max_hold ends a paper round (TradingSession!RoundsEnd).   *)
(* Nothing is assumed of signals in a live round, of resting orders, or of *)
(* how a call ends.                                                        *)
(***************************************************************************)
Settles == \E v \in Venue, k \in Kind : Fill(v, k) \/ Drop(v, k)
TakersSettle == Settles /\ UNCHANGED <<execVars, ledgerVars, engineVars>>

\* A tick whose snapshot succeeds.
Ticks == Drawdown \/ Decide

\* A flat check whose read succeeds.
ResidualSeen == IdleCheck /\ halt'

\* An exit signal of a paper round.
PaperEnds == Hold /\ shadow /\ mode' = "EXITING"

\* A retried exit that is priced.
ExitPriced == (RecoverShadow \/ RecoverResume) /\ epc' \in {"closing", "closed"}

Fairness ==
    /\ WF_vars(EngineStep)
    /\ WF_vars(Executor)
    /\ WF_vars(TakersSettle)
    /\ WF_vars(Start)
    /\ SF_vars(Ticks)
    /\ SF_vars(ResidualSeen)
    /\ SF_vars(PaperEnds)
    /\ SF_vars(ExitPriced)

FairSpec == Spec /\ Fairness

-----------------------------------------------------------------------------
\* The executor's call in progress, as RoundLifecycle sees it.
Working == IF pc = "idle" \/ epc \notin {"opening", "closing"} THEN "none"
           ELSE IF epc = "opening" THEN "open" ELSE "close"

Life == INSTANCE RoundLifecycle WITH working <- Working

\* The engine implements the lifecycle the state machine promises: rounds go
\* through their phases in order, a call of the executor lies within one
\* phase and comes back, nothing is booked, rolled back or latched while
\* orders are being worked, and only the operator lifts a HALT.
ImplementsLifecycle == Life!LifeSpec

\* Its safety part: no step of the engine, of a venue, of a crash or of the
\* operator leaves the lifecycle.
StaysInLifecycle == Life!LifeSafety

-----------------------------------------------------------------------------
\* A live round is fully managed or halted, never half: whenever the engine
\* is between ticks with the write guard up, a live round in an active mode
\* has a HALT latched (halt_if_unmanageable_live_round, the guard test of
\* _do_exit; the incident of review16).  Live is what the file says is: a round
\* that crashed before its flag was written (engine.py:556) passes for a paper
\* one, here as in the code; RecoveryKeepsResidual is about that.
ManagedOrHalted ==
    epc = "tick" /\ armed /\ ~shadow /\ mode \in Active => halt

\* While a HALT stays latched the engine neither moves the round nor books
\* one, and sends no order that takes: only a human changes anything.
HaltFreezes ==
    [][ halt /\ halt' /\ epc # "down" =>
          /\ SameRound
          /\ UNCHANGED booked
          /\ \A v \in Venue, k \in Kind : flight'[v][k] <= flight[v][k] ]_vars

\* Two rounds' Variational orders never stack up: position and opening order
\* together stay within one round's size, whatever crashed, failed or was
\* aborted before (the 9/8 incident, _preopen_flat_or_halt).  The Lighter leg
\* is NoDoubleHedge's.
NeverStacks == pos["var"] + flight["var"]["open"] <= Q + LotStep \div 2

\* VALID_TRANSITIONS.
ValidTransitions == [m \in Mode |->
    CASE m = "IDLE" -> {"ENTERING"}
      [] m = "ENTERING" -> {"HOLDING", "EXITING", "IDLE", "COOLDOWN"}
      [] m = "HOLDING" -> {"EXITING"}
      [] m = "EXITING" -> {"COOLDOWN", "HOLDING"}
      [] m = "COOLDOWN" -> {"IDLE"}]

\* The engine never asks for a transition VALID_TRANSITIONS forbids: that is
\* a ValueError in the middle of a tick, with orders out.
LegalTransitions == [][mode' # mode => mode' \in ValidTransitions[mode]]_vars

\* A live round that leaves EXITING for the books has left Variational: no
\* phantom close is booked, by the close, its retry, or a recovery after a
\* crash ("never book a phantom closed", close_hedge).  Of a round whose flag
\* and legs the file has; its Lighter leg is ClosedMeansReduced's.
BookedMeansClosed ==
    [][ mode = "EXITING" /\ mode' = "COOLDOWN" /\ ~shadow /\ legs # NoLegs =>
          WithinHalfLot(pos["var"]) ]_vars

\* One crash, wherever it falls, does not book a round that has its legs a
\* second time: finish_exit leaves EXITING before it writes the ledger line,
\* by whose id backfill_venue_realized finds the round.  Two crashes do, one
\* before the last write of a booking, one inside the next confirm_hold.
\* Without legs one does: past the first write of confirm_hold the file holds
\* a round under the id of the one before, and books it under that id.
OneCrashBooksOnce ==
    [][ booked' # booked /\ legs # NoLegs /\ restarts <= 1 => booked[round] = 0 ]_vars

-----------------------------------------------------------------------------
\* A position nobody planned for ends in a HALT: whatever an aborted entry, a
\* late order, a zombie quote or a crash left on a venue while the engine is
\* IDLE, it is latched, or gone, before long (_idle_flat_check,
\* _preopen_flat_or_halt), whatever rounds are held on paper meanwhile.  This
\* needs the gateways: a process without them cannot look.
ResidualHalts ==
    mode = "IDLE" /\ ~halt /\ ~BooksFlat ~> halt \/ ~gw \/ BooksFlat

\* A live round whose positions are not its ledger's is not held: the watchdog
\* takes it into an exit, even if no position can be read again, because the
\* failures themselves count up to one (_live_positions).
MismatchLeaves ==
    mode = "HOLDING" /\ ~shadow /\ ~halt /\ legs # NoLegs /\ pos # legs
        ~> mode # "HOLDING" \/ halt \/ pos = legs

\* An exit once begun comes to an end, booked or latched: deferred for want of
\* a price, or cut off by a crash, it is made again by the next recovery.
ExitsEnd == mode = "EXITING" /\ ~halt ~> mode # "EXITING" \/ halt

-----------------------------------------------------------------------------
(***************************************************************************)
(* What the documents say and the code does not do; each has a run that    *)
(* TLC refutes and a finding.                                              *)
(***************************************************************************)
\* REVIEW4_RESPONSE.md, P0-C: recovery of a live ENTERING reconciles before it
\* aborts, so it never returns to IDLE over a Variational position.
RecoveryKeepsResidual ==
    [][ epc = "recover" /\ mode' = "IDLE" => WithinHalfLot(pos["var"]) ]_vars

\* engine.py on the drawdown breaker: "a HALT must FLATTEN first, then latch".
\* So it does not latch a HALT over a live round still on its way out.
HaltFlattensFirst ==
    [][ epc = "ddhalt" /\ ~halt /\ halt' /\ ~shadow => mode # "EXITING" ]_vars

\* reconcile.py: a source that fails "must not be silently reported as flat".
\* So _preopen_flat_or_halt opens a live round on flat venues only.
NeverOpensOnResidual ==
    [][ epc = "gate" /\ epc' = "opening" =>
          \A v \in Venue : WithinHalfLot(pos[v]) ]_vars
=============================================================================
