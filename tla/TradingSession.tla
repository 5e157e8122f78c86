--------------------------- MODULE TradingSession ---------------------------
(***************************************************************************)
(* A live round and the clock: the trading hours of the Variational leg    *)
(* (engine.py _var_session and the session branch of _hold_tick) and the   *)
(* entry and exit decisions of strategy.py, on a weekly clock that runs    *)
(* while the engine sleeps, opens and closes.                              *)
(*                                                                         *)
(* What HedgeEngine tells apart is left out here: an open either holds the *)
(* round or does not, a close either books it or latches HALT, and the     *)
(* engine does not crash.  The market itself follows the calendar, except  *)
(* for one closure that the venue's metadata row may publish.              *)
(***************************************************************************)
EXTENDS MarketHours

CONSTANTS Config,     \* the configuration; ConfigAssumption names its fields
          Schedules,  \* the values of trading_hours considered
          Closures,   \* closures off the calendar, [from, until], or None
          Gaps,       \* the longest times between two ticks considered
          MaxMiss     \* ticks in a row that may go without market data

Side == {"short_var", "short_lit"}

ASSUME ConfigAssumption ==
    /\ Config \in [closeBuffer : Nat, entryLead : Nat, maxHold : Nat, confirm : Nat \ {0},
                   exitOnReversal : BOOLEAN, takeProfit : Nat, buffer : Nat,
                   maxLoss : Nat, sunk : Nat, notional : Nat, heartbeat : Nat \ {0},
                   sides : SUBSET Side]
    /\ MaxMiss \in Nat /\ Gaps \subseteq Nat \ {0}
    /\ Schedules \subseteq [enabled : BOOLEAN, windows : SUBSET (Window \cup {None})]
    /\ Closures \subseteq [from : Moment, until : Moment] \cup {None}

VARIABLES closure,    \* the closure off the calendar, or None
          published,  \* the metadata row carries the next close
          gap,        \* the longest time between two ticks
          since,      \* minutes since the last tick began
          misses,     \* ticks in a row without market data
          pc,         \* "sleep", or the call a tick is in: "opening", "closing"
          mode, halt, \* state.json: mode, HALT latch,
          side,       \*   direction, None between rounds,
          reason,     \*   the reason of the last exit of the round, None if none,
          streak,     \*   reversal_streak,
          age,        \*   minutes since opened_at, up to maxHold,
          alerted     \*   minutes since session_frozen_alerted_at, or None

fileVars == <<mode, halt, side, reason, streak, age, alerted>>
vars == <<hours, now, closure, published, gap, since, misses, pc, fileVars>>

Reason == {"watchdog", "market_closing", "basis_force_exit", "funding_spread_reversal",
           "take_profit", "round_stop_loss", "max_hold", "recovered_exit"}

TypeOK ==
    /\ now \in Moment /\ since \in 0 .. gap /\ misses \in 0 .. MaxMiss
    /\ Evaluate(now) \in Session
    /\ pc \in {"sleep", "opening", "closing"}
    /\ mode \in {"IDLE", "ENTERING", "HOLDING", "EXITING", "COOLDOWN"}
    /\ halt \in BOOLEAN
    /\ side \in Side \cup {None} /\ reason \in Reason \cup {None}
    /\ streak \in Nat /\ (Config.exitOnReversal => streak <= Config.confirm)
    /\ age \in 0 .. Config.maxHold
    /\ alerted \in 0 .. Config.heartbeat \cup {None}

(***************************************************************************)
(* The venue.                                                              *)
(***************************************************************************)
Closed(t) ==
    \/ hours.enabled /\ ~OpenAt(t)
    \/ closure # None /\ Ahead(closure.from, t) < Ahead(closure.from, closure.until)

\* Minutes to the next moment at which an open market shuts.
NextShut == LET shuts == {d \in 1 .. Week : ~Closed(Later(now, d - 1)) /\ Closed(Later(now, d))}
            IN  IF shuts = {} THEN None ELSE Min(shuts)

\* next_close_from_metadata: None without the field.  While the market is
\* closed the row may still show the close that has passed, which reads 0.
NextCloses == IF ~published THEN {None}
              ELSE {NextShut} \cup (IF Closed(now) THEN {0} ELSE {})

(***************************************************************************)
(* What a tick reads.                                                      *)
(***************************************************************************)
\* Mutant: the metadata is not looked at.
CalendarOnly(close) == Evaluate(now)

\* _var_session: the earlier of the calendar's close and the metadata's.
VarSession(close) ==
    LET cal == Evaluate(now)
    IN  IF cal.enabled /\ cal.open /\ close # None /\ close < cal.toClose
        THEN [cal EXCEPT !.toClose = close, !.open = close > 0] ELSE cal

\* What the tick's own row makes of it.  A tick without both prices may have
\* no row of Variational's at all.
Sessions(priced) ==
    {VarSession(close) : close \in IF priced THEN NextCloses ELSE NextCloses \cup {None}}

Spread == {"none", "neg", "zero", "pos"}

\* What entry_signal looks at.  tradable stands for its remaining gates:
\* market status, reduce-only, price difference, basis and basis gain.
Offer(priced) ==
    [priced : {priced}, spread : Spread, thin : BOOLEAN, tradable : BOOLEAN]

\* What _hold_tick looks at: pnl is the round marked to market.  Without
\* both prices the basis is 0, and a leg whose price is 0 is marked at its
\* whole notional; but Lighter's may be marked on its book, and two such legs
\* cancel.
RealPnl == {-Config.sunk - Config.maxLoss, Config.takeProfit,
            Config.takeProfit + Config.buffer}

Mark(priced) ==
    [priced : {priced}, spread : Spread,
     far : IF priced THEN BOOLEAN ELSE {FALSE},
     pnl : IF priced THEN RealPnl ELSE RealPnl \cup {-Config.notional, Config.notional}]

(***************************************************************************)
(* strategy.py.                                                            *)
(***************************************************************************)
ChooseDirection(spread) ==
    CASE spread = "pos" -> "short_var" [] spread = "neg" -> "short_lit" [] OTHER -> None

EntrySignal(o, s) ==
    /\ s.enabled => s.open /\ s.toClose >= Config.entryLead
    /\ o.priced /\ o.tradable /\ ~o.thin
    /\ ChooseDirection(o.spread) \in Config.sides

\* A spread that cannot be computed is no reversal; one at zero is.
IsSpreadReversed(spread) ==
    spread # "none" /\ ChooseDirection(spread) # side

BumpReversal(spread) == IF IsSpreadReversed(spread) THEN streak + 1 ELSE 0

\* Mutant: one confirmation too many is asked for.
ReversalConfirmedLate(spread) ==
    /\ Config.exitOnReversal /\ IsSpreadReversed(spread)
    /\ BumpReversal(spread) > Config.confirm

ReversalConfirmed(spread) ==
    /\ Config.exitOnReversal /\ IsSpreadReversed(spread)
    /\ BumpReversal(spread) >= Config.confirm

TakeProfitSignal(pnl) ==
    Config.takeProfit > 0 /\ pnl >= Config.takeProfit + Config.buffer

\* Measured against the baseline, the round's sunk cost at its open.
RoundStopLossSignal(pnl) ==
    Config.maxLoss > 0 /\ pnl + Config.sunk <= -Config.maxLoss

\* Mutant: the time exit is off.
NoTimeExit == FALSE

MaxHoldExitSignal == Config.maxHold > 0 /\ age >= Config.maxHold

\* The exit triggers, in the order _hold_tick asks for them, and the ranks
\* of those that fire: the first of them is the reason.
Exits == <<"basis_force_exit", "funding_spread_reversal", "take_profit",
           "round_stop_loss", "max_hold">>

Fired(m) ==
    LET fires == <<m.far, ReversalConfirmed(m.spread), TakeProfitSignal(m.pnl),
                   RoundStopLossSignal(m.pnl), MaxHoldExitSignal>>
    IN  {i \in 1 .. 5 : fires[i]}

FirstFired(m) == Exits[Min(Fired(m))]

\* Exits that may work the Lighter leg passively.
Calm == {"take_profit", "funding_spread_reversal", "max_hold"}

(***************************************************************************)
(* Ticks.  One begins at least a minute after the last (the poll interval) *)
(* and at most gap minutes, whatever the last one had to do in between.    *)
(***************************************************************************)
Init ==
    /\ hours \in Schedules /\ now = 0
    /\ closure \in Closures /\ published \in BOOLEAN
    /\ gap \in Gaps /\ since = 0 /\ misses = 0 /\ pc = "sleep"
    /\ mode = "IDLE" /\ halt = FALSE
    /\ side = None /\ reason = None /\ streak = 0 /\ age = 0 /\ alerted = None

World == UNCHANGED <<hours, now, closure, published, gap>>

UpTo(n, limit) == IF n < limit THEN n + 1 ELSE limit

Minute ==
    /\ since < gap
    /\ now' = Later(now, 1)
    /\ since' = since + 1
    /\ age' = IF side = None THEN 0 ELSE UpTo(age, Config.maxHold)
    /\ alerted' = IF alerted = None THEN None ELSE UpTo(alerted, Config.heartbeat)
    /\ UNCHANGED <<hours, closure, published, gap, misses, pc, mode, halt, side,
                   reason, streak>>

TickBegins == pc = "sleep" /\ since > 0 /\ since' = 0 /\ World

\* A tick has data or, no more than MaxMiss times in a row, it does not.
Data(priced) ==
    IF priced THEN misses' = 0 ELSE misses < MaxMiss /\ misses' = misses + 1

\* fetch_snapshot raises: nothing is decided.
MissedTick ==
    /\ TickBegins /\ Data(FALSE)
    /\ UNCHANGED <<pc, fileVars>>

HaltedTick ==
    /\ TickBegins /\ halt
    /\ UNCHANGED <<misses, pc, fileVars>>

\* maybe_leave_cooldown, then _do_entry or no entry.  A cooldown may last.
IdleTick ==
    /\ TickBegins
    /\ mode \in {"IDLE", "COOLDOWN"}
    /\ \/ \E priced \in BOOLEAN : \E s \in Sessions(priced), o \in Offer(priced) :
            /\ Data(priced)
            /\ IF EntrySignal(o, s)
               THEN /\ mode' = "ENTERING" /\ pc' = "opening"
                    /\ side' = ChooseDirection(o.spread) /\ streak' = 0
               ELSE mode' = "IDLE" /\ UNCHANGED <<pc, side, streak>>
            /\ reason' = None
       \/ mode = "COOLDOWN" /\ UNCHANGED <<misses, pc, mode, side, streak, reason>>
    /\ UNCHANGED <<halt, age, alerted>>

\* _do_exit: EXITING is persisted; without both prices the close is deferred
\* to the recovery of the next tick.
DoExit(why, priced) ==
    /\ mode' = "EXITING"
    /\ reason' = why
    /\ pc' = IF priced THEN "closing" ELSE "sleep"
    /\ UNCHANGED <<halt, side, age>>

\* The single-leg watchdog: it comes before the session.
WatchdogTick ==
    /\ TickBegins /\ mode = "HOLDING"
    /\ \E priced \in BOOLEAN : Data(priced) /\ DoExit("watchdog", priced)
    /\ UNCHANGED <<streak, alerted>>

\* Mutant: the heartbeat is forgotten after the first alert.
AlertOnce == alerted' = IF alerted = None THEN 0 ELSE alerted

\* _alert_market_frozen: a first alert, then one every heartbeat.
AlertMarketFrozen ==
    alerted' = IF alerted = None \/ alerted >= Config.heartbeat THEN 0 ELSE alerted

\* The session is over: the leg is frozen, nothing but the alert.
FrozenTick ==
    /\ TickBegins /\ mode = "HOLDING"
    /\ \E priced \in BOOLEAN : Data(priced) /\ \E s \in Sessions(priced) : ~s.open
    /\ AlertMarketFrozen
    /\ UNCHANGED <<pc, mode, halt, side, reason, streak, age>>

\* Mutant: the strategy is asked before the clock.
DecisionLate(m, s) ==
    /\ streak' = BumpReversal(m.spread)
    /\ IF Fired(m) # {} THEN DoExit(FirstFired(m), m.priced)
       ELSE IF s.enabled /\ s.toClose < Config.closeBuffer
            THEN DoExit("market_closing", m.priced)
            ELSE UNCHANGED <<pc, mode, halt, side, reason, age>>

\* The pre-close exit, then the strategy's.
Decision(m, s) ==
    IF s.enabled /\ s.toClose < Config.closeBuffer
    THEN DoExit("market_closing", m.priced) /\ UNCHANGED streak
    ELSE /\ streak' = BumpReversal(m.spread)
         /\ IF Fired(m) = {} THEN UNCHANGED <<pc, mode, halt, side, reason, age>>
                             ELSE DoExit(FirstFired(m), m.priced)

HoldTick ==
    /\ TickBegins /\ mode = "HOLDING"
    /\ \E priced \in BOOLEAN : \E s \in Sessions(priced), m \in Mark(priced) :
        /\ Data(priced)
        /\ s.open
        /\ Decision(m, s)
    /\ alerted' = IF VarSession(None).enabled THEN None ELSE alerted

\* _recover in EXITING: the close is taken up again, at any hour.
ResumeTick ==
    /\ TickBegins /\ mode = "EXITING" /\ ~halt
    /\ \E priced \in BOOLEAN : Data(priced) /\ DoExit("recovered_exit", priced)
    /\ UNCHANGED <<streak, alerted>>

(***************************************************************************)
(* The two calls.  The RFQ of the Variational leg fills only in an open    *)
(* market.                                                                 *)
(***************************************************************************)
Call == World /\ UNCHANGED <<since, misses>>

Opened ==
    /\ Call /\ pc = "opening" /\ pc' = "sleep"
    /\ ~Closed(now)
    /\ mode' = "HOLDING" /\ age' = 0
    /\ UNCHANGED <<halt, side, reason, streak, alerted>>

\* abort_entry, or rollback_entry_to_cooldown.
NotOpened ==
    /\ Call /\ pc = "opening" /\ pc' = "sleep"
    /\ mode' \in {"IDLE", "COOLDOWN"}
    /\ side' = None /\ age' = 0
    /\ UNCHANGED <<halt, reason, streak, alerted>>

\* finish_exit.
ClosedOut ==
    /\ Call /\ pc = "closing" /\ pc' = "sleep"
    /\ ~Closed(now)
    /\ mode' = "COOLDOWN"
    /\ side' = None /\ streak' = 0 /\ age' = 0
    /\ UNCHANGED <<halt, reason, alerted>>

\* A close that raises latches HALT.
NotClosed ==
    /\ Call /\ pc = "closing" /\ pc' = "sleep"
    /\ halt' = TRUE
    /\ UNCHANGED <<mode, side, reason, streak, age, alerted>>

Tick == MissedTick \/ HaltedTick \/ IdleTick \/ WatchdogTick \/ FrozenTick
        \/ HoldTick \/ ResumeTick
CallEnds == Opened \/ NotOpened \/ ClosedOut \/ NotClosed

Next == Minute \/ Tick \/ CallEnds

\* Time passes, the engine thread runs, and a call comes to an end.
Spec == Init /\ [][Next]_vars /\ WF_vars(Minute) /\ WF_vars(Tick) /\ WF_vars(CallEnds)

(***************************************************************************)
(* Properties.                                                             *)
(***************************************************************************)
\* The engine looks often enough: a tick that falls into the pre-close
\* buffer, the ticks without data after it and a whole close still fit, and
\* closures off the calendar are published (and read: the gate is on).
Prompt ==
    /\ closure # None => published /\ hours.enabled
    /\ gap * (MaxMiss + 2) < Min({Config.closeBuffer, Config.entryLead})

\* "The only safe policy is to be FLAT across any close" (market_hours.py):
\* with a prompt engine no round is on or being closed while the market is
\* closed, unless a close failed earlier and latched HALT.
FlatAcrossClose ==
    Prompt /\ Closed(now) => mode \notin {"HOLDING", "EXITING"} \/ halt

\* The longest the engine may go without seeing the market.
Blind == gap * (MaxMiss + 1)

\* A frozen round is never silent: once the calendar has been closed for as
\* long as the engine may take to see it, an alert is out, and the tick that
\* finds it as old as the heartbeat has repeated it.
FrozenIsReported ==
    (/\ mode = "HOLDING" /\ hours.enabled
     /\ \A d \in 0 .. Blind : ~OpenAt(Later(now, Week - d)))
    => alerted # None /\ (alerted < Config.heartbeat \/ since > 0 \/ misses > 0)

\* An exit begun inside the pre-close buffer is urgent: it never works the
\* Lighter leg passively while the Variational one is about to freeze.
LastMinutesAreUrgent ==
    [][(pc = "sleep" /\ pc' = "closing" /\ hours.enabled
        /\ Evaluate(now).toClose < Config.closeBuffer) => reason' \notin Calm]_vars

\* Every round ends, by max_hold if no other trigger fires, frozen or not,
\* as long as the engine cannot miss a whole open stretch of the calendar.
RoundsEnd ==
    (/\ mode = "HOLDING"
     /\ hours.enabled => \A w \in Windows : Ahead(w.open, w.close) > Blind)
    ~> mode = "COOLDOWN" \/ halt

\* "take-profit only fires when the gain is robust to exit-cost/MTM error"
\* (strategy.py): an exit on the round's PnL is taken on a tick that has
\* both prices, so it is never one whose close must wait for them.
PnlExitsArePriced ==
    [][(mode = "HOLDING" /\ mode' = "EXITING"
        /\ reason' \in {"take_profit", "round_stop_loss"}) => pc' = "closing"]_vars
=============================================================================
