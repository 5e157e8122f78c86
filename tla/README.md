# TLA+ for rbh-hedge-var

rbh-hedge-var runs a two-venue hedge. A *round* opens one leg on Variational (an
RFQ venue, illiquid) and the opposite leg on RHC Lighter (an order book), holds
both while the funding spread pays, and closes both. The program is one process
with one engine thread; what makes it hard is everything outside the thread:
orders that are accepted and fill late, in pieces or never, calls that raise
although the venue acted, replies that say nothing and are read as zero, a process
that dies between two writes of its state file, and a human whose commands write
the same file.

## 1. Inventory

| Component (src/rbh_hedge_var) | State | Operations | What makes it correct | Modules |
|---|---|---|---|---|
| `live_executor.py` | locals of a call: baselines, confirmed quantities, quotes left | `open_hedge`, `close_hedge`, the maker loop, verified cancel, sweep, unwind | no doubled hedge; what it reports filled or closed is so; every call returns | LiveExecutor, ExecutorRound |
| `engine.py` | idle counter, reconcile streak, gateways of this process | `tick`, `_recover`, entry, exit, flat checks, watchdog, startup halt, `verify_funding` | never half managed; never stacks rounds; a HALT freezes; a residual ends in a HALT; an exit ends | HedgeEngine, TradingSession, LiveGate |
| `state_machine.py` | `state.json` (mode, shadow, halt, round, legs, day, attestation), `shadow_rounds.jsonl` | `_load`, `save`, `transition` and its helpers, `finish_exit`, `set_halt`, backfill | legal transitions; the file goes through the lifecycle too; a round is booked once, and only closed; no ledger line is lost | RoundLifecycle, HedgeEngine, LiveGate |
| `__main__.py` | none of its own | `run` (arming, maker preflight), operator commands | arming only on a proven book; a HALT stands until cleared | HedgeEngine, LiveGate |
| `net_guard.py` | the armed flag | arm, disarm, check | nothing leaves while it is up | HedgeEngine, LiveExecutor, VenueCalls |
| `watchdog.py`, `reconcile.py` | none | compare positions with the ledger | a mismatch is never read as flat | HedgeEngine |
| `shadow_executor.py` | none | paper open and close | paper rounds never touch a venue | HedgeEngine |
| gateways (`variational_gateway.py`, `lighter_signer.py`, `lighter_client.py`) | market rows and metadata they cache | orders, cancels, position and order reads | a failure is raised or nothing, never another value; an order never grows | Venues, VenueCalls |
| `http_util.py` | none | GET and POST, a reply's body | the guard is asked before a socket is opened | VenueCalls |
| `funding_guard.py`, `funding_attest.py` | the attestation in `state.json` | settlements to cadence to attestation to gate | no live entry on an unproven unit | FundingGate, LiveGate |
| `market_hours.py` | none | weekly session window | frozen when closed, out before the close | MarketHours, TradingSession |
| `strategy.py` | reversal streak | entry and exit signals | exit priority, on prices that were read | TradingSession |
| `economics.py`, `pricing.py`, `numeric.py` | none | costs, rounding | rounding never enlarges an order | VenueCalls, LiveExecutor, TradingSession, in part |
| `monitor.py`, `tg.py`, `config.py` | none the hedge depends on | dashboard, messages, loading | - | - |

How they meet: the engine calls the executor synchronously; the executor calls
the gateways; all of them share the write guard. The venues act at any time, also
between the exchanges of one call. `state.json` is written whole, once per helper
step, through `state.tmp` and a rename; the operator's commands are processes of
their own that load, edit and save the same file through the same temporary. The
hazards this brings are in `PROJECT.json`, each at its line with the properties
that would catch it.

## 2. The modules

```
RoundLifecycle  (what the state machine promises)
   ^ implemented by HedgeEngine; by the file of LiveGate

Venues <- LiveExecutor <- ExecutorRound <- MCExecutorRound
                       <- HedgeEngine   <- MCHedgeEngine
       <- VenueCalls   <- MCVenueCalls
RoundLifecycle, FundingGate <- LiveGate <- MCLiveGate
MarketHours <- TradingSession <- MCTradingSession

proofs:  Venues_proofs <- LiveExecutor_proofs <- HedgeEngine_proofs <- HedgeEngine_refines
                                              <- ExecutorRound_proofs
                       <- VenueCalls_proofs
         LiveGate_proofs   TradingSession_proofs
```

**RoundLifecycle** is the abstract specification: mode, HALT and whether the
executor is inside a call, one action per helper of `StateMachine`. It is what the
callers of the state machine may rely on, without a file, a venue or a crash.

**Venues** is the world the executor sees: `pos` per venue, `flight` (taker
quantity accepted and not yet filled), `rest` (post-only quantity resting on
Lighter). What the venues do on their own is not code of the repository; what a call
to them returns or leaves behind is the gateways' code in one step (`Reads`,
`ReadsBoth`, `ShowsNoOrders`, `Accept`, `Refuse`, `CancelAll`). `Faults` names what venues may do beyond refusing a call: `partial`,
`late` (an order outlives the confirmation window or a restart), `ambiguous` (a
call raises although the venue accepted it), `blind` (an unreadable Lighter
account is read as flat, and an unreadable list of its orders as none).

**LiveExecutor** is `open_hedge` and `close_hedge`, one action per exchange with a
venue; `pc` says where the call is. `Baseline`, `Submit`, `Confirm`, `RetryClose`
are shared by both calls; `MakerQuote`, `MakerWait`, `MakerCancel`, `MakerVerify`
are `_maker_work` and `_cancel_verified`; `Sweep` is the taker for the remainder;
`ReadPrices`, `CheckOrders`, `PullOrders`, `FlattenVar`, `FlattenDust` are the end of
an open and its unwinding. Every exchange may raise. `res` is how the call ended:
`filled`, `naked` (NakedLegError), `error` (any other exception), `closed`, `raised`.

**ExecutorRound** runs one open and one close (or the close of a ledger whose legs
were never written) while the venues act, without the engine, so that quantities
can be larger and the venues worse. `pieces` remembers that a taker filled in part.
The same module has the run in which a quote left by the open spoils the close.

**VenueCalls** opens the calls that the executor and the engine take for one
exchange. A call goes through the market row or the metadata, both cached for the
life of the process, the quote, the order or the GET; each exchange gets any
`Reply`, and the venues move between them. Its properties are what Venues takes
for granted: `ReadsAsVenuesSay` is `Reads` and `ShowsNoOrders` with the fault
`blind`, `OrdersWithinAsked` is `Accept` and `Refuse` with `ambiguous`.

**HedgeEngine** is the process. `epc` is where the engine is; an action is what it
does between two exchanges with a venue or two writes of `state.json`, so a crash
(`Down`) may fall between any two of them and loses just the memory. `Start`,
`Arm`, `StartupHalt`, `MakerProbe`, `MakerProven` are the way up; `TickBegin`, the
`Recover*` actions, `Drawdown`, `DrawdownHalt`, `Decide`, `IdleCheck`, `Entry`,
`Gate*`, `Hold` are `tick`; `Live*`, `RollBack`, `ConfirmLegs`, `ConfirmShadow` are
what follows an open; `FinishExit`, `FinishLedger`, `FinishSave` are the three
writes of booking. While `epc` is `opening` or `closing` the steps are
LiveExecutor's. A helper that saves twice is two steps: `abort_entry` and
`rollback_entry_to_cooldown` write the mode (`LeaveEntry`), then the rest
(`ClearLegs`), as `confirm_hold` and `finish_exit` do. `Hold` is `_live_positions`,
whose answer `Watchdog` takes before any exit signal. `Life` is RoundLifecycle with
`mode` and `halt` as they are in
memory and `working` read off `pc`.

**FundingGate** is the arithmetic of the funding unit: from settlement rows to the
cadence they prove (`Proven`: `validate_settlements`, whose median of an even
number of gaps is the upper one), from a cadence to an attestation that expires,
from the attestation and the venues' rows to `UnitsVerified`. `Regular` is the
reference: what a reader would call settlements at the expected interval.

**LiveGate** is the file. An engine's rounds are RoundLifecycle's steps, each
followed by a save; a save is an open, a write and a rename of the one
`state.tmp`, and the engine or a command may die between any two. The funding gate is
asked when a tick, or the preflight, takes its snapshot (`Ask`); `Enter` and `Arm` go
by what it said (`cleared`), the flat checks' reads, other processes and time in
between, until the tick is over (`Drops`). A round is booked by COOLDOWN and its save
(`Book`), then by its ledger line and another save (`AppendLine`; `owed` says the line
is still due). The commands
(`clear-halt`, `clear-cooldown`, `verify-funding`, `backfill-venue-pnl`) load a copy,
edit it and save the whole of it, with the engine stopped, as they ask, or beside
it (`beside`). `Durable` is RoundLifecycle again, with the mode and HALT of the file.

**MarketHours** is the weekly calendar: `Evaluate` is `evaluate`, modulo arithmetic
over the minutes of a week; `OpenAt` is what a calendar means without arithmetic,
the reference it is checked against.

**TradingSession** is the tick seen from the clock. A step is a minute, a tick, or
the end of a call; opens and closes take time. It keeps what HedgeEngine leaves to
choice: `VarSession` (the calendar and the metadata's next close), the entry gates,
and the exit triggers of `strategy.py` in the order `_hold_tick` asks for them
(`Fired`), on a mark to market in which a missing price is zero, as in the code: one
missing price makes a leg's whole notional of PnL, two may cancel, and a tick whose
read of Variational failed has no metadata either (`Mark`, `Sessions`). It
leaves out what HedgeEngine keeps: a call holds or books the round, or it fails.

### What is abstracted

- Quantities count Variational size units in the hedge's direction, for one
  direction only: the code treats the two alike, by sign.
- Prices, funding and PnL are left out of the engine. A missing price is a choice
  (`CloseAndFinish` may defer), a day's loss at its limit is the flag `breach`.
- What the strategy and the session decide is a choice in HedgeEngine (`Entry`,
  `HoldOn`) and computed in TradingSession.
- `reconcile_positions` reads Lighter, then Variational; here that is one read.
- `Quiet`: ticks are 60 s apart and a restart takes longer than an order lives, so
  orders settle before the next tick or start reads, unless the venue is `late`.
- In HedgeEngine the operator acts while the process is down, and a save is one step,
  whatever the fields; LiveGate has the parts of a save and the commands beside the
  engine.
- TradingSession is about live rounds, whose Variational leg only fills in an open
  market (`Closed`), without a crash. The market follows the calendar except for one
  `closure`, which the metadata row may or may not publish. `gap` is the longest time
  from one tick to the next, a call included; `tradable` stands for the entry gates
  that compare prices, and PnL takes the values around each threshold.
- In VenueCalls a position never changes its sign, a symbol has one row, and tokens,
  nonces and signatures are one way to raise. A post-only order may also fail because
  the SDK lacks its constants, which in one process is always or never.

## 3. What TLC checks

| Run | Instance | Shows |
|---|---|---|
| `executor_round` | Q=4, LotStep=2, two re-quotes; fills late and in pieces | TypeOK; **NoDoubleHedge**: position, flight and resting quotes on Lighter never exceed the lots of the Variational fill; **FilledMeansHedged**, **ClosedMeansReduced**: what is reported is so at the venues, as long as no taker fills in part; **CallReturns** under fairness |
| `engine_safety` | Q=1, LotStep=1, two rounds, two restarts, idle check every second tick, streak of two; 1.7 M states, 75 s | TypeOK, **ManagedOrHalted**, **NeverStacks**, **HaltFreezes**, **LegalTransitions**, **BookedMeansClosed**, **OneCrashBooksOnce**, **StaysInLifecycle** |
| `engine_live` | one round, one restart, ambiguous placements, fairness; 95 k states, 75 s | **ImplementsLifecycle** (RoundLifecycle with its fairness), **ResidualHalts**, **MismatchLeaves**, **ExitsEnd** |
| `live_gate` | one engine restart, two commands, a ledger of one line, four settlement streams, a clock of one validity; 3.5 M states, 160 s | GateTypeOK; **DurableLifecycle**, **HaltStaysLatched**, **LiveEntriesAreProven**, **RefusalStands**, **LedgerKeepsRounds** |
| `venue_calls` | sizes to 3 on lots of 2, a coarse row of 3, two listings, two marks; 0.8 M states, 50 s | CallsTypeOK; **ReadsAsVenuesSay**, **OrdersWithinAsked**, **ArmedSendsNothing** |
| `session` | a week of 12 minutes, seven calendars, one closure, gaps of 1 and 2, one tick in a row without data | TypeOK; **ClosesWhenSaid**, **ReopensWhenSaid**: `evaluate` against the reference; **FlatAcrossClose**: a prompt engine is flat whenever the market is closed; **FrozenIsReported**, **LastMinutesAreUrgent**, and **RoundsEnd** under fairness |
| `failed_open` | Q=3, LotStep=2, venues without faults | refutes FailedOpenLeavesNothing (finding 1) |
| `recovery_drops` | as engine_safety | refutes RecoveryKeepsResidual (finding 2) |
| `halt_before_flat` | as engine_safety | refutes HaltFlattensFirst (finding 3) |
| `blind_gate` | as engine_safety, with a blind Lighter account | refutes NeverOpensOnResidual (finding 4) |
| `outage_exit` | as session | refutes PnlExitsArePriced (finding 5) |
| `phantom_close` | Q=2, LotStep=2, one re-quote, placements that raise although they rest | refutes ConfirmedIsReduced (finding 6) |

Bounds, and why they are enough. Two lots of two units make a round with a whole
lot, a fill of one lot, a remainder below it, dust that is half a lot and dust that
is not; two re-quotes make three quotes, so that one can outlive another that was
itself a retry. In the engine every size is one lot: what its properties tell apart
is a leg that is on from one that is off. Two rounds make a file that carries the
last one's fields into the next; two restarts make a crash during the recovery of a
crash. `IdleEvery` and `FailStreak` of two have a value that counts and one that
acts. The live run has one round and one restart: what it asks for is about the
first residual, mismatch or exit, and a longer run only adds prefixes. In LiveGate
two commands make a command that follows, or spoils, another; one tick of the clock
is the validity. Its settlements are four streams: regular but for one missed and one early row,
newest first; twice too often; mostly noise; too few; with amounts that fit by the
median, that do not, or none. In VenueCalls a size of 3 is one
lot and a half, which the coarse row takes for one step of its own. A week of 12
minutes holds a weekend that wraps around its end, a daily break, windows that
touch, that overlap, one that never opens beside an entry that cannot be read, no
window, and no gate. The buffer and the lead are 4: with a gap of 1 and one missed
tick the engine is prompt (`Prompt`), with a gap of 2 it is not, and a round may
freeze, which FrozenIsReported and RoundsEnd are about.

Deadlock is checked in the engine, session and venue_calls runs. It is off in
ExecutorRound, where the round ends, and in LiveGate, where a halted engine with no
commands and no time left really stops.

Fairness.
- `ExecutorRound!Spec`: weak fairness of `ExecStep` only: the engine thread runs, and
  every wait of the executor ends at a deadline whatever the venues do. Nothing is
  assumed of the venues.
- `HedgeEngine!FairSpec`: the engine thread and the executor run; systemd starts the
  process again (`Restart=always`, deploy/rbh-hedge-var.service:20), and restarts are finitely many
  (`MaxRestarts`); an accepted taker order fills or is dropped; snapshots, positions
  and the prices of a retried exit are not unreadable for ever; a paper round ends,
  which is `max_hold` and TradingSession's RoundsEnd. Nothing is assumed of signals in
  a live round, of resting orders, or of how a call ends. Late orders are not in this
  run, for its size.
- `TradingSession!Spec`: time passes, the engine thread runs, and a call comes to an
  end, which is what CallReturns shows of the executor. Which way it ends, and what a
  tick reads, is not under fairness.

Preconditions a reader should know. FlatAcrossClose needs `gap * (MaxMiss + 2)` to be
less than the buffer and the lead; the code does not enforce it. With the shipped
configuration (a poll of 60 s, a buffer of 1800 s, a longer lead) it leaves room for a
call of minutes. FilledMeansHedged and ClosedMeansReduced stop at a partial fill
because `_confirm_delta` does: it returns at the first fill it sees, and what arrives
later is not in what it reports. NeverStacks is checked without late orders: an order
that fills after its window becomes an ordinary exception, and two such rounds can
add up between the flat checks; and it is about the Variational leg, as is
BookedMeansClosed. *Live* is in every property what the file's `shadow` flag says: a
live round that crashes before the flag is written (engine.py:556) is a paper one to
ManagedOrHalted and BookedMeansClosed as it is to the code, and finding 2 is what comes
of it. OneCrashBooksOnce is about one crash and about rounds that have their legs. Two
crashes, one before the last write of `finish_exit` and one between the writes of the
next `confirm_hold`, book a round twice. One crash is enough for a round without legs:
past `confirm_hold`'s first write the file says HOLDING under the id of the round
before, and its booking is a second line under that id. LiveEntriesAreProven speaks of
the moment of the snapshot: the attestation may end before the entry begins, and nothing
asks again; and its `Regular` is no more than enough samples with no majority of gaps
out of tolerance. RoundsEnd needs `max_hold_hours` to be set, as in the shipped
configuration: it ends a round without a trigger, and 0, the code's default, switches it
off. ClosedMeansReduced also needs placements that do what they say: finding 6 is what
an ambiguous one does to a close. DurableLifecycle, HaltStaysLatched, RefusalStands
and LedgerKeepsRounds are about commands that ran without an engine beside them;
LiveEntriesAreProven is not.

### Findings

1. `failed_open`. A read of the fill price that raises after both legs filled is
   not a NakedLegError: the engine rolls back to IDLE with both legs on.
2. `recovery_drops`. `shadow` is written after the live orders, so a crash in the
   first live open is recovered as a paper entry, without reading the venues.
3. `halt_before_flat`. A drawdown exit deferred for want of a price is followed by
   the latch all the same; the round stays open.
4. `blind_gate`. An unreadable Lighter account passes the pre-open flatness proof.
   In the run's shortest trace the residual is the preflight's own order, filled
   before it was cancelled; the preflight then only turns the maker leg off.
5. `outage_exit`. A price that cannot be read marks its leg at zero, so take-profit or
   the stop fires; the close is deferred to the next tick, whose recovery closes a
   round that no real trigger asked to close.
6. `phantom_close`. A post-only quote of the open that raised but rests, and that the
   order query at its end did not show, fills while the close's own order is dropped.
   At its deadline `_confirm_delta` does not look at the sign: a leg that doubled is
   confirmed as closed, and the round is booked.

## 4. What TLAPS proves

For every value of the constants that satisfies the named assumptions (positive
sizes, weeks and periods, natural bounds, a `None` that is no number), with any
streams, replies and calendars, and any set of faults but those a theorem names:

| Theorem | Property | Says |
|---|---|---|
| `TypeCorrect` | TypeOK | the types, with no fill through zero and no negative order |
| `FullyManaged` | ManagedOrHalted | no round the file has as live is half managed between ticks |
| `TransitionsLegal` | LegalTransitions | every transition asked for is in VALID_TRANSITIONS |
| `HaltIsFinal` | HaltFreezes | a latched HALT freezes round, books and taker orders |
| `RefinesLifecycle` | StaysInLifecycle | the engine implements the safety part of RoundLifecycle |
| `BooksOnce` | OneCrashBooksOnce | one crash, wherever it falls, never books a round that has its legs twice |
| `StacksNever` | NeverStacks | without `late` orders, two rounds never add up on Variational |
| `ClosedIsBooked` | BookedMeansClosed | without `late` and `partial` orders, a live round with its legs is only booked when it is off Variational |
| `RoundTyped` | TypeOK | the types of a round on its own |
| `NeverDoubles` | NoDoubleHedge | without `ambiguous` and `blind`, Lighter never gets more than the hedge |
| `FilledIsHedged` | FilledMeansHedged | without them, the legs an open returns are on the venues, matched, with nothing left to fill |
| `ClosedIsReduced` | ClosedMeansReduced | without them, a close that returns took its legs off |
| `ClosesSaid`, `OpensSaid` | ClosesWhenSaid, ReopensWhenSaid | `evaluate` says what the calendar means, for any calendar |
| `SessionTyped` | TypeOK | the types of a session |
| `FlatAcross` | FlatAcrossClose | a prompt engine is flat across every close |
| `FrozenReported` | FrozenIsReported | a frozen round is reported, and reported again |
| `LastMinutes` | LastMinutesAreUrgent | an exit inside the buffer is never passive |
| `ProvenIsRegular` | - | a cadence that is accepted comes from regular settlements, however many rows |
| `LiveEntriesProven` | LiveEntriesAreProven | no live entry on an attested interval, unless such settlements were seen within the validity when its tick took the snapshot |
| `GateTypesHold` | GateTypeOK | the copies, the file and its temporary keep their types |
| `FileFollowsLifecycle` | DurableLifecycle | each change of the file is one lifecycle step, wherever a process dies |
| `LedgerStands`, `RefusalsStand`, `HaltsStay` | LedgerKeepsRounds, RefusalStands, HaltStaysLatched | the three promises about commands that ran alone |
| `CallsTyped` | CallsTypeOK | the types of a call |
| `ReadsJustified` | ReadsAsVenuesSay | what a read returns was so while it ran, or is nothing |
| `NeverEnlarged` | OrdersWithinAsked | no venue takes on more than was asked for |
| `GuardHolds` | ArmedSendsNothing | nothing is sent while the guard is up |

The arguments.

*Engine.* None of its properties is inductive. `IInv` (HedgeEngine_proofs) adds to the
types: `ExecShape`, what the retry and the quote loop rely on (a retried leg is
short, a quote that waits has been counted); `Control`, the mode each place of the
engine's code runs in; `Calls`, that the executor runs and its outcome is kept only
where the engine waits for it, with the guard down; `Managed`, ManagedOrHalted at
every place past the startup check, except the three writes in which `shadow` still
names the last round; and `Frozen`, that a HALT never finds the engine inside a
round. LiveExecutor_proofs shows that steps of the executor keep their part, and
Venues_proofs the same of the venues; HedgeEngine_proofs has one lemma per action,
combined in `StepKeeps`. HaltFreezes and LegalTransitions then follow from
`IInv` by a case split on the step. HedgeEngine_refines uses the same invariant to map each action
to one of RoundLifecycle's, or to a stutter.

*Books.* `BookInv` follows the legs in the file: while no crash has fallen there are
some only in a round and its booking, and after one crash those of a round that runs
are not booked yet.
`BookSteps` sorts every step into the seven things it can do to that. It needs no
hypothesis on the venues. A second crash breaks it, which is why the property
counts crashes.

*Quantities of the engine.* `StackInv` says that no opening order of Variational is
alive where the engine runs past the top of a tick, which is `Quiet` without late
orders, so that what the flat checks read stays so until the open's first order.
`Bookable` carries one quantity through a round, the position on Variational with
what is in flight: a round that holds has it whole (`WholeLegs`), each place of an
open and of a close bounds it (`OpensWhole`, `ClosesWhole`), a call that reports
`closed` leaves half a lot at most. A close that fails may leave its reducing order
behind, and the next close of the same ledger would then stop too early: what saves
the property is that such a failure latches a HALT, and that nothing is on order to
reduce where a tick trades (`NoReduceOrder`). The hypotheses are not for convenience: TLC refutes NeverStacks with `late`, and
BookedMeansClosed with `late` or with `partial`; `ambiguous` and `blind` are covered.

*Executor.* `HedgeInv` (ExecutorRound_proofs) follows an open's Lighter leg: nothing
of it is on the venue until the Variational leg is confirmed; no taker is in flight
while it quotes; and nothing rests when it quotes again or sweeps, which is what the
verified cancel proves. Then each order is sized against what is already there
(`OrderFits`), and the venues turn orders into position or nothing (`LitMoves`).
`Truthful` names the two faults that must be absent: either alone refutes the
property. Late and partial fills are covered. `WholeInv` adds, for a round none of
whose takers filled in part, that a confirmed leg is all there is: on Lighter the
confirmation may come at a passive fill with the taker in flight, but then a whole
lot is missing and the imbalance guard refuses the open. A close so starts with
nothing left to fill, and the positions it works only fall.

*Gate.* `ProofInv` (LiveGate_proofs) says of every place an attestation may be, in
memory, in the file, in the temporary and in a command's copy, that it is no younger
than the last proof; `VerdictInv`, that a tick cleared by an attestation was backed by
one (`OpensCleared`, `ClearedKept`: an entry begins only in a cleared tick, and nothing
but its snapshot clears it). The durable properties need more of two savers: `FileInv`
(the same module) says that without an overlap the temporary of the one that saves
is its own copy, and that file and memory differ by the step being saved;
`RefusalInv` and `HaltInv` follow a refusal and a HALT through those places.

*Calls.* `CallInv` (VenueCalls_proofs) is the types, the place in the call each
method may be at, a guard that is down behind every order, and that nothing has
been taken on before the order is sent; `SeenInv` adds that the value read last is
in the history of the call. `ScaledDown` is the arithmetic of rounding down.

*Calendar and session.* The first part of TradingSession_proofs is arithmetic modulo
the week: a remainder is unique (`ModUnique`), so `Ahead` is the number of minutes to
walk, and `Min` is the least of a set of naturals by the library's well-founded
minimum. `SessionInv` says which call each mode is
in and that a HALT is only latched by a failed close. `FlatInv` measures how far the
next close must be: `Slack` is the buffer less the ticks missed and the minutes
since, so a round that may be on is never nearer to a close than that, and a close
under way began early enough. `FrozenInv` looks the other way: while no alert is out
the calendar was open at most `Unseen` minutes ago.

Only model-checked: the liveness properties CallReturns, ResidualHalts,
MismatchLeaves, ExitsEnd and RoundsEnd, and the fairness in ImplementsLifecycle
(temporal reasoning under fairness is out of the prover's reach, as is ENABLED). Of
the properties checked as invariants or as action properties none is left.

## 5. Where code and text disagree, without a run

- Two crashes can book a round twice under one id, and one crash can book two rounds
  under one id (state_machine.py:107-108), by which the backfill then finds both: see
  OneCrashBooksOnce above.
- `verify-funding` is "Read-only: never disarms or trades" (engine.py:973-974), and
  does not ask for a stopped service as `clear-cooldown` and the backfill do. It saves
  the state it loaded when it began, so a HALT a running engine latches meanwhile is
  gone from the file (1011), and the halted engine does not write it again (292-296).
- `clear-halt` prints that a restart or the next tick resumes; a running engine keeps
  its HALT in memory and does not read the file again.
- `cancel-test` is said to be safe while HOLDING (`__main__.py:310`); it disarms the
  guard and pulls every resting order of the market, so it is one of the "other code
  paths" GO_LIVE_CHECKLIST.md:61 says do not call `net_guard.disarm`.
- `account_active_orders`: a query that did not run "can never be misread as 'no open
  orders'" (lighter_client.py:271-273); a body that is not JSON, or a reply lost under
  urllib (status 0), is.
- `_market_row` loads Lighter's rows once per process (lighter_client.py:60-65), so
  `public_contract`, which every tick asks for the mark price, answers with that of the
  first tick; README.md:16 says each tick reads public market data.
- `_instrument_meta` keeps the configuration's fallback for the life of the process
  after one failed fetch (168-172): if the listing is another one, every later quote
  is refused.
- lighter_signer.py refuses to size without decimals (145-146), but public_contract
  has made a missing one 0 by then (lighter_client.py:78-79). OrdersWithinAsked holds
  all the same: orders are rounded to whole coins.
- A Variational position row without its quantity is a position of zero
  (variational_gateway.py:298), in spite of the docstring above it; ReadsAsVenuesSay
  excepts it (`bare`).
- verify-funding accepts a cadence within a tolerance and the gate then asks for
  exactly the expected one (funding_guard.py:153): an attested 3599 s stays shut.
  Nothing asks how old the settlements are (funding_attest.py:37).
- The watchdog is asked before the session, so a mismatch or a streak of failed reads
  while the market is closed begins a close of the frozen leg (engine.py:430).

## 6. Not modelled

- Monitor, Telegram, configuration: no state of the hedge. The dashboard reads
  `state.json` and writes nothing the engine reads.
- The diagnostics of the command line (reconcile, preflight, probe-quote, dump,
  cancel-test): they write no state of the engine.
- Economics and pricing: Decimal arithmetic whose results are choices here.
- variational_client: one GET; that it fails or lacks a field is a choice of
  TradingSession and LiveGate.
- The executor's sizes from prices, signing, nonces, tokens.

## 7. Plan

Done: the executor with NoDoubleHedge; the engine with its first four theorems, its
liveness and RoundLifecycle with its refinement; MarketHours and TradingSession;
FundingGate and LiveGate, the file under two writers; VenueCalls;
and, proved for every value of the constants, all of their invariants and action
properties, under the hypotheses of section 4.

Left, in this order:

1. NeverStacks and BookedMeansClosed with late orders, as far as they hold: a round
   that never met one keeps both.
2. How an open failed, for ExecutorRound: a NakedLegError names the leg that is on.
3. That Venues' reads and orders are what VenueCalls' calls return, as a refinement.
