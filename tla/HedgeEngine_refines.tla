-------------------------- MODULE HedgeEngine_refines --------------------------
(***************************************************************************)
(* HedgeEngine implements RoundLifecycle, for every value of the constants:*)
(* a state maps to its mode, its halt and the executor's call in progress  *)
(* (Working), and every step of the engine, the executor, the venues, a    *)
(* crash or the operator maps to one action of the lifecycle or to none.   *)
(* The mapping needs IInv: which mode each place of the code runs in, that *)
(* the executor is idle outside its two calls, and that a latched HALT     *)
(* finds the engine nowhere inside a round.                                *)
(***************************************************************************)
EXTENDS HedgeEngine_proofs

\* Where no call is under way, of both states.
Calm == Working = "none" /\ Working' = "none"

Stays == UNCHANGED <<mode, halt>> /\ UNCHANGED Working

\* A step of the lifecycle, or a stutter.
Mapped == Life!LifeNext \/ UNCHANGED Life!lifeVars

LEMMA StaysIsMapped ==
    ASSUME Stays
    PROVE  Mapped
BY Zenon DEF Stays, Mapped, Life!lifeVars

\* The executor works only where the engine waits for it.
LEMMA WorkingPlaces ==
    ASSUME IInv, epc \notin {"opening", "closing"} \/ pc = "idle"
    PROVE  Working = "none"
BY Zenon DEF Working

LEMMA NotWorkingNext ==
    ASSUME epc' \notin {"opening", "closing"} \/ pc' = "idle"
    PROVE  Working' = "none"
BY Zenon DEF Working

-----------------------------------------------------------------------------
\* What a latch, an operator's command or a step between two calls maps to.
LEMMA LatchMapped ==
    ASSUME Calm, UNCHANGED mode, halt' = TRUE
    PROVE  Mapped
<1>1. Life!SetHalt
  BY Zenon DEF Calm, Life!SetHalt
<1> QED
  BY <1>1, Zenon DEF Mapped, Life!LifeNext, Life!LifeStep

LEMMA MoveMapped ==
    ASSUME Calm, ~halt, UNCHANGED halt, Asked
    PROVE  Mapped
<1> USE DEF Calm, Life!Moves
<1>1. CASE mode = "IDLE" /\ mode' = "ENTERING"
  <2>1. Life!BeginEntry
    BY <1>1, Zenon DEF Life!BeginEntry
  <2> QED
    BY <2>1, Zenon DEF Mapped, Life!LifeNext, Life!LifeStep
<1>2. CASE mode = "ENTERING" /\ mode' \in {"HOLDING", "IDLE", "COOLDOWN"}
  <2>1. Life!ConfirmHold \/ Life!AbortEntry \/ Life!RollBackEntry
    BY <1>2, Zenon DEF Life!ConfirmHold, Life!AbortEntry, Life!RollBackEntry
  <2> QED
    BY <2>1, Zenon DEF Mapped, Life!LifeNext, Life!LifeStep
<1>3. CASE mode = "HOLDING" /\ mode' = "EXITING"
  <2>1. Life!BeginExit
    BY <1>3, Zenon DEF Life!BeginExit
  <2> QED
    BY <2>1, Zenon DEF Mapped, Life!LifeNext, Life!LifeStep
<1>4. CASE mode = "EXITING" /\ mode' = "COOLDOWN"
  <2>1. Life!FinishExit
    BY <1>4, Zenon DEF Life!FinishExit
  <2> QED
    BY <2>1, Zenon DEF Mapped, Life!LifeNext, Life!LifeStep
<1>5. CASE mode = "COOLDOWN" /\ mode' = "IDLE"
  <2>1. Life!LeaveCooldown
    BY <1>5, Zenon DEF Life!LeaveCooldown
  <2> QED
    BY <2>1, Zenon DEF Mapped, Life!LifeNext, Life!LifeStep
<1> QED
  BY <1>1, <1>2, <1>3, <1>4, <1>5, Zenon DEF Asked

\* A call that begins: with its phase, or again in it.
LEMMA OpenMapped ==
    ASSUME Working = "none", Working' = "open", ~halt, UNCHANGED halt,
           mode = "IDLE", mode' = "ENTERING"
    PROVE  Mapped
<1>1. Life!BeginEntry
  BY Zenon DEF Life!BeginEntry, Life!Moves
<1> QED
  BY <1>1, Zenon DEF Mapped, Life!LifeNext, Life!LifeStep

LEMMA CloseMapped ==
    ASSUME Working = "none", Working' = "close", ~halt, UNCHANGED halt,
           mode \in {"HOLDING", "EXITING"}, mode' = "EXITING"
    PROVE  Mapped
<1>1. Life!BeginExit \/ Life!RetryExit
  BY Zenon DEF Life!BeginExit, Life!RetryExit, Life!Moves
<1> QED
  BY <1>1, Zenon DEF Mapped, Life!LifeNext, Life!LifeStep

LEMMA EndMapped ==
    ASSUME UNCHANGED <<mode, halt>>, Working' \in {Working, "none"}
    PROVE  Mapped
<1>1. CASE Working' = Working
  BY <1>1, StaysIsMapped, Zenon DEF Stays
<1>2. CASE Working' # Working
  <2>1. Life!CallEnds
    BY <1>2, Zenon DEF Life!CallEnds
  <2> QED
    BY <2>1, Zenon DEF Mapped, Life!LifeNext
<1> QED
  BY <1>1, <1>2, Zenon

-----------------------------------------------------------------------------
\* The steps of the engine.  Outside its two waits the executor is idle, so
\* most of them are a stutter, a latch or a move between two calls.
LEMMA Between ==
    ASSUME epc \notin {"opening", "closing"}, epc' \notin {"opening", "closing"}
    PROVE  Calm
BY Zenon DEF Calm, Working

\* A step between two calls that leaves mode and halt alone.
LEMMA StillMapped ==
    ASSUME Calm, UNCHANGED <<mode, halt>>
    PROVE  Mapped
BY StaysIsMapped, Zenon DEF Calm, Stays

LEMMA StutterSteps ==
    ASSUME IInv, \/ Arm \/ MakerProbe \/ MakerProven \/ TickBegin \/ NoTrading
                 \/ ConfirmLegs \/ ConfirmShadow \/ FinishLedger \/ FinishSave \/ ClearLegs
    PROVE  Mapped
<1>1. UNCHANGED <<mode, halt>>
  BY Zenon DEF Arm, MakerProbe, MakerProven, TickBegin, NoTrading, ConfirmLegs,
     ConfirmShadow, FinishLedger, FinishSave, ClearLegs, SameFile, SameRound
<1>2. epc \in {"arm", "probe", "proven", "tick", "fetch", "confirm2", "confirm3",
               "finish2", "finish3", "aborted", "recovered"}
  BY Zenon DEF Arm, MakerProbe, MakerProven, TickBegin, NoTrading, ConfirmLegs,
     ConfirmShadow, FinishLedger, FinishSave, ClearLegs, In
<1>3. CASE FinishSave
  <2>1. epc' \in {"tick", "fetch", "ddhalt"}
    BY <1>3, Zenon DEF FinishSave, To, IInv, EngineInv, EngineTypeOK, Returns
  <2> QED
    BY <1>1, <1>2, <2>1, Between, StillMapped, SMT
<1>4. CASE ~FinishSave
  <2>1. epc' \in {"startup", "proven", "tick", "recover", "fetch", "confirm3", "finish3"}
    BY <1>4, Zenon DEF Arm, MakerProbe, MakerProven, TickBegin, NoTrading, ConfirmLegs,
       ConfirmShadow, FinishLedger, ClearLegs, To
  <2> QED
    BY <1>1, <1>2, <2>1, Between, StillMapped, SMT
<1> QED
  BY <1>3, <1>4

LEMMA LatchSteps ==
    ASSUME IInv, \/ StartupHalt \/ RecoverHalt \/ DrawdownHalt \/ GateHalt
                 \/ IdleCheck \/ RollBack \/ LiveNaked
    PROVE  Mapped
<1>1. Calm
  <2>1. CASE StartupHalt \/ RecoverHalt \/ DrawdownHalt \/ GateHalt \/ IdleCheck \/ RollBack
    <3>1. epc \in {"startup", "recover", "ddhalt", "gate", "idle", "orders"}
      BY <2>1, Zenon DEF StartupHalt, RecoverHalt, DrawdownHalt, GateHalt, IdleCheck,
         RollBack, In
    <3>2. epc' \in {"tick", "probe", "fetch", "entry", "aborted"}
      BY <2>1, Zenon DEF StartupHalt, RecoverHalt, DrawdownHalt, GateHalt, IdleCheck,
         RollBack, LeaveEntry, Latch, To
    <3> QED
      BY <3>1, <3>2, Between, SMT
  <2>2. CASE LiveNaked
    <3>1. pc = "idle" /\ pc' = "idle"
      BY <2>2, Zenon DEF LiveNaked, Forget
    <3> QED
      BY <3>1, WorkingPlaces, NotWorkingNext, Zenon DEF Calm
  <2> QED
    BY <2>1, <2>2
<1>2. \/ UNCHANGED <<mode, halt>>
      \/ UNCHANGED mode /\ halt' = TRUE
      \/ RollBack /\ mode' = "COOLDOWN" /\ UNCHANGED halt
  BY Zenon DEF StartupHalt, RecoverHalt, DrawdownHalt, GateHalt, IdleCheck, RollBack,
     LiveNaked, LeaveEntry, Latch, SetHalt, SameFile, SameRound
<1>3. CASE RollBack /\ mode' = "COOLDOWN" /\ UNCHANGED halt
  <2>1. ~halt /\ mode = "ENTERING"
    BY <1>3, SMT DEF IInv, EngineInv, Control, Frozen, RollBack, In
  <2> QED
    BY <1>1, <1>3, <2>1, MoveMapped, Zenon DEF Asked
<1> QED
  BY <1>1, <1>2, <1>3, LatchMapped, StillMapped, Zenon

\* Where no HALT is latched the engine may move the round.
LEMMA MoveSteps ==
    ASSUME IInv, \/ RecoverFlat \/ Decide \/ Entry \/ ShadowFilled \/ LiveFilled
                 \/ LiveFailed \/ ShadowClosed \/ LiveClosed
    PROVE  Mapped
<1>1. CASE RecoverFlat \/ Decide \/ Entry \/ ShadowFilled \/ ShadowClosed
  <2>1. epc \in {"recover", "fetch", "entry", "shadowfill", "closed"}
    BY <1>1, Zenon DEF RecoverFlat, Decide, Entry, ShadowFilled, ShadowClosed, In
  <2>2. epc' \in {"fetch", "recovered", "finish2", "idle", "hold", "tick", "shadowfill", "gate", "confirm2"}
    BY <1>1, Zenon DEF RecoverFlat, Decide, Entry, ShadowFilled, ShadowClosed, Holding,
       LeaveEntry, FinishExit, To
  <2>3. Calm
    BY <2>1, <2>2, Between, SMT
  <2>4. ~halt
    <3>1. CASE Decide
      BY <3>1, Zenon DEF Decide
    <3>2. CASE ~Decide
      <4>1. epc \in {"recover", "entry", "shadowfill", "closed"}
        BY <1>1, <3>2, Zenon DEF RecoverFlat, Entry, ShadowFilled, ShadowClosed, In
      <4> QED
        BY <4>1, SMT DEF IInv, EngineInv, Frozen
    <3> QED
      BY <3>1, <3>2
  <2>5. UNCHANGED halt
    BY <1>1, Zenon DEF RecoverFlat, Decide, Entry, ShadowFilled, ShadowClosed, Holding,
       LeaveEntry, FinishExit
  <2>6. Asked \/ UNCHANGED mode
    <3>1. CASE RecoverFlat
      <4>1. mode \in {"ENTERING", "EXITING"}
        BY <3>1, Zenon DEF IInv, EngineInv, Control, RecoverFlat, In
      <4>2. IF mode = "ENTERING" THEN mode' = "IDLE" ELSE mode' = "COOLDOWN"
        BY <3>1, Zenon DEF RecoverFlat, LeaveEntry, FinishExit
      <4> QED
        BY <4>1, <4>2, SMT DEF Asked
    <3>2. CASE Decide \/ Entry
      BY <3>2, Zenon DEF IInv, EngineInv, Control, Decide, Entry, In, Asked
    <3>3. CASE ShadowFilled \/ ShadowClosed
      BY <3>3, SMT DEF IInv, EngineInv, Control, ShadowFilled, ShadowClosed, Holding,
         FinishExit, In, Asked
    <3> QED
      BY <1>1, <3>1, <3>2, <3>3
  <2> QED
    BY <2>3, <2>4, <2>5, <2>6, MoveMapped, StillMapped, Zenon
<1>2. CASE LiveFilled \/ LiveFailed \/ LiveClosed
  <2>1. Calm
    <3>1. pc = "idle" /\ pc' = "idle"
      BY <1>2, Zenon DEF LiveFilled, LiveFailed, LiveClosed, Holding, Forget, NoCall,
         NoExec, execVars
    <3> QED
      BY <3>1, WorkingPlaces, NotWorkingNext, Zenon DEF Calm
  <2>2. ~halt
    BY <1>2, SMT DEF IInv, EngineInv, Frozen, LiveFilled, LiveFailed, LiveClosed, In
  <2>3. \/ UNCHANGED mode /\ halt' = TRUE
        \/ Asked /\ UNCHANGED halt
    <3>1. CASE LiveFilled
      BY <3>1, Zenon DEF IInv, EngineInv, Control, LiveFilled, Holding, In, Asked
    <3>2. CASE LiveFailed
      BY <3>2, Zenon DEF IInv, EngineInv, Control, LiveFailed, LeaveEntry, In, Asked
    <3>3. CASE LiveClosed
      BY <3>3, Zenon DEF IInv, EngineInv, Control, LiveClosed, FinishExit, Latch, SetHalt,
         SameRound, In, Asked
    <3> QED
      BY <1>2, <3>1, <3>2, <3>3
  <2> QED
    BY <2>1, <2>2, <2>3, MoveMapped, LatchMapped, Zenon
<1> QED
  BY <1>1, <1>2

LEMMA GateOpenMapped ==
    ASSUME IInv, GateOpen
    PROVE  Mapped
<1>1. mode = "IDLE" /\ mode' = "ENTERING" /\ ~halt /\ UNCHANGED halt /\ epc = "gate"
  BY SMT DEF IInv, EngineInv, Control, Frozen, GateOpen, In
<1>2. Working = "none"
  BY <1>1, WorkingPlaces, SMT
<1>3. Working' = "open"
  BY SMT DEF GateOpen, Called, To, Working
<1> QED
  BY <1>1, <1>2, <1>3, OpenMapped, Zenon

\* A way out of a round: on paper or held back, or with a call.
LEMMA CloseAndFinishMapped ==
    ASSUME IInv, epc \notin {"opening", "closing"}, ~halt, UNCHANGED halt,
           mode \in {"HOLDING", "EXITING"}, mode' = "EXITING",
           NEW passive \in BOOLEAN, NEW then \in Returns, CloseAndFinish(passive, then)
    PROVE  Mapped
<1>1. Working = "none"
  BY WorkingPlaces, Zenon
<1>2. CASE Called("close", passive) /\ epc' = "closing"
  <2>1. Working' = "close"
    BY <1>2, SMT DEF Called, Working
  <2> QED
    BY <1>1, <2>1, CloseMapped, Zenon
<1>3. CASE epc' \in {then, "closed"}
  <2>1. epc' \notin {"opening", "closing"}
    BY <1>3, SMT DEF Returns
  <2>2. Calm
    BY <2>1, Between, Zenon
  <2>3. Asked \/ UNCHANGED mode
    BY Zenon DEF Asked
  <2> QED
    BY <2>2, <2>3, MoveMapped, StillMapped, Zenon
<1> QED
  BY <1>2, <1>3, Zenon DEF CloseAndFinish

LEMMA DoExitMapped ==
    ASSUME IInv, epc \notin {"opening", "closing"}, ~halt, mode = "HOLDING",
           NEW passive \in BOOLEAN, NEW then \in Returns, DoExit(passive, then)
    PROVE  Mapped
<1>1. CASE ~shadow /\ armed
  <2>1. epc' = then /\ UNCHANGED mode /\ halt' = TRUE
    BY <1>1, Zenon DEF DoExit, SetHalt, To
  <2>2. epc' \notin {"opening", "closing"}
    BY <2>1, SMT DEF Returns
  <2>3. Calm
    BY <2>2, Between, Zenon
  <2> QED
    BY <2>1, <2>3, LatchMapped, Zenon
<1>2. CASE ~(~shadow /\ armed)
  <2>1. CloseAndFinish(passive, then) /\ mode' = "EXITING" /\ UNCHANGED halt
    BY <1>2, Zenon DEF DoExit
  <2> QED
    BY <2>1, CloseAndFinishMapped, Zenon
<1> QED
  BY <1>1, <1>2

LEMMA ExitSteps ==
    ASSUME IInv, RecoverShadow \/ RecoverResume \/ Drawdown \/ Hold
    PROVE  Mapped
<1>1. epc \in {"recover", "fetch", "hold"} /\ ~halt
  <2>1. \/ epc \in {"recover", "hold"}
        \/ epc = "fetch" /\ ~halt
    BY Zenon DEF RecoverShadow, RecoverResume, Drawdown, Hold, In
  <2> QED
    BY <2>1, SMT DEF IInv, EngineInv, Frozen
<1>2. epc \notin {"opening", "closing"}
  BY <1>1, SMT
<1>3. "tick" \in Returns /\ "fetch" \in Returns /\ "ddhalt" \in Returns
      /\ TRUE \in BOOLEAN /\ FALSE \in BOOLEAN
  BY Zenon DEF Returns
<1>4. CASE RecoverShadow /\ mode = "ENTERING"
  <2>1. mode' = "IDLE" /\ UNCHANGED halt /\ epc' = "recovered"
    BY <1>4, Zenon DEF RecoverShadow, LeaveEntry, To
  <2>2. Calm
    BY <1>2, <2>1, Between, SMT
  <2> QED
    BY <1>1, <1>4, <2>1, <2>2, MoveMapped, Zenon DEF Asked
<1>5. CASE (RecoverShadow /\ mode # "ENTERING") \/ RecoverResume
  <2>1. mode = "EXITING"
    <3>1. CASE RecoverResume
      BY <3>1, Zenon DEF RecoverResume
    <3>2. CASE RecoverShadow /\ mode # "ENTERING"
      BY <3>2, SMT DEF IInv, EngineInv, Control, RecoverShadow, In
    <3> QED
      BY <1>5, <3>1, <3>2
  <2>2. CloseAndFinish(FALSE, "fetch") /\ UNCHANGED <<mode, halt>>
    BY <1>5, Zenon DEF RecoverShadow, RecoverResume, SameFile, SameRound
  <2>3. mode' = "EXITING" /\ UNCHANGED halt /\ mode \in {"HOLDING", "EXITING"}
    BY <2>1, <2>2, Zenon
  <2> QED
    BY <1>1, <1>2, <1>3, <2>2, <2>3, CloseAndFinishMapped, Zenon
<1>6. CASE Drawdown
  <2>1. CASE mode = "HOLDING"
    <3>1. DoExit(FALSE, "ddhalt")
      BY <1>6, <2>1, Zenon DEF Drawdown
    <3> QED
      BY <1>1, <1>2, <1>3, <2>1, <3>1, DoExitMapped, Zenon
  <2>2. CASE mode # "HOLDING"
    <3>1. UNCHANGED mode /\ halt' = TRUE /\ epc' = "tick"
      BY <1>6, <2>2, Zenon DEF Drawdown, Latch, SetHalt, SameRound, To
    <3>2. Calm
      BY <1>2, <3>1, Between, SMT
    <3> QED
      BY <3>1, <3>2, LatchMapped, Zenon
  <2> QED
    BY <2>1, <2>2
<1>7. CASE Hold
  <2>1. mode = "HOLDING"
    BY <1>7, SMT DEF IInv, EngineInv, Control, Hold, In
  <2>2. \/ To("tick") /\ SameFile
        \/ \E passive \in BOOLEAN : DoExit(passive, "tick")
    BY <1>3, <1>7, Zenon DEF Hold, Watchdog, CheckSingleLeg, HoldOn
  <2>3. CASE To("tick") /\ SameFile
    <3>1. UNCHANGED <<mode, halt>> /\ epc' = "tick"
      BY <2>3, Zenon DEF To, SameFile, SameRound
    <3>2. Calm
      BY <1>2, <3>1, Between, SMT
    <3> QED
      BY <3>1, <3>2, StillMapped, Zenon
  <2>4. CASE \E passive \in BOOLEAN : DoExit(passive, "tick")
    BY <1>1, <1>2, <1>3, <2>1, <2>4, DoExitMapped, Zenon
  <2> QED
    BY <2>2, <2>3, <2>4
<1> QED
  BY <1>4, <1>5, <1>6, <1>7

LEMMA EngineStepMapped ==
    ASSUME IInv, EngineStep
    PROVE  Mapped
BY StutterSteps, LatchSteps, MoveSteps, GateOpenMapped, ExitSteps, Zenon DEF EngineStep

-----------------------------------------------------------------------------
\* The executor works at a call until it returns; it does not start one.
LEMMA ExecutorMapped ==
    ASSUME Executor
    PROVE  Mapped
<1>1. UNCHANGED <<mode, halt, epc>> /\ epc \in {"opening", "closing"}
  BY Zenon DEF Executor, engineVars, fileVars
<1>2. pc # "idle"
  BY Zenon DEF Executor, ExecStep, At, Baseline, CloseNothing, Submit, Confirm, RetryClose,
     MakerQuote, MakerWait, MakerCancel, MakerVerify, Sweep, ReadPrices, CheckOrders,
     PullOrders, FlattenVar, FlattenDust
<1>3. Working' \in {Working, "none"}
  BY <1>1, <1>2, Zenon DEF Working
<1> QED
  BY <1>1, <1>3, EndMapped, Zenon

\* A venue, a start, a flattening by hand, a new day and a stutter are none of
\* the lifecycle's; a crash ends a call.
LEMMA OutsideMapped ==
    ASSUME IInv, VenueActs \/ Start \/ Down \/ Flatten \/ NewDay \/ UNCHANGED vars
    PROVE  Mapped
<1>1. UNCHANGED <<mode, halt>>
  BY Zenon DEF VenueActs, Start, Down, Flatten, NewDay, vars, engineVars, fileVars,
     SameFile, SameRound
<1>2. Working' \in {Working, "none"}
  <2>1. CASE VenueActs \/ Flatten \/ NewDay \/ UNCHANGED vars
    <3>1. UNCHANGED <<pc, epc>>
      BY <2>1, Zenon DEF VenueActs, Flatten, NewDay, vars, engineVars, execVars, NoCall,
         NoExec
    <3> QED
      BY <3>1, Zenon DEF Working
  <2>2. CASE Start \/ Down
    <3>1. epc' \in {"arm", "down"}
      BY <2>2, Zenon DEF Start, Down, To
    <3> QED
      BY <3>1, NotWorkingNext, SMT
  <2> QED
    BY <2>1, <2>2
<1> QED
  BY <1>1, <1>2, EndMapped, Zenon

LEMMA OperatorMapped ==
    ASSUME IInv, ClearHalt \/ ClearCooldown
    PROVE  Mapped
<1>1. Calm
  BY Between, SMT DEF ClearHalt, ClearCooldown, In
<1>2. CASE ClearHalt
  <2>1. Life!ClearHalt
    BY <1>1, <1>2, Zenon DEF ClearHalt, SameRound, Calm, Life!ClearHalt
  <2> QED
    BY <2>1, Zenon DEF Mapped, Life!LifeNext, Life!OperatorStep
<1>3. CASE ClearCooldown
  <2>1. Life!ForceLeaveCooldown
    BY <1>1, <1>3, Zenon DEF ClearCooldown, Calm, Life!ForceLeaveCooldown
  <2> QED
    BY <2>1, Zenon DEF Mapped, Life!LifeNext, Life!OperatorStep
<1> QED
  BY <1>2, <1>3

LEMMA InitMapped == Init => Life!LifeInit
BY Zenon DEF Init, ExecInit, Working, Life!LifeInit

LEMMA StepMapped == IInv /\ [Next]_vars => [Life!LifeNext]_(Life!lifeVars)
<1> SUFFICES ASSUME IInv, [Next]_vars PROVE Mapped
  BY Zenon DEF Mapped
<1> QED
  BY EngineStepMapped, ExecutorMapped, OutsideMapped, OperatorMapped, Zenon
     DEF Next, Operator

\* Whatever the venues answer and wherever the process dies, the engine stays
\* within the lifecycle that state_machine.py promises: no transition out of
\* order, none under a HALT, none while the executor works, and no call of it
\* outside its phase.
THEOREM RefinesLifecycle == Spec => StaysInLifecycle
<1>1. Init => Life!LifeInit
  BY InitMapped
<1>2. IInv /\ [Next]_vars => [Life!LifeNext]_(Life!lifeVars)
  BY StepMapped
<1> QED
  BY <1>1, <1>2, Invariance, PTL DEF Spec, StaysInLifecycle, Life!LifeSafety
================================================================================
