-------------------------- MODULE HedgeEngine_proofs --------------------------
(***************************************************************************)
(* What TLAPS proves of HedgeEngine, for every size of a round, lot step,  *)
(* fault set, bound and period.  Four inductive invariants carry it:       *)
(* - IInv says, beside the types, which mode each place of the engine's    *)
(*   code runs in (Control), where the executor and its outcome are live   *)
(*   (Calls), that no live round is half managed (Managed), and where a    *)
(*   latched HALT may find the engine (Frozen);                            *)
(* - BookInv follows the legs in the file from their round to the books;   *)
(* - StackInv follows Variational's opening orders, where none is late;    *)
(* - Bookable follows the quantity of a round on Variational from its open *)
(*   to its booking, where orders come neither late nor in pieces.         *)
(***************************************************************************)
EXTENDS HedgeEngine, LiveExecutor_proofs

\* The mode of the file at each place between two writes.
Control ==
    /\ epc \in {"idle", "entry", "gate"} => mode = "IDLE"
    /\ epc \in {"shadowfill", "opening", "orders"} => mode = "ENTERING"
    /\ epc \in {"confirm2", "confirm3", "hold"} => mode = "HOLDING"
    /\ epc \in {"closing", "closed"} => mode = "EXITING"
    /\ epc \in {"finish2", "finish3"} => mode = "COOLDOWN"
    /\ epc = "recover" => mode \in {"ENTERING", "EXITING"}
    /\ epc \in {"shadowfill", "gate", "opening", "confirm2"} => round < MaxRounds

\* The executor runs, and what it returned is kept, only where the engine
\* waits for it; a call is made, and its legs are booked, with the guard down.
Calls ==
    /\ epc \notin {"opening", "closing"} => pc = "idle"
    /\ epc \notin {"opening", "closing", "confirm2", "confirm3"} => res = "none"
    /\ epc \in {"gate", "opening", "closing"} => ~armed
    /\ res = "filled" => ~armed

\* Past the startup check and outside the writes that name a new round, a
\* live active round with the guard up has a HALT latched.
Managed ==
    epc \notin {"down", "arm", "startup", "shadowfill", "confirm2", "confirm3"} =>
        (armed /\ ~shadow /\ mode \in Active => halt)

\* A latched HALT finds the engine nowhere inside a round.
Frozen ==
    halt => epc \in {"down", "arm", "startup", "probe", "proven", "tick",
                     "fetch", "ddhalt"}

EngineInv == EngineTypeOK /\ Control /\ Calls /\ Managed /\ Frozen
IInv == ExecInv /\ EngineInv

-----------------------------------------------------------------------------
\* An engine step that makes no call keeps the executor's invariant, as long
\* as no call is under way if it changes the ledger.
LEMMA NoExecKeeps ==
    ASSUME ExecInv, NoExec, VenueTypeOK',
           armed' \in BOOLEAN, maker' \in BOOLEAN, legs' \in [Venue -> Nat],
           pc = "idle" \/ UNCHANGED legs
    PROVE  ExecInv'
BY SMT DEF ExecInv, ExecTypeOK, ExecShape, NoExec, execVars

LEMMA NoVenueKeeps ==
    ASSUME VenueTypeOK, NoVenue
    PROVE  VenueTypeOK'
BY Zenon DEF VenueTypeOK, NoVenue, venueVars

\* The ledger's legs stay quantities when a round is cleared.
LEMMA NoLegsTyped == NoLegs \in [Venue -> Nat]
BY SMT DEF NoLegs, Flat, Venue

-----------------------------------------------------------------------------
\* The process: coming up and the maker preflight.
LEMMA StartKeeps ==
    ASSUME IInv, Start
    PROVE  IInv'
<1> USE DEF IInv, EngineInv, EngineTypeOK, Control, Calls, Managed, Frozen
<1>1. ExecInv'
  BY NoExecKeeps, NoVenueKeeps, Zenon
     DEF ExecInv, ExecTypeOK, Start, NoCall, SameRound
<1>2. EngineTypeOK'
  <2>1. idle' \in 0 .. IdleEvery - 1 /\ streak' \in 0 .. FailStreak
    BY EngineAssumption, SMT DEF Start
  <2> QED
    BY <2>1, Zenon DEF Start, To, SameRound, Epcs
<1>3. (Control /\ Calls /\ Managed /\ Frozen)'
  BY SMT DEF Start, In, To, SameRound, NoCall, NoExec, execVars
<1> QED
  BY <1>1, <1>2, <1>3

LEMMA ArmKeeps ==
    ASSUME IInv, Arm
    PROVE  IInv'
<1> USE DEF IInv, EngineInv, EngineTypeOK, Control, Calls, Managed, Frozen
<1>1. ExecInv'
  BY NoExecKeeps, NoVenueKeeps, Zenon
     DEF ExecInv, ExecTypeOK, Arm, NoCall, SameFile, SameRound
<1>2. EngineInv'
  BY SMT DEF Arm, In, To, SameFile, SameRound, SameBook, SameCounts, NoCall,
     NoExec, execVars, Epcs
<1> QED
  BY <1>1, <1>2

LEMMA StartupHaltKeeps ==
    ASSUME IInv, StartupHalt
    PROVE  IInv'
<1> USE DEF IInv, EngineInv, EngineTypeOK, Control, Calls, Managed, Frozen
<1>1. ExecInv'
  BY NoExecKeeps, NoVenueKeeps, Zenon
     DEF ExecInv, ExecTypeOK, StartupHalt, NoCall, SameFile, SameRound, SameProcess, Latch
<1>2. EngineTypeOK'
  BY Zenon DEF StartupHalt, To, Latch, SetHalt, SameFile, SameRound, SameBook,
     SameCounts, SameProcess, Epcs
<1>3. (Control /\ Calls /\ Managed /\ Frozen)'
  BY SMT DEF StartupHalt, In, To, Latch, SetHalt, Unmanageable, SameFile, SameRound,
     SameProcess, NoCall, NoExec, execVars
<1> QED
  BY <1>1, <1>2, <1>3

LEMMA TickBeginKeeps ==
    ASSUME IInv, TickBegin
    PROVE  IInv'
<1> USE DEF IInv, EngineInv, EngineTypeOK, Control, Calls, Managed, Frozen
<1>1. ExecInv'
  BY NoExecKeeps, NoVenueKeeps, NoLegsTyped, Zenon
     DEF ExecInv,
     ExecTypeOK, TickBegin, In, NoCall, SameFile, SameRound, SameProcess
<1>2. EngineTypeOK'
  BY Zenon DEF TickBegin, To, SameFile, SameRound, SameBook, SameProcess,
     SameCounts, Mode, Epcs
<1>3. (Control /\ Calls /\ Managed /\ Frozen)'
  BY SMT DEF TickBegin, In, To, NoCall, NoExec, SameFile, SameRound,
     SameProcess, execVars, Active, Mode
<1> QED
  BY <1>1, <1>2, <1>3

LEMMA RecoverHaltKeeps ==
    ASSUME IInv, RecoverHalt
    PROVE  IInv'
<1> USE DEF IInv, EngineInv, EngineTypeOK, Control, Calls, Managed, Frozen
<1>1. ExecInv'
  BY NoExecKeeps, NoVenueKeeps, NoLegsTyped, Zenon
     DEF ExecInv,
     ExecTypeOK, RecoverHalt, In, Latch, SameRound, NoCall, SameProcess
<1>2. EngineTypeOK'
  BY Zenon DEF RecoverHalt, Latch, SetHalt, SameRound, SameBook, To,
     SameProcess, SameCounts, Mode, Epcs
<1>3. (Control /\ Calls /\ Managed /\ Frozen)'
  BY SMT DEF RecoverHalt, In, Latch, SetHalt, SameRound, To, NoCall, NoExec,
     SameProcess, execVars, Active, Mode
<1> QED
  BY <1>1, <1>2, <1>3

LEMMA RecoverFlatKeeps ==
    ASSUME IInv, RecoverFlat
    PROVE  IInv'
<1> USE DEF IInv, EngineInv, EngineTypeOK, Control, Calls, Managed, Frozen
<1>1. ExecInv'
  BY NoExecKeeps, NoVenueKeeps, NoLegsTyped, Zenon
     DEF ExecInv,
     ExecTypeOK, RecoverFlat, In, LeaveEntry, FinishExit, NoCall, SameProcess
<1>2. EngineTypeOK'
  BY Zenon DEF RecoverFlat, LeaveEntry, SameBook, To, FinishExit, SameProcess,
     SameCounts, Mode, Epcs, Returns
<1>3. (Control /\ Calls /\ Managed /\ Frozen)'
  BY SMT DEF RecoverFlat, In, LeaveEntry, To, FinishExit, NoCall, NoExec,
     SameProcess, execVars, Active, Mode
<1> QED
  BY <1>1, <1>2, <1>3

LEMMA NoTradingKeeps ==
    ASSUME IInv, NoTrading
    PROVE  IInv'
<1> USE DEF IInv, EngineInv, EngineTypeOK, Control, Calls, Managed, Frozen
<1>1. ExecInv'
  BY NoExecKeeps, NoVenueKeeps, NoLegsTyped, Zenon
     DEF ExecInv,
     ExecTypeOK, NoTrading, In, NoCall, SameFile, SameRound, SameProcess
<1>2. EngineTypeOK'
  BY Zenon DEF NoTrading, To, SameFile, SameRound, SameBook, SameProcess,
     SameCounts, Mode, Epcs
<1>3. (Control /\ Calls /\ Managed /\ Frozen)'
  BY SMT DEF NoTrading, In, To, NoCall, NoExec, SameFile, SameRound,
     SameProcess, execVars, Active, Mode
<1> QED
  BY <1>1, <1>2, <1>3

LEMMA DrawdownHaltKeeps ==
    ASSUME IInv, DrawdownHalt
    PROVE  IInv'
<1> USE DEF IInv, EngineInv, EngineTypeOK, Control, Calls, Managed, Frozen
<1>1. ExecInv'
  BY NoExecKeeps, NoVenueKeeps, NoLegsTyped, Zenon
     DEF ExecInv,
     ExecTypeOK, DrawdownHalt, In, Latch, SameRound, NoCall, SameProcess
<1>2. EngineTypeOK'
  BY Zenon DEF DrawdownHalt, Latch, SetHalt, SameRound, SameBook, To,
     SameProcess, SameCounts, Mode, Epcs
<1>3. (Control /\ Calls /\ Managed /\ Frozen)'
  BY SMT DEF DrawdownHalt, In, Latch, SetHalt, SameRound, To, NoCall, NoExec,
     SameProcess, execVars, Active, Mode
<1> QED
  BY <1>1, <1>2, <1>3

LEMMA DecideKeeps ==
    ASSUME IInv, Decide
    PROVE  IInv'
<1> USE DEF IInv, EngineInv, EngineTypeOK, Control, Calls, Managed, Frozen
<1>1. ExecInv'
  BY NoExecKeeps, NoVenueKeeps, NoLegsTyped, Zenon
     DEF ExecInv,
     ExecTypeOK, Decide, In, NoCall, SameProcess
<1>2. EngineTypeOK'
  BY Zenon DEF Decide, To, SameBook, SameProcess, SameCounts, Mode, Epcs
<1>3. (Control /\ Calls /\ Managed /\ Frozen)'
  BY SMT DEF Decide, In, To, NoCall, NoExec, SameProcess, execVars, Active,
     Mode
<1> QED
  BY <1>1, <1>2, <1>3

LEMMA IdleCheckKeeps ==
    ASSUME IInv, IdleCheck
    PROVE  IInv'
<1> USE DEF IInv, EngineInv, EngineTypeOK, Control, Calls, Managed, Frozen
<1>1. ExecInv'
  BY NoExecKeeps, NoVenueKeeps, NoLegsTyped, Zenon
     DEF ExecInv,
     ExecTypeOK, IdleCheck, In, Latch, SameRound, SameFile, NoCall,
     SameProcess
<1>2. EngineTypeOK'
  <2>1. idle' \in 0 .. IdleEvery - 1
    BY EngineAssumption, SMT DEF IdleCheck
  <2> QED
    BY <2>1, Zenon DEF IdleCheck, Latch, SetHalt, SameRound, SameBook, To,
       SameFile, SameProcess, Epcs
<1>3. (Control /\ Calls /\ Managed /\ Frozen)'
  BY SMT DEF IdleCheck, In, Latch, SetHalt, SameRound, To, SameFile, NoCall,
     NoExec, SameProcess, execVars, Active, Mode
<1> QED
  BY <1>1, <1>2, <1>3

LEMMA EntryKeeps ==
    ASSUME IInv, Entry
    PROVE  IInv'
<1> USE DEF IInv, EngineInv, EngineTypeOK, Control, Calls, Managed, Frozen
<1>1. ExecInv'
  BY NoExecKeeps, NoVenueKeeps, NoLegsTyped, Zenon
     DEF ExecInv,
     ExecTypeOK, Entry, In, NoCall, SameProcess
<1>2. EngineTypeOK'
  BY Zenon DEF Entry, To, SameBook, SameProcess, SameCounts, Mode, Epcs
<1>3. (Control /\ Calls /\ Managed /\ Frozen)'
  BY SMT DEF Entry, In, To, Live, NoCall, NoExec, SameProcess, execVars,
     Active, Mode
<1> QED
  BY <1>1, <1>2, <1>3

LEMMA GateHaltKeeps ==
    ASSUME IInv, GateHalt
    PROVE  IInv'
<1> USE DEF IInv, EngineInv, EngineTypeOK, Control, Calls, Managed, Frozen
<1>1. ExecInv'
  BY NoExecKeeps, NoVenueKeeps, NoLegsTyped, Zenon
     DEF ExecInv,
     ExecTypeOK, GateHalt, In, Latch, SameRound, NoCall, SameProcess
<1>2. EngineTypeOK'
  BY Zenon DEF GateHalt, Latch, SetHalt, SameRound, SameBook, To, SameProcess,
     SameCounts, Mode, Epcs
<1>3. (Control /\ Calls /\ Managed /\ Frozen)'
  BY SMT DEF GateHalt, In, Latch, SetHalt, SameRound, To, NoCall, NoExec,
     SameProcess, execVars, Active, Mode
<1> QED
  BY <1>1, <1>2, <1>3

LEMMA ShadowFilledKeeps ==
    ASSUME IInv, ShadowFilled
    PROVE  IInv'
<1> USE DEF IInv, EngineInv, EngineTypeOK, Control, Calls, Managed, Frozen
<1>1. ExecInv'
  BY NoExecKeeps, NoVenueKeeps, NoLegsTyped, Zenon
     DEF ExecInv,
     ExecTypeOK, ShadowFilled, In, Holding, NoCall, SameProcess
<1>2. EngineTypeOK'
  BY Zenon DEF ShadowFilled, Holding, To, SameBook, SameProcess, SameCounts,
     Mode, Epcs
<1>3. (Control /\ Calls /\ Managed /\ Frozen)'
  BY SMT DEF ShadowFilled, In, Holding, To, NoCall, NoExec, SameProcess,
     execVars, Active, Mode
<1> QED
  BY <1>1, <1>2, <1>3

LEMMA LiveFilledKeeps ==
    ASSUME IInv, LiveFilled
    PROVE  IInv'
<1> USE DEF IInv, EngineInv, EngineTypeOK, Control, Calls, Managed, Frozen
<1>1. ExecInv'
  BY NoExecKeeps, NoVenueKeeps, NoLegsTyped, Zenon
     DEF ExecInv,
     ExecTypeOK, LiveFilled, In, Holding, NoCall, SameProcess
<1>2. EngineTypeOK'
  BY Zenon DEF LiveFilled, Holding, To, SameBook, SameProcess, SameCounts,
     Mode, Epcs
<1>3. (Control /\ Calls /\ Managed /\ Frozen)'
  BY SMT DEF LiveFilled, In, Holding, To, NoCall, NoExec, SameProcess,
     execVars, Active, Mode
<1> QED
  BY <1>1, <1>2, <1>3

LEMMA RollBackKeeps ==
    ASSUME IInv, RollBack
    PROVE  IInv'
<1> USE DEF IInv, EngineInv, EngineTypeOK, Control, Calls, Managed, Frozen
<1>1. ExecInv'
  BY NoExecKeeps, NoVenueKeeps, NoLegsTyped, Zenon
     DEF ExecInv,
     ExecTypeOK, RollBack, LeaveEntry, In, Latch, SameRound, NoCall, SameProcess
<1>2. EngineTypeOK'
  BY Zenon DEF RollBack, LeaveEntry, Latch, SetHalt, SameRound, SameBook, To, SameProcess,
     SameCounts, Mode, Epcs
<1>3. (Control /\ Calls /\ Managed /\ Frozen)'
  BY SMT DEF RollBack, LeaveEntry, In, Latch, SetHalt, SameRound, To, NoCall, NoExec,
     SameProcess, execVars, Active, Mode
<1> QED
  BY <1>1, <1>2, <1>3

LEMMA ClearLegsKeeps ==
    ASSUME IInv, ClearLegs
    PROVE  IInv'
<1> USE DEF IInv, EngineInv, EngineTypeOK, Control, Calls, Managed, Frozen
<1>0. epc \in {"aborted", "recovered"} /\ epc' \in {"tick", "fetch"}
  BY Zenon DEF ClearLegs, In, To
<1>1. ExecInv'
  <2>1. pc = "idle"
    BY <1>0, SMT
  <2>2. NoExec /\ NoVenue /\ UNCHANGED <<armed, maker>> /\ legs' = NoLegs
    BY Zenon DEF ClearLegs, NoCall, SameProcess
  <2> QED
    BY <2>1, <2>2, NoExecKeeps, NoVenueKeeps, NoLegsTyped, Zenon DEF ExecInv, ExecTypeOK
<1>2. EngineTypeOK'
  BY <1>0, Zenon DEF ClearLegs, SameBook, To, SameProcess, SameCounts, Mode, Epcs
<1>3. (Control /\ Calls /\ Managed /\ Frozen)'
  BY <1>0, SMT DEF ClearLegs, NoCall, NoExec, SameProcess, execVars
<1> QED
  BY <1>1, <1>2, <1>3

LEMMA ConfirmLegsKeeps ==
    ASSUME IInv, ConfirmLegs
    PROVE  IInv'
<1> USE DEF IInv, EngineInv, EngineTypeOK, Control, Calls, Managed, Frozen
<1>1. ExecInv'
  <2>1. Q \in Nat /\ Lots(Q) \in Nat
    BY ExecutorAssumption, VenueAssumption, QuantizeDownNat, SMT DEF Lots
  <2>2. FilledLegs \in [Venue -> Nat]
    BY <2>1, SMT DEF FilledLegs, ExecInv, ExecTypeOK
  <2> QED
    BY <2>2, NoExecKeeps, NoVenueKeeps, Zenon
       DEF ExecInv, ExecTypeOK, ConfirmLegs, In, NoCall, SameProcess
<1>2. EngineTypeOK'
  <2>1. round' \in 0 .. MaxRounds
    BY EngineAssumption, SMT DEF ConfirmLegs, In
  <2> QED
    BY <2>1, Zenon DEF ConfirmLegs, To, SameBook, SameProcess, SameCounts, Epcs
<1>3. (Control /\ Calls /\ Managed /\ Frozen)'
  BY SMT DEF ConfirmLegs, In, To, NoCall, NoExec, SameProcess, execVars,
     Active, Mode
<1> QED
  BY <1>1, <1>2, <1>3

LEMMA ShadowClosedKeeps ==
    ASSUME IInv, ShadowClosed
    PROVE  IInv'
<1> USE DEF IInv, EngineInv, EngineTypeOK, Control, Calls, Managed, Frozen
<1>1. ExecInv'
  BY NoExecKeeps, NoVenueKeeps, NoLegsTyped, Zenon
     DEF ExecInv,
     ExecTypeOK, ShadowClosed, In, FinishExit, NoCall, SameProcess
<1>2. EngineTypeOK'
  BY Zenon DEF ShadowClosed, FinishExit, SameBook, SameProcess, SameCounts,
     Mode, Epcs
<1>3. (Control /\ Calls /\ Managed /\ Frozen)'
  BY SMT DEF ShadowClosed, In, FinishExit, NoCall, NoExec, SameProcess,
     execVars, Active, Mode
<1> QED
  BY <1>1, <1>2, <1>3

LEMMA FinishLedgerKeeps ==
    ASSUME IInv, FinishLedger
    PROVE  IInv'
<1> USE DEF IInv, EngineInv, EngineTypeOK, Control, Calls, Managed, Frozen
<1>1. ExecInv'
  BY NoExecKeeps, NoVenueKeeps, NoLegsTyped, Zenon
     DEF ExecInv,
     ExecTypeOK, FinishLedger, In, NoCall, SameRound, SameProcess
<1>2. EngineTypeOK'
  <2>1. booked' \in [0 .. MaxRounds -> Nat]
    BY SMT DEF FinishLedger
  <2> QED
    BY <2>1, Zenon DEF FinishLedger, To, SameRound, SameProcess, SameCounts, Epcs
<1>3. (Control /\ Calls /\ Managed /\ Frozen)'
  BY SMT DEF FinishLedger, In, To, NoCall, NoExec, SameRound, SameProcess,
     execVars, Active, Mode
<1> QED
  BY <1>1, <1>2, <1>3

LEMMA FinishSaveKeeps ==
    ASSUME IInv, FinishSave
    PROVE  IInv'
<1> USE DEF IInv, EngineInv, EngineTypeOK, Control, Calls, Managed, Frozen
<1>1. ExecInv'
  BY NoExecKeeps, NoVenueKeeps, NoLegsTyped, Zenon
     DEF ExecInv,
     ExecTypeOK, FinishSave, In, NoCall, SameProcess
<1>2. EngineTypeOK'
  BY Zenon DEF FinishSave, To, SameProcess, SameCounts, Epcs, Returns
<1>3. (Control /\ Calls /\ Managed /\ Frozen)'
  <2>1. epc' \in {"tick", "fetch", "ddhalt"} /\ mode' = "COOLDOWN"
    BY Zenon DEF FinishSave, In, To, Returns
  <2> QED
    BY <2>1, SMT DEF FinishSave, In, NoCall, NoExec, SameProcess, execVars, Active
<1> QED
  BY <1>1, <1>2, <1>3

LEMMA ClearHaltKeeps ==
    ASSUME IInv, ClearHalt
    PROVE  IInv'
<1> USE DEF IInv, EngineInv, EngineTypeOK, Control, Calls, Managed, Frozen
<1>1. ExecInv'
  BY NoExecKeeps, NoVenueKeeps, NoLegsTyped, Zenon
     DEF ExecInv,
     ExecTypeOK, ClearHalt, In, NoCall, SameRound, SameProcess
<1>2. EngineTypeOK'
  BY Zenon DEF ClearHalt, SameRound, SameProcess, SameCounts, Mode, Epcs
<1>3. (Control /\ Calls /\ Managed /\ Frozen)'
  BY SMT DEF ClearHalt, In, NoCall, NoExec, SameRound, SameProcess, execVars,
     Active, Mode
<1> QED
  BY <1>1, <1>2, <1>3

LEMMA ClearCooldownKeeps ==
    ASSUME IInv, ClearCooldown
    PROVE  IInv'
<1> USE DEF IInv, EngineInv, EngineTypeOK, Control, Calls, Managed, Frozen
<1>1. ExecInv'
  BY NoExecKeeps, NoVenueKeeps, NoLegsTyped, Zenon
     DEF ExecInv,
     ExecTypeOK, ClearCooldown, In, NoCall, SameProcess
<1>2. EngineTypeOK'
  BY Zenon DEF ClearCooldown, SameBook, SameProcess, SameCounts, Mode, Epcs
<1>3. (Control /\ Calls /\ Managed /\ Frozen)'
  BY SMT DEF ClearCooldown, In, NoCall, NoExec, SameProcess, execVars, Active,
     Mode
<1> QED
  BY <1>1, <1>2, <1>3

LEMMA NewDayKeeps ==
    ASSUME IInv, NewDay
    PROVE  IInv'
<1> USE DEF IInv, EngineInv, EngineTypeOK, Control, Calls, Managed, Frozen
<1>1. ExecInv'
  BY NoExecKeeps, NoVenueKeeps, NoLegsTyped, Zenon
     DEF ExecInv,
     ExecTypeOK, NewDay, NoCall, SameRound, SameProcess
<1>2. EngineTypeOK'
  BY Zenon DEF NewDay, SameRound, SameProcess, SameCounts, Mode, Epcs
<1>3. (Control /\ Calls /\ Managed /\ Frozen)'
  BY SMT DEF NewDay, NoCall, NoExec, SameRound, SameProcess, execVars, Active,
     Mode
<1> QED
  BY <1>1, <1>2, <1>3

LEMMA MakerProvenKeeps ==
    ASSUME IInv, MakerProven
    PROVE  IInv'
<1> USE DEF IInv, EngineInv, EngineTypeOK, Control, Calls, Managed, Frozen
<1>1. ExecInv'
  BY ForgetTyped, NoVenueKeeps, CancelTyped, NoLegsTyped, Zenon
     DEF
     ExecInv, ExecTypeOK, MakerProven, SameFile, SameRound
<1>2. EngineTypeOK'
  BY Zenon DEF MakerProven, To, SameFile, SameRound, SameBook, SameCounts,
     Mode, Epcs
<1>3. (Control /\ Calls /\ Managed /\ Frozen)'
  BY SMT DEF MakerProven, In, To, Forget, SameFile, SameRound, Active, Mode
<1> QED
  BY <1>1, <1>2, <1>3

LEMMA DownKeeps ==
    ASSUME IInv, Down
    PROVE  IInv'
<1> USE DEF IInv, EngineInv, EngineTypeOK, Control, Calls, Managed, Frozen
<1>1. ExecInv'
  BY ForgetTyped, NoVenueKeeps, CancelTyped, NoLegsTyped, Zenon
     DEF
     ExecInv, ExecTypeOK, Down, NoVenue, SameFile, SameRound, SameProcess
<1>2. EngineTypeOK'
  <2>1. restarts' \in 0 .. MaxRestarts
    BY EngineAssumption, SMT DEF Down
  <2> QED
    BY <2>1, Zenon DEF Down, SameFile, SameRound, SameBook, SameProcess,
       SameCounts, Epcs
<1>3. (Control /\ Calls /\ Managed /\ Frozen)'
  BY SMT DEF Down, In, Forget, SameFile, SameRound, SameProcess, Active, Mode
<1> QED
  BY <1>1, <1>2, <1>3

LEMMA LiveFailedKeeps ==
    ASSUME IInv, LiveFailed
    PROVE  IInv'
<1> USE DEF IInv, EngineInv, EngineTypeOK, Control, Calls, Managed, Frozen
<1>1. ExecInv'
  BY ForgetTyped, NoVenueKeeps, CancelTyped, NoLegsTyped, Zenon
     DEF
     ExecInv, ExecTypeOK, LiveFailed, LeaveEntry, NoVenue, SameProcess
<1>2. EngineTypeOK'
  BY Zenon DEF LiveFailed, LeaveEntry, SameBook, To, SameProcess, SameCounts, Mode,
     Epcs
<1>3. (Control /\ Calls /\ Managed /\ Frozen)'
  BY SMT DEF LiveFailed, In, LeaveEntry, To, Forget, SameProcess, Active, Mode
<1> QED
  BY <1>1, <1>2, <1>3

LEMMA LiveNakedKeeps ==
    ASSUME IInv, LiveNaked
    PROVE  IInv'
<1> USE DEF IInv, EngineInv, EngineTypeOK, Control, Calls, Managed, Frozen
<1>1. ExecInv'
  BY ForgetTyped, NoVenueKeeps, CancelTyped, NoLegsTyped, Zenon
     DEF
     ExecInv, ExecTypeOK, LiveNaked, Latch, SameRound, SameFile, NoVenue,
     SameProcess
<1>2. EngineTypeOK'
  BY Zenon DEF LiveNaked, Latch, SetHalt, SameRound, SameBook, To, SameFile,
     SameProcess, SameCounts, Mode, Epcs
<1>3. (Control /\ Calls /\ Managed /\ Frozen)'
  BY SMT DEF LiveNaked, In, Latch, SetHalt, SameRound, To, SameFile, Forget,
     SameProcess, Active, Mode
<1> QED
  BY <1>1, <1>2, <1>3

LEMMA ConfirmShadowKeeps ==
    ASSUME IInv, ConfirmShadow
    PROVE  IInv'
<1> USE DEF IInv, EngineInv, EngineTypeOK, Control, Calls, Managed, Frozen
<1>1. ExecInv'
  BY ForgetTyped, NoVenueKeeps, CancelTyped, NoLegsTyped, Zenon
     DEF
     ExecInv, ExecTypeOK, ConfirmShadow, NoVenue, SameProcess
<1>2. EngineTypeOK'
  BY Zenon DEF ConfirmShadow, To, SameBook, SameProcess, SameCounts, Mode,
     Epcs
<1>3. (Control /\ Calls /\ Managed /\ Frozen)'
  <2>1. shadow' \/ res = "filled"
    BY Zenon DEF ConfirmShadow
  <2> QED
    BY <2>1, SMT DEF ConfirmShadow, In, To, Forget, SameProcess
<1> QED
  BY <1>1, <1>2, <1>3

LEMMA LiveClosedKeeps ==
    ASSUME IInv, LiveClosed
    PROVE  IInv'
<1> USE DEF IInv, EngineInv, EngineTypeOK, Control, Calls, Managed, Frozen
<1>1. ExecInv'
  BY ForgetTyped, NoVenueKeeps, CancelTyped, NoLegsTyped, Zenon
     DEF
     ExecInv, ExecTypeOK, LiveClosed, FinishExit, Latch, SameRound, NoVenue,
     SameProcess
<1>2. EngineTypeOK'
  BY Zenon DEF LiveClosed, FinishExit, SameBook, Latch, SetHalt, SameRound, To,
     SameProcess, SameCounts, Mode, Epcs, Returns
<1>3. (Control /\ Calls /\ Managed /\ Frozen)'
  <2>1. CASE res = "closed"
    BY <2>1, SMT DEF LiveClosed, In, FinishExit, Forget, SameProcess, Active
  <2>2. CASE res # "closed"
    <3>1. epc' \in {"tick", "fetch", "ddhalt"} /\ halt'
      BY <2>2, Zenon DEF LiveClosed, Latch, SetHalt, To, Returns
    <3> QED
      BY <2>2, <3>1, SMT DEF LiveClosed, In, Latch, SameRound, Forget, SameProcess
  <2> QED
    BY <2>1, <2>2
<1> QED
  BY <1>1, <1>2, <1>3

-----------------------------------------------------------------------------
\* The ways out of a round.  Whether it is held back, closed on paper or
\* handed to the executor, a close starts with no call under way.
LEMMA CloseAndFinishKeeps ==
    ASSUME IInv, pc = "idle", res = "none", mode' = "EXITING",
           NEW passive \in BOOLEAN, NEW then \in Returns,
           ~shadow => ~armed, ~halt, UNCHANGED <<shadow, legs, round, halt>>, SameBook,
           CloseAndFinish(passive, then), NoVenue, SameProcess,
           idle' \in 0 .. IdleEvery - 1, streak' \in 0 .. FailStreak
    PROVE  IInv'
<1> USE DEF IInv, EngineInv, EngineTypeOK, Control, Calls, Managed, Frozen
<1>1. ExecInv'
  BY NoExecKeeps, NoVenueKeeps, CalledTyped, Zenon
     DEF ExecInv, ExecTypeOK, CloseAndFinish, SameProcess
<1>2. EngineTypeOK'
  BY Zenon DEF CloseAndFinish, SameBook, SameProcess, Mode, Epcs, Returns
<1>3. CASE NoExec /\ epc' = then
  <2>1. epc' \in {"tick", "fetch", "ddhalt"}
    BY <1>3, Zenon DEF Returns
  <2> QED
    BY <1>1, <1>2, <1>3, <2>1, SMT DEF NoExec, execVars, SameProcess, CloseAndFinish
<1>4. CASE NoExec /\ shadow /\ epc' = "closed"
  BY <1>1, <1>2, <1>4, SMT DEF NoExec, execVars, SameProcess, CloseAndFinish
<1>5. CASE ~shadow /\ Called("close", passive) /\ epc' = "closing"
  BY <1>1, <1>2, <1>5, SMT DEF Called, SameProcess, CloseAndFinish
<1> QED
  BY <1>3, <1>4, <1>5, Zenon DEF CloseAndFinish

\* _do_exit from HOLDING: a live round whose guard is up is halted instead.
LEMMA DoExitKeeps ==
    ASSUME IInv, pc = "idle", res = "none", mode = "HOLDING", ~halt,
           NEW passive \in BOOLEAN, NEW then \in {"tick", "ddhalt"},
           DoExit(passive, then), NoVenue, SameProcess,
           idle' \in 0 .. IdleEvery - 1, streak' \in 0 .. FailStreak
    PROVE  IInv'
<1>1. CASE ~shadow /\ armed
  <2> USE <1>1 DEF IInv, EngineInv, EngineTypeOK, Control, Calls, Managed, Frozen
  <2>1. ExecInv'
    BY NoExecKeeps, NoVenueKeeps, Zenon DEF ExecInv, ExecTypeOK, DoExit, SameProcess
  <2>2. EngineTypeOK'
    BY Zenon DEF DoExit, SetHalt, To, SameBook, SameProcess, Mode, Epcs, Returns
  <2>3. (Control /\ Calls /\ Managed /\ Frozen)'
    BY SMT DEF DoExit, SetHalt, To, NoExec, execVars, SameProcess
  <2> QED
    BY <2>1, <2>2, <2>3
<1>2. CASE ~(~shadow /\ armed)
  <2>1. CloseAndFinish(passive, then) /\ mode' = "EXITING" /\ UNCHANGED halt
        /\ UNCHANGED <<shadow, legs, round>> /\ SameBook
    BY <1>2, Zenon DEF DoExit
  <2>2. then \in Returns
    BY Zenon DEF Returns
  <2> QED
    BY <1>2, <2>1, <2>2, CloseAndFinishKeeps, Zenon
<1> QED
  BY <1>1, <1>2

LEMMA RecoverShadowKeeps ==
    ASSUME IInv, RecoverShadow
    PROVE  IInv'
<1>1. pc = "idle" /\ res = "none" /\ mode \in {"ENTERING", "EXITING"} /\ ~halt
  BY SMT DEF IInv, EngineInv, Calls, Control, Frozen, RecoverShadow, In
<1>2. CASE mode = "ENTERING"
  <2> USE DEF IInv, EngineInv, EngineTypeOK, Control, Calls, Managed, Frozen
  <2>1. ExecInv'
    BY <1>1, <1>2, NoExecKeeps, NoVenueKeeps, NoLegsTyped, Zenon
       DEF ExecInv, ExecTypeOK, RecoverShadow, LeaveEntry, SameProcess
  <2>2. EngineTypeOK'
    BY <1>2, Zenon DEF RecoverShadow, LeaveEntry, To, SameBook, SameProcess, SameCounts,
       Mode, Epcs
  <2>3. (Control /\ Calls /\ Managed /\ Frozen)'
    BY <1>1, <1>2, SMT DEF RecoverShadow, LeaveEntry, To, NoExec, execVars, SameProcess, Active
  <2> QED
    BY <2>1, <2>2, <2>3
<1>3. CASE mode = "EXITING"
  <2>1. CloseAndFinish(FALSE, "fetch") /\ mode' = "EXITING" /\ shadow
        /\ UNCHANGED <<shadow, legs, round, halt>> /\ SameBook /\ NoVenue
        /\ SameProcess /\ UNCHANGED <<idle, streak>>
    BY <1>3, Zenon DEF RecoverShadow, SameFile, SameRound, SameCounts
  <2>2. "fetch" \in Returns
    BY Zenon DEF Returns
  <2>3. idle' \in 0 .. IdleEvery - 1 /\ streak' \in 0 .. FailStreak
    BY <2>1, Zenon DEF IInv, EngineInv, EngineTypeOK
  <2> QED
    BY <1>1, <2>1, <2>2, <2>3, CloseAndFinishKeeps, Zenon
<1> QED
  BY <1>1, <1>2, <1>3

LEMMA RecoverResumeKeeps ==
    ASSUME IInv, RecoverResume
    PROVE  IInv'
<1>1. pc = "idle" /\ res = "none" /\ ~halt
  BY SMT DEF IInv, EngineInv, Calls, Frozen, RecoverResume, In
<1>2. CloseAndFinish(FALSE, "fetch") /\ mode' = "EXITING" /\ ~armed
      /\ UNCHANGED <<shadow, legs, round, halt>> /\ SameBook /\ NoVenue
      /\ SameProcess /\ UNCHANGED <<idle, streak>>
  BY Zenon DEF RecoverResume, Live, SameFile, SameRound, SameCounts
<1>3. "fetch" \in Returns
  BY Zenon DEF Returns
<1>4. idle' \in 0 .. IdleEvery - 1 /\ streak' \in 0 .. FailStreak
  BY <1>2, Zenon DEF IInv, EngineInv, EngineTypeOK
<1> QED
  BY <1>1, <1>2, <1>3, <1>4, CloseAndFinishKeeps, Zenon

LEMMA DrawdownKeeps ==
    ASSUME IInv, Drawdown
    PROVE  IInv'
<1>1. pc = "idle" /\ res = "none" /\ ~halt /\ idle' \in 0 .. IdleEvery - 1
      /\ streak' \in 0 .. FailStreak
  BY SMT DEF IInv, EngineInv, EngineTypeOK, Calls, Drawdown, In, SameCounts
<1>2. CASE mode = "HOLDING"
  BY <1>1, <1>2, DoExitKeeps, Zenon DEF Drawdown
<1>3. CASE mode # "HOLDING"
  <2> USE DEF IInv, EngineInv, EngineTypeOK, Control, Calls, Managed, Frozen
  <2>1. ExecInv'
    BY <1>3, NoExecKeeps, NoVenueKeeps, Zenon
       DEF ExecInv, ExecTypeOK, Drawdown, Latch, SameRound, SameProcess
  <2>2. EngineTypeOK'
    BY <1>3, Zenon DEF Drawdown, Latch, SetHalt, To, SameRound, SameBook, SameProcess,
       SameCounts, Epcs
  <2>3. (Control /\ Calls /\ Managed /\ Frozen)'
    BY <1>1, <1>3, SMT DEF Drawdown, Latch, SetHalt, To, SameRound, NoExec, execVars,
       SameProcess
  <2> QED
    BY <2>1, <2>2, <2>3
<1> QED
  BY <1>2, <1>3

\* A holding tick that neither halts nor exits, or one that does.
LEMMA HoldKeeps ==
    ASSUME IInv, Hold
    PROVE  IInv'
<1>1. pc = "idle" /\ res = "none" /\ ~halt /\ mode = "HOLDING" /\ epc = "hold"
  BY SMT DEF IInv, EngineInv, Calls, Control, Frozen, Hold, In
<1>2. idle' \in 0 .. IdleEvery - 1 /\ streak' \in 0 .. FailStreak
  <2>1. streak' \in 0 .. FailStreak
    <3>1. streak' = 0 \/ streak' = (IF streak < FailStreak THEN streak + 1 ELSE streak)
      BY Zenon DEF Hold
    <3>2. streak \in 0 .. FailStreak
      BY Zenon DEF IInv, EngineInv, EngineTypeOK
    <3> QED
      BY <3>1, <3>2, EngineAssumption, SMT
  <2> QED
    BY <2>1, Zenon DEF Hold, IInv, EngineInv, EngineTypeOK
<1>3. NoVenue /\ SameProcess
  BY Zenon DEF Hold
<1>4. CASE \E passive \in BOOLEAN : DoExit(passive, "tick")
  BY <1>1, <1>2, <1>3, <1>4, DoExitKeeps, Zenon
<1>5. CASE To("tick") /\ NoExec /\ SameFile
  <2> USE DEF IInv, EngineInv, EngineTypeOK, Control, Calls, Managed, Frozen
  <2>1. ExecInv'
    BY <1>3, <1>5, NoExecKeeps, NoVenueKeeps, Zenon
       DEF ExecInv, ExecTypeOK, SameFile, SameRound, SameProcess
  <2>2. EngineTypeOK'
    BY <1>2, <1>3, <1>5, Zenon DEF To, SameFile, SameRound, SameBook, SameProcess, Epcs
  <2>3. (Control /\ Calls /\ Managed /\ Frozen)'
    BY <1>1, <1>3, <1>5, SMT DEF To, SameFile, SameRound, NoExec, execVars, SameProcess,
       Active
  <2> QED
    BY <2>1, <2>2, <2>3
<1> QED
  BY <1>4, <1>5, Zenon DEF Hold, Watchdog, CheckSingleLeg, HoldOn

-----------------------------------------------------------------------------
\* The call of a live open.
LEMMA GateOpenKeeps ==
    ASSUME IInv, GateOpen
    PROVE  IInv'
<1> USE DEF IInv, EngineInv, EngineTypeOK, Control, Calls, Managed, Frozen
<1>1. ExecInv'
  BY CalledTyped, NoVenueKeeps, Zenon DEF ExecInv, ExecTypeOK, GateOpen, SameProcess
<1>2. EngineTypeOK'
  BY Zenon DEF GateOpen, To, SameBook, SameProcess, SameCounts, Mode, Epcs
<1>3. (Control /\ Calls /\ Managed /\ Frozen)'
  BY SMT DEF GateOpen, In, Called, To, SameProcess
<1> QED
  BY <1>1, <1>2, <1>3

\* The maker preflight's order, of one lot.
LEMMA MakerProbeKeeps ==
    ASSUME IInv, MakerProbe
    PROVE  IInv'
<1> USE DEF IInv, EngineInv, EngineTypeOK, Control, Calls, Managed, Frozen
<1>1. VenueTypeOK'
  <2>1. CASE CancelAll
    BY <2>1, CancelTyped, Zenon DEF ExecInv
  <2>2. CASE ~CancelAll
    <3>1. rest' = [rest EXCEPT !["open"] = @ + LotStep] /\ UNCHANGED <<pos, flight>>
      BY <2>2, Zenon DEF MakerProbe
    <3> QED
      BY <3>1, VenueAssumption, SMT DEF ExecInv, VenueTypeOK, Kind
  <2> QED
    BY <2>1, <2>2
<1>2. base' \in [Venue -> Nat]
  BY SMT DEF MakerProbe, ExecInv, ExecTypeOK, VenueTypeOK, Venue
<1>3. ExecTypeOK' /\ ExecShape'
  BY <1>2, Zenon DEF MakerProbe, ExecInv, ExecTypeOK, ExecShape, SameFile, SameRound
<1>4. EngineTypeOK'
  BY Zenon DEF MakerProbe, To, SameFile, SameRound, SameBook, SameCounts, Epcs
<1>5. (Control /\ Calls /\ Managed /\ Frozen)'
  BY SMT DEF MakerProbe, In, To, SameFile, SameRound
<1> QED
  BY <1>1, <1>3, <1>4, <1>5 DEF ExecInv

LEMMA FlattenKeeps ==
    ASSUME IInv, Flatten
    PROVE  IInv'
<1>1. UNCHANGED <<armed, maker, legs, mode, shadow, halt, breach, round, booked,
                  gw, idle, streak, epc, ret, restarts>>
  BY Zenon DEF Flatten, ledgerVars, engineVars, fileVars, memVars
<1>2. VenueTypeOK'
  <2>1. Flat \in [Venue -> Nat] /\ NoOrders \in [Kind -> Nat]
    BY SMT DEF Flat, NoOrders
  <2> QED
    BY <2>1, Zenon DEF Flatten, IInv, ExecInv, VenueTypeOK
<1>3. ExecInv'
  BY <1>1, <1>2, NoExecKeeps, Zenon DEF IInv, ExecInv, ExecTypeOK, Flatten
<1>4. EngineInv'
  BY <1>1, Zenon DEF IInv, EngineInv, EngineTypeOK, Control, Calls, Managed, Frozen,
     Flatten, NoExec, execVars
<1> QED
  BY <1>3, <1>4 DEF IInv

\* A step of the executor, between the engine's call and its return: the
\* return leaves it idle with a result, and only a guard that is down lets
\* one report a filled open.
LEMMA ExecutorKeeps ==
    ASSUME IInv, Executor
    PROVE  IInv'
<1>1. ExecInv'
  BY ExecStepKeeps, Zenon DEF IInv, Executor
<1>2. UNCHANGED <<armed, maker, legs>>
  BY Zenon DEF Executor, ExecStep, At, ledgerVars, Baseline, CloseNothing, Submit,
     Confirm, RetryClose, MakerQuote, MakerWait, MakerCancel, MakerVerify, Sweep,
     ReadPrices, CheckOrders, PullOrders, FlattenVar, FlattenDust
<1>3. UNCHANGED <<mode, shadow, halt, breach, round, booked, gw, idle, streak,
                  epc, ret, restarts>>
  BY Zenon DEF Executor, engineVars, fileVars, memVars
<1>4. EngineInv'
  BY <1>2, <1>3, SMT DEF IInv, EngineInv, EngineTypeOK, Control, Calls, Managed, Frozen,
     Executor
<1> QED
  BY <1>1, <1>4 DEF IInv

LEMMA VenueActsKeeps ==
    ASSUME IInv, VenueActs
    PROVE  IInv'
<1>1. VenueTypeOK'
  BY VenueStepKeeps, Zenon DEF IInv, ExecInv, VenueActs
<1>2. ExecInv'
  BY <1>1, Zenon DEF IInv, ExecInv, ExecTypeOK, ExecShape, VenueActs, execVars, ledgerVars
<1>3. EngineInv'
  BY Zenon DEF IInv, EngineInv, EngineTypeOK, Control, Calls, Managed, Frozen,
     VenueActs, execVars, ledgerVars, engineVars, fileVars, memVars
<1> QED
  BY <1>2, <1>3 DEF IInv

-----------------------------------------------------------------------------
LEMMA InitEstablishes == Init => IInv
<1> SUFFICES ASSUME Init PROVE IInv
  OBVIOUS
<1>1. VenueTypeOK
  BY SMT DEF Init, VenueInit, VenueTypeOK, Flat, NoOrders
<1>2. ExecTypeOK /\ ExecShape
  <2>1. Flat \in [Venue -> Nat] /\ "var" \in Venue
    BY SMT DEF Flat, Venue
  <2>2. 0 \in 0 .. MaxRequotes + 1
    BY ExecutorAssumption, SMT
  <2> QED
    BY <2>1, <2>2, Zenon DEF Init, ExecInit, ExecTypeOK, ExecShape, NoLegs, Pcs, Outcomes
<1>3. EngineTypeOK
  <2>1. /\ 0 \in 0 .. MaxRounds
        /\ 0 \in 0 .. IdleEvery - 1
        /\ 0 \in 0 .. FailStreak
        /\ 0 \in 0 .. MaxRestarts
        /\ [i \in 0 .. MaxRounds |-> 0] \in [0 .. MaxRounds -> Nat]
    BY EngineAssumption, SMT
  <2> QED
    BY <2>1, Zenon DEF Init, EngineTypeOK, Mode, Epcs, Returns
<1>4. Control /\ Calls /\ Managed /\ Frozen
  BY SMT DEF Init, ExecInit, Control, Calls, Managed, Frozen
<1> QED
  BY <1>1, <1>2, <1>3, <1>4 DEF IInv, ExecInv, EngineInv

\* A step that changes nothing changes no invariant.
LEMMA StutterKeeps ==
    ASSUME IInv, UNCHANGED vars
    PROVE  IInv'
<1>1. ExecInv'
  BY Zenon DEF IInv, ExecInv, VenueTypeOK, ExecTypeOK, ExecShape, vars, venueVars,
     execVars, ledgerVars
<1>2. EngineInv'
  BY Zenon DEF IInv, EngineInv, EngineTypeOK, Control, Calls, Managed, Frozen, vars,
     execVars, ledgerVars, engineVars, fileVars, memVars
<1> QED
  BY <1>1, <1>2 DEF IInv

LEMMA StepKeeps == IInv /\ [Next]_vars => IInv'
<1> SUFFICES ASSUME IInv, [Next]_vars PROVE IInv'
  OBVIOUS
<1>1. CASE EngineStep
  BY <1>1, ArmKeeps, StartupHaltKeeps, MakerProbeKeeps, MakerProvenKeeps, TickBeginKeeps,
     RecoverShadowKeeps, RecoverHaltKeeps, RecoverFlatKeeps, RecoverResumeKeeps,
     NoTradingKeeps, DrawdownKeeps, DrawdownHaltKeeps, DecideKeeps, IdleCheckKeeps,
     EntryKeeps, GateHaltKeeps, GateOpenKeeps, ShadowFilledKeeps, LiveFilledKeeps,
     LiveFailedKeeps, LiveNakedKeeps, RollBackKeeps, ClearLegsKeeps, ConfirmLegsKeeps, ConfirmShadowKeeps,
     HoldKeeps, ShadowClosedKeeps, LiveClosedKeeps, FinishLedgerKeeps, FinishSaveKeeps,
     Zenon DEF EngineStep
<1>2. CASE Executor \/ VenueActs
  BY <1>2, ExecutorKeeps, VenueActsKeeps
<1>3. CASE Start \/ Down
  BY <1>3, StartKeeps, DownKeeps
<1>4. CASE Operator \/ NewDay
  BY <1>4, ClearHaltKeeps, ClearCooldownKeeps, FlattenKeeps, NewDayKeeps, Zenon DEF Operator
<1>5. CASE UNCHANGED vars
  BY <1>5, StutterKeeps
<1> QED
  BY <1>1, <1>2, <1>3, <1>4, <1>5, Zenon DEF Next

\* The invariant holds of every state of every behaviour.
THEOREM Invariance == Spec => []IInv
<1> QED
  BY InitEstablishes, StepKeeps, PTL DEF Spec

\* Positions, orders and every variable of the executor and the engine keep
\* their types, whatever the venues do: a reduce-only fill never takes a
\* position through zero, no retry asks for a negative quantity, no re-quote
\* is counted below zero (live_executor.py, engine.py).
THEOREM TypeCorrect == Spec => []TypeOK
<1>1. IInv => TypeOK
  BY Zenon DEF IInv, ExecInv, EngineInv, TypeOK
<1> QED
  BY Invariance, <1>1, PTL

\* A round the file has as live is fully managed or halted, never half
\* (halt_if_unmanageable_live_round, _do_exit).
THEOREM FullyManaged == Spec => []ManagedOrHalted
<1>1. IInv => ManagedOrHalted
  BY SMT DEF IInv, EngineInv, Managed, ManagedOrHalted
<1> QED
  BY Invariance, <1>1, PTL

-----------------------------------------------------------------------------
\* The transitions the engine asks for: all of VALID_TRANSITIONS but
\* ENTERING to EXITING and EXITING to HOLDING.
Asked ==
    \/ mode = "IDLE" /\ mode' = "ENTERING"
    \/ mode = "ENTERING" /\ mode' \in {"HOLDING", "IDLE", "COOLDOWN"}
    \/ mode = "HOLDING" /\ mode' = "EXITING"
    \/ mode = "EXITING" /\ mode' = "COOLDOWN"
    \/ mode = "COOLDOWN" /\ mode' = "IDLE"

LEMMA AskedIsValid ==
    ASSUME Asked
    PROVE  mode' \in ValidTransitions[mode]
<1>1. /\ ValidTransitions["IDLE"] = {"ENTERING"}
      /\ ValidTransitions["ENTERING"] = {"HOLDING", "EXITING", "IDLE", "COOLDOWN"}
      /\ ValidTransitions["HOLDING"] = {"EXITING"}
      /\ ValidTransitions["EXITING"] = {"COOLDOWN", "HOLDING"}
      /\ ValidTransitions["COOLDOWN"] = {"IDLE"}
  BY SMT DEF ValidTransitions, Mode
<1> QED
  BY <1>1, Zenon DEF Asked

\* The engine asks for legal transitions only, since each place that asks for
\* one is reached in the mode it leaves (state_machine.py, transition).
THEOREM TransitionsLegal == Spec => LegalTransitions
<1>1. ASSUME IInv, [Next]_vars PROVE mode' # mode => Asked
  <2> USE DEF IInv, EngineInv, Control
  <2>1. CASE EngineStep
    <3>1. CASE RecoverShadow \/ RecoverFlat
      <4>1. mode \in {"ENTERING", "EXITING"}
        BY <1>1, <3>1, Zenon DEF RecoverShadow, RecoverFlat, In
      <4>2. UNCHANGED mode \/ (IF mode = "ENTERING" THEN mode' = "IDLE" ELSE mode' = "COOLDOWN")
        BY <3>1, Zenon DEF RecoverShadow, RecoverFlat, LeaveEntry, FinishExit, SameFile, SameRound
      <4> QED
        BY <4>1, <4>2, SMT DEF Asked
    <3>2. CASE LiveFailed \/ ShadowClosed \/ LiveClosed
      BY <1>1, <3>2, SMT DEF Asked, LiveFailed, ShadowClosed, LiveClosed, In, LeaveEntry,
         FinishExit, Latch, SameRound
    <3>3. CASE Hold \/ Drawdown
      <4>1. UNCHANGED mode \/ mode' = "EXITING"
        BY <3>3, Zenon DEF Hold, Watchdog, CheckSingleLeg, HoldOn, Drawdown, DoExit, Latch, SameFile, SameRound
      <4>2. UNCHANGED mode \/ mode = "HOLDING"
        BY <1>1, <3>3, Zenon DEF Hold, Drawdown, In, Latch, SameRound
      <4> QED
        BY <4>1, <4>2, Zenon DEF Asked
    <3>4. CASE Decide \/ Entry \/ GateOpen
      <4>1. CASE Decide
        BY <4>1, Zenon DEF Decide, Asked
      <4>2. CASE Entry \/ GateOpen
        BY <1>1, <4>2, Zenon DEF Entry, GateOpen, In, Asked
      <4> QED
        BY <3>4, <4>1, <4>2
    <3>5. CASE ShadowFilled \/ LiveFilled
      BY <1>1, <3>5, SMT DEF Asked, ShadowFilled, LiveFilled, Holding, In
    <3>6. CASE LiveNaked \/ RollBack
      BY <1>1, <3>6, SMT DEF Asked, LiveNaked, RollBack, LeaveEntry, In, Latch, SameFile, SameRound
    <3>7. CASE \/ Arm \/ StartupHalt \/ MakerProbe \/ MakerProven \/ TickBegin
               \/ RecoverHalt \/ RecoverResume \/ NoTrading \/ DrawdownHalt
               \/ IdleCheck \/ GateHalt
      BY <1>1, <3>7, Zenon DEF Arm, StartupHalt, MakerProbe, MakerProven, TickBegin, RecoverHalt,
         RecoverResume, NoTrading, DrawdownHalt, IdleCheck, GateHalt, Latch, SameFile,
         SameRound
    <3>8. CASE ConfirmLegs \/ ConfirmShadow \/ FinishLedger \/ FinishSave \/ ClearLegs
      BY <1>1, <3>8, Zenon DEF ClearLegs, ConfirmLegs, ConfirmShadow, FinishLedger, FinishSave, SameRound
    <3> QED
      BY <2>1, <3>1, <3>2, <3>3, <3>4, <3>5, <3>6, <3>7, <3>8, Zenon DEF EngineStep
  <2>2. CASE Executor \/ VenueActs \/ Flatten \/ UNCHANGED vars
    BY <2>2, Zenon DEF Executor, VenueActs, Flatten, vars, engineVars, fileVars
  <2>3. CASE Start \/ Down \/ ClearHalt \/ NewDay
    BY <2>3, Zenon DEF Start, Down, ClearHalt, NewDay, SameFile, SameRound
  <2>4. CASE ClearCooldown
    BY <2>4, SMT DEF Asked, ClearCooldown
  <2> QED
    BY <1>1, <2>1, <2>2, <2>3, <2>4, Zenon DEF Next, Operator
<1>2. IInv /\ [Next]_vars => [mode' # mode => mode' \in ValidTransitions[mode]]_vars
  BY <1>1, AskedIsValid
<1> QED
  BY Invariance, <1>2, PTL DEF Spec, LegalTransitions

-----------------------------------------------------------------------------
\* What a HALT leaves alone.
Still == SameRound /\ UNCHANGED booked /\ UNCHANGED flight

\* A venue only takes off what is in flight.
LEMMA VenuesFillDown ==
    ASSUME VenueTypeOK, VenueStep, NEW v \in Venue, NEW k \in Kind
    PROVE  flight'[v][k] <= flight[v][k]
<1>1. flight'[v][k] \in 0 .. flight[v][k] /\ flight[v][k] \in Nat
  BY VenuesMove, SMT DEF VenueTypeOK
<1> QED
  BY <1>1, SMT

\* While a HALT stays latched the engine neither moves the round nor books
\* one, and sends no order that takes (set_halt, _tick's HALT test).
THEOREM HaltIsFinal == Spec => HaltFreezes
<1> DEFINE Freeze ==
      halt /\ halt' /\ epc # "down" =>
          /\ SameRound
          /\ UNCHANGED booked
          /\ \A v \in Venue, k \in Kind : flight'[v][k] <= flight[v][k]
<1>1. ASSUME IInv, [Next]_vars, halt, halt', epc # "down"
      PROVE  Still \/ (SameRound /\ UNCHANGED booked /\ VenueStep)
  <2>1. epc \in {"arm", "startup", "probe", "proven", "tick", "fetch", "ddhalt"}
    BY <1>1, Zenon DEF IInv, EngineInv, Frozen
  <2>2. CASE EngineStep
    <3>1. CASE Arm \/ StartupHalt \/ TickBegin \/ NoTrading \/ DrawdownHalt
      BY <3>1, Zenon DEF Still, Arm, StartupHalt, TickBegin, NoTrading, DrawdownHalt, Latch,
         SameFile, SameRound, SameBook, NoCall, NoVenue, venueVars
    <3>2. CASE MakerProbe \/ MakerProven
      BY <3>2, Zenon DEF Still, MakerProbe, MakerProven, CancelAll, SameFile, SameRound,
         SameBook
    <3>3. ~(Drawdown \/ Decide)
      BY <1>1, Zenon DEF Drawdown, Decide
    <3>4. epc \notin {"recover", "idle", "entry", "gate", "opening", "shadowfill",
                      "confirm2", "confirm3", "orders", "hold", "closing", "closed",
                      "finish2", "finish3", "aborted", "recovered"}
      BY <2>1, SMT
    <3>5. ~(RecoverShadow \/ RecoverHalt \/ RecoverFlat \/ RecoverResume \/ IdleCheck
            \/ Entry \/ GateHalt \/ GateOpen \/ ShadowFilled \/ LiveFilled)
      BY <3>4, Zenon DEF RecoverShadow, RecoverHalt, RecoverFlat, RecoverResume, IdleCheck,
         Entry, GateHalt, GateOpen, ShadowFilled, LiveFilled, In
    <3>6. ~(LiveFailed \/ LiveNaked \/ RollBack \/ ConfirmLegs \/ ConfirmShadow \/ Hold
            \/ ShadowClosed \/ LiveClosed \/ FinishLedger \/ FinishSave \/ ClearLegs)
      BY <3>4, Zenon DEF ClearLegs, LiveFailed, LiveNaked, RollBack, ConfirmLegs, ConfirmShadow, Hold,
         ShadowClosed, LiveClosed, FinishLedger, FinishSave, In
    <3> QED
      BY <2>2, <3>1, <3>2, <3>3, <3>5, <3>6, Zenon DEF EngineStep
  <2>3. ~Executor
    BY <2>1, SMT DEF Executor
  <2>4. CASE VenueActs
    BY <2>4, Zenon DEF VenueActs, SameRound, ledgerVars, engineVars, fileVars
  <2>5. CASE Down \/ NewDay
    BY <2>5, Zenon DEF Still, Down, NewDay, SameFile, SameRound, SameBook, NoCall, NoVenue,
       venueVars
  <2>6. ~(Start \/ ClearHalt \/ ClearCooldown \/ Flatten)
    BY <1>1, Zenon DEF Start, ClearHalt, ClearCooldown, Flatten, In
  <2>7. CASE UNCHANGED vars
    BY <2>7, Zenon DEF Still, vars, venueVars, ledgerVars, engineVars, fileVars, SameRound
  <2> QED
    BY <1>1, <2>2, <2>3, <2>4, <2>5, <2>6, <2>7, Zenon DEF Next, Operator
<1>2. ASSUME IInv, [Next]_vars PROVE Freeze
  <2>1. CASE ~(halt /\ halt' /\ epc # "down")
    BY <2>1
  <2>2. CASE SameRound /\ UNCHANGED booked /\ VenueStep
    BY <1>2, <2>2, VenuesFillDown, Zenon DEF IInv, ExecInv
  <2>3. CASE Still
    <3>1. \A v \in Venue, k \in Kind : flight[v][k] <= flight[v][k]
      BY <1>2, SMT DEF IInv, ExecInv, VenueTypeOK
    <3> QED
      BY <2>3, <3>1, Zenon DEF Still
  <2> QED
    BY <1>1, <1>2, <2>1, <2>2, <2>3
<1>3. IInv /\ [Next]_vars => [Freeze]_vars
  BY <1>2
<1> QED
  BY Invariance, <1>3, PTL DEF Spec, HaltFreezes

-----------------------------------------------------------------------------
(***************************************************************************)
(* The books.  A round that has its legs in the file is unbooked as long as*)
(* it runs; what a crash leaves behind is a round between the last two     *)
(* writes of a booking, whose legs a confirm_hold may yet take for its own.*)
(***************************************************************************)
\* A round is being held or left, and its legs are its own.
Running == mode \in {"HOLDING", "EXITING"} /\ epc # "confirm2"

BookingPlaces == {"confirm2", "finish2", "finish3"}

\* No round is booked before it has begun.
Unbegun == \A i \in 0 .. MaxRounds : i > round => booked[i] = 0

\* Without a crash, legs are only in the file while their round runs or is
\* being booked.
LegsOfRound ==
    restarts = 0 /\ ~Running /\ epc \notin {"finish2", "finish3"} => legs = NoLegs

\* After one crash at most, they are those of a round not yet booked.
Unbooked ==
    restarts <= 1 /\ legs # NoLegs /\ (Running \/ epc = "finish2") => booked[round] = 0

BookInv == Unbegun /\ LegsOfRound /\ Unbooked

\* A step that leaves the books alone: nothing they are about changes.
Unrelated ==
    /\ UNCHANGED <<legs, round, booked, restarts>>
    /\ mode \in {"HOLDING", "EXITING"} <=> mode' \in {"HOLDING", "EXITING"}
    /\ epc' = epc \/ (epc \notin BookingPlaces /\ epc' \notin BookingPlaces)

\* One that clears the round, and the first write of a booking.
Clears == legs' = NoLegs /\ UNCHANGED <<round, booked>>

BeginsBooking ==
    /\ UNCHANGED <<legs, round, booked, restarts>>
    /\ mode = "EXITING" /\ epc # "confirm2"
    /\ mode' = "COOLDOWN" /\ epc' = "finish2"

\* Those are all the steps there are, beside a crash, the ledger line, and
\* the two writes of confirm_hold that begin a round.
LEMMA BookSteps ==
    ASSUME IInv, [Next]_vars
    PROVE  \/ Unrelated \/ Clears \/ BeginsBooking \/ Down \/ FinishLedger
           \/ (Holding /\ mode = "ENTERING" /\ epc \notin BookingPlaces) \/ ConfirmLegs
<1> USE DEF IInv, EngineInv, Control
<1>0. Control
  OBVIOUS
<1>1. CASE EngineStep
  <2>1. CASE RecoverShadow
    <3>1. CASE mode = "ENTERING"
      BY <2>1, <3>1, SMT DEF RecoverShadow, LeaveEntry, To, In, Unrelated, BookingPlaces, SameBook
    <3>2. CASE mode # "ENTERING"
      <4>1. SameFile /\ restarts' = restarts /\ epc = "recover"
            /\ epc' \in {"fetch", "closed", "closing"}
        BY <2>1, <3>2, Zenon DEF RecoverShadow, CloseAndFinish, In
      <4> QED
        BY <4>1, SMT DEF SameFile, SameRound, SameBook, Unrelated, BookingPlaces
    <3> QED
      BY <3>1, <3>2
  <2>2. CASE RecoverFlat
    <3>1. CASE mode = "ENTERING"
      BY <2>2, <3>1, SMT DEF RecoverFlat, LeaveEntry, To, In, Unrelated, BookingPlaces, SameBook
    <3>2. CASE mode # "ENTERING"
      BY <2>2, <3>2, SMT DEF RecoverFlat, FinishExit, BeginsBooking, SameBook, In
    <3> QED
      BY <3>1, <3>2
  <2>3. CASE ShadowClosed
    BY <2>3, SMT DEF ShadowClosed, FinishExit, BeginsBooking, SameBook, In
  <2>4. CASE LiveClosed
    <3>1. CASE res = "closed"
      BY <2>4, <3>1, SMT DEF LiveClosed, FinishExit, BeginsBooking, SameBook, In
    <3>2. CASE res # "closed"
      <4>1. Latch(ret) /\ epc = "closing" /\ ret \in Returns
        BY <2>4, <3>2, Zenon DEF LiveClosed, In, EngineTypeOK
      <4> QED
        BY <4>1, SMT DEF Latch, SameRound, SameBook, To, Unrelated, BookingPlaces, Returns
    <3> QED
      BY <3>1, <3>2
  <2>5. CASE Hold \/ Drawdown
    <3>1. epc \in {"hold", "fetch"} /\ (mode # "HOLDING" => epc = "fetch")
      BY <2>5, Zenon DEF Hold, Drawdown, In
    <3>2. restarts' = restarts /\ UNCHANGED <<legs, round, booked>>
          /\ epc' \in {"tick", "ddhalt", "closed", "closing"}
      BY <2>5, Zenon DEF Hold, Watchdog, CheckSingleLeg, HoldOn, Drawdown, DoExit, CloseAndFinish, Latch, To,
         SameFile, SameRound, SameBook
    <3>3. mode' = mode \/ (mode = "HOLDING" /\ mode' = "EXITING")
      <4>1. UNCHANGED mode \/ mode' = "EXITING"
        BY <2>5, Zenon DEF Hold, Watchdog, CheckSingleLeg, HoldOn, Drawdown, DoExit, Latch, SameFile, SameRound
      <4>2. UNCHANGED mode \/ mode = "HOLDING"
        BY <2>5, Zenon DEF Hold, Drawdown, In, Latch, SameRound
      <4> QED
        BY <4>1, <4>2
    <3> QED
      BY <3>1, <3>2, <3>3, SMT DEF Unrelated, BookingPlaces
  <2>6. CASE LiveFailed \/ RollBack \/ FinishSave \/ ClearLegs
    <3>1. CASE ClearLegs \/ FinishSave
      BY <3>1, Zenon DEF ClearLegs, FinishSave, SameBook, Clears
    <3>2. CASE LiveFailed \/ (RollBack /\ ~Latch("tick"))
      <4>1. mode = "ENTERING" /\ mode' \in {"IDLE", "COOLDOWN"} /\ epc \in {"opening", "orders"}
            /\ epc' = "aborted" /\ UNCHANGED <<legs, round, booked, restarts>>
        BY <3>2, Zenon DEF LiveFailed, RollBack, LeaveEntry, In, To, SameBook
      <4> QED
        BY <4>1, SMT DEF Unrelated, BookingPlaces
    <3>3. CASE RollBack /\ Latch("tick")
      BY <3>3, SMT DEF RollBack, In, Latch, To, SameRound, SameBook, Unrelated, BookingPlaces
    <3> QED
      BY <2>6, <3>1, <3>2, <3>3
  <2>7. CASE ShadowFilled \/ LiveFilled
    BY <2>7, SMT DEF ShadowFilled, LiveFilled, In, BookingPlaces
  <2>8. CASE Decide \/ Entry \/ GateOpen
    <3>1. epc \in {"fetch", "entry", "gate"} /\ UNCHANGED <<legs, round, booked, restarts>>
          /\ epc' \in {"idle", "hold", "tick", "shadowfill", "gate", "opening"}
      BY <2>8, Zenon DEF Decide, Entry, GateOpen, In, To, SameBook
    <3>2. mode' = mode \/ (mode = "COOLDOWN" /\ mode' = "IDLE")
          \/ (mode = "IDLE" /\ mode' = "ENTERING")
      BY <1>0, <2>8, Zenon DEF Decide, Entry, GateOpen, In, Control
    <3> QED
      BY <3>1, <3>2, SMT DEF Unrelated, BookingPlaces
  <2>9. CASE \/ Arm \/ StartupHalt \/ MakerProbe \/ MakerProven \/ TickBegin
             \/ RecoverHalt \/ NoTrading \/ DrawdownHalt \/ IdleCheck \/ GateHalt
             \/ LiveNaked \/ RecoverResume
    <3>1. SameRound /\ UNCHANGED booked
      BY <2>9, Zenon DEF Arm, StartupHalt, MakerProbe, MakerProven, TickBegin, RecoverHalt,
         NoTrading, DrawdownHalt, IdleCheck, GateHalt, LiveNaked, RecoverResume, Latch,
         SameFile, SameBook
    <3>2. restarts' = restarts
      BY <2>9, Zenon DEF Arm, StartupHalt, MakerProbe, MakerProven, TickBegin, RecoverHalt,
         NoTrading, DrawdownHalt, IdleCheck, GateHalt, LiveNaked, RecoverResume, Latch,
         To, CloseAndFinish
    <3>3. epc \in {"arm", "startup", "probe", "proven", "tick", "recover", "fetch",
                   "ddhalt", "idle", "gate", "opening"}
      BY <2>9, Zenon DEF Arm, StartupHalt, MakerProbe, MakerProven, TickBegin, RecoverHalt,
         NoTrading, DrawdownHalt, IdleCheck, GateHalt, LiveNaked, RecoverResume, In
    <3>4. epc' \in {"startup", "probe", "proven", "tick", "recover", "fetch", "entry",
                    "orders", "closing", "closed"}
      BY <2>9, Zenon DEF Arm, StartupHalt, MakerProbe, MakerProven, TickBegin, RecoverHalt,
         NoTrading, DrawdownHalt, IdleCheck, GateHalt, LiveNaked, RecoverResume, Latch,
         To, CloseAndFinish
    <3> QED
      BY <3>1, <3>2, <3>3, <3>4, SMT DEF SameRound, Unrelated, BookingPlaces
  <2>10. CASE ConfirmShadow
    BY <2>10, SMT DEF ConfirmShadow, In, To, SameBook, Unrelated, BookingPlaces
  <2> QED
    BY <1>1, <2>1, <2>2, <2>3, <2>4, <2>5, <2>6, <2>7, <2>8, <2>9, <2>10, Zenon DEF EngineStep
<1>2. CASE Executor \/ VenueActs \/ Flatten \/ UNCHANGED vars
  <2>1. UNCHANGED engineVars /\ UNCHANGED legs
    BY <1>2, Zenon DEF Executor, ExecStep, At, ledgerVars, Baseline, CloseNothing, Submit,
       Confirm, RetryClose, MakerQuote, MakerWait, MakerCancel, MakerVerify, Sweep,
       ReadPrices, CheckOrders, PullOrders, FlattenVar, FlattenDust, VenueActs, Flatten, vars
  <2> QED
    BY <2>1, Zenon DEF engineVars, fileVars, Unrelated
<1>3. CASE Start
  BY <1>3, SMT DEF Start, In, To, SameRound, Unrelated, BookingPlaces
<1>4. CASE ClearHalt \/ ClearCooldown \/ NewDay
  BY <1>4, SMT DEF ClearHalt, ClearCooldown, NewDay, SameRound, SameBook, Unrelated
<1> QED
  BY <1>1, <1>2, <1>3, <1>4, Zenon DEF Next, Operator

LEMMA BookStepKeeps ==
    ASSUME IInv, BookInv, [Next]_vars
    PROVE  BookInv'
<1> USE DEF BookInv, Unbegun, LegsOfRound, Unbooked, Running
<1>0. /\ round \in 0 .. MaxRounds /\ MaxRounds \in Nat /\ restarts \in Nat
      /\ booked \in [0 .. MaxRounds -> Nat] /\ Control
  BY EngineAssumption, SMT DEF IInv, EngineInv, EngineTypeOK
<1>1. CASE Unrelated
  BY <1>1, SMT DEF Unrelated, BookingPlaces
<1>2. CASE Clears
  BY <1>2, Zenon DEF Clears
<1>3. CASE BeginsBooking
  BY <1>3, SMT DEF BeginsBooking
<1>4. CASE Down
  <2>1. /\ UNCHANGED <<legs, round, booked, mode>>
        /\ restarts' = restarts + 1 /\ epc' = "down"
    BY <1>4, Zenon DEF Down, SameFile, SameRound, SameBook
  <2> QED
    BY <1>0, <2>1, SMT
<1>5. CASE FinishLedger
  <2>1. /\ UNCHANGED <<legs, round, restarts>> /\ mode' = "COOLDOWN" /\ epc' = "finish3"
        /\ booked' = booked \/ booked' = [booked EXCEPT ![round] = @ + 1]
    BY <1>0, <1>5, Zenon DEF FinishLedger, In, To, SameRound, Control
  <2> QED
    BY <1>0, <2>1, SMT
<1>6. CASE Holding /\ mode = "ENTERING" /\ epc \notin BookingPlaces
  <2>1. UNCHANGED <<legs, round, booked, restarts>> /\ epc' = "confirm2"
    BY <1>6, Zenon DEF Holding, To, SameBook
  <2> QED
    BY <1>6, <2>1, SMT DEF BookingPlaces
<1>7. CASE ConfirmLegs
  <2>1. UNCHANGED <<booked, restarts>> /\ mode' = "HOLDING" /\ epc' = "confirm3"
        /\ round' = round + 1 /\ round < MaxRounds
    BY <1>0, <1>7, Zenon DEF ConfirmLegs, In, To, SameBook, Control
  <2> QED
    BY <1>0, <2>1, SMT
<1> QED
  BY <1>1, <1>2, <1>3, <1>4, <1>5, <1>6, <1>7, BookSteps

\* One crash, wherever it falls, does not book a round that has its legs a
\* second time (finish_exit, confirm_hold, backfill_venue_realized).  A round
\* whose legs were never written carries the id of the one before; of what it
\* books nothing is said.
THEOREM BooksOnce == Spec => OneCrashBooksOnce
<1> DEFINE Once == booked' # booked /\ legs # NoLegs /\ restarts <= 1 => booked[round] = 0
<1>1. Init => BookInv
  BY SMT DEF Init, ExecInit, BookInv, Unbegun, LegsOfRound, Unbooked
<1>2. IInv /\ BookInv /\ [Next]_vars => BookInv'
  BY BookStepKeeps
<1>3. IInv /\ BookInv /\ [Next]_vars => Once
  <2> SUFFICES ASSUME IInv, BookInv, [Next]_vars, booked' # booked PROVE Once
    OBVIOUS
  <2>1. FinishLedger
    <3>1. ~(Unrelated \/ Clears \/ BeginsBooking)
      BY Zenon DEF Unrelated, Clears, BeginsBooking
    <3>2. ~(Down \/ Holding \/ ConfirmLegs)
      BY Zenon DEF Down, SameFile, SameBook, Holding, ConfirmLegs
    <3> QED
      BY <3>1, <3>2, BookSteps
  <2> QED
    BY <2>1, Zenon DEF FinishLedger, In, BookInv, Unbooked
<1>4. IInv /\ BookInv /\ [Next]_vars => [Once]_vars
  BY <1>3
<1> QED
  BY Invariance, <1>1, <1>2, <1>4, PTL DEF Spec, OneCrashBooksOnce

-----------------------------------------------------------------------------
(***************************************************************************)
(* Orders that stack up.  On venues that are not late, an order is gone by *)
(* the next tick, so from there until the next open call nothing is on     *)
(* order to open, and that call reads flat before it orders.               *)
(***************************************************************************)
Half == LotStep \div 2

\* The places a tick goes through before or without an open call.
Ticking == {"recover", "fetch", "idle", "entry", "gate", "shadowfill", "hold",
            "closing", "closed", "finish2", "finish3", "recovered", "ddhalt"}

NoOpenOrder == epc \in Ticking => flight["var"]["open"] = 0

\* An open call that has not ordered yet finds Variational flat.
OpensFlat ==
    epc = "opening" /\ pc \in {"base", "submit"} =>
        leg = "var" /\ flight["var"]["open"] = 0 /\ pos["var"] <= Half

CallOfPlace ==
    /\ epc = "opening" => call = "open"
    /\ epc = "closing" => call = "close"

StackInv == CallOfPlace /\ NoOpenOrder /\ OpensFlat /\ NeverStacks

\* Within half a lot, counted in whole units.
LEMMA HalfLot ==
    ASSUME NEW n \in Nat
    PROVE  /\ WithinHalfLot(n) <=> n <= Half
           /\ Half \in Nat
<1>1. Abs(n) = n
  BY SMT DEF Abs
<1>2. 2 * Half <= LotStep /\ LotStep <= 2 * Half + 1 /\ Half \in Nat
  BY VenueAssumption, SMT DEF Half
<1> HIDE DEF Half
<1> QED
  BY <1>1, <1>2, VenueAssumption, SMT DEF WithinHalfLot

\* A read that is flat is one of a flat Variational.
LEMMA FlatReadFlat ==
    ASSUME VenueTypeOK, NEW r \in ReadsBoth, FlatRead(r)
    PROVE  pos["var"] <= Half
<1>1. "var" \in Venue /\ r["var"] \in Reads("var") /\ WithinHalfLot(r["var"])
  BY Zenon DEF ReadsBoth, FlatRead, Venue
<1>2. r["var"] = pos["var"] /\ pos["var"] \in Nat
  BY <1>1, SMT DEF Reads, VenueTypeOK
<1> QED
  BY <1>1, <1>2, HalfLot, Zenon

\* What a step of the executor does to Variational's opening order: only the
\* open call's RFQ adds to it.
LEMMA ExecutorOrders ==
    ASSUME VenueTypeOK, ExecTypeOK, ExecStep
    PROVE  /\ pos' = pos /\ call' = call
           /\ \/ flight'["var"]["open"] = flight["var"]["open"]
              \/ /\ pc = "submit" /\ leg = "var" /\ call = "open"
                 /\ flight'["var"]["open"] = flight["var"]["open"] + Q
           /\ call = "open" /\ pc' \in {"base", "submit"} =>
                 pc = "base" /\ leg' = leg /\ flight' = flight
<1>1. /\ flight \in [Venue -> [Kind -> Nat]] /\ "var" \in Venue /\ "open" \in Kind
      /\ leg \in Venue /\ call \in {"open", "close"}
  BY SMT DEF VenueTypeOK, ExecTypeOK, Venue, Kind
<1>2. ASSUME NEW v \in Venue, NEW k \in Kind, NEW n,
             Accept(v, k, n) \/ Refuse(v, k, n), ~(v = "var" /\ k = "open")
      PROVE  pos' = pos /\ flight'["var"]["open"] = flight["var"]["open"]
  <2>1. CASE UNCHANGED venueVars
    BY <2>1, Zenon DEF venueVars
  <2>2. CASE Accept(v, k, n)
    BY <1>1, <1>2, <2>2, SMT DEF Accept
  <2> QED
    BY <1>2, <2>1, <2>2, Zenon DEF Refuse
<1>3. ASSUME Raise PROVE call' = call /\ leg' = leg /\ pc' \in {"idle", "pull"}
  BY <1>3, Zenon DEF Raise, Return, Goto
<1>4. CASE Baseline
  <2>1. UNCHANGED venueVars /\ pc = "base"
    BY <1>4, Zenon DEF Baseline, At
  <2>2. UNCHANGED <<call, leg>>
    BY <1>3, <1>4, Zenon DEF Baseline
  <2> QED
    BY <2>1, <2>2, Zenon DEF venueVars
<1>5. CASE Submit
  <2>1. call' = call /\ pc' \in {"confirm", "idle", "pull"} /\ pc = "submit"
    BY <1>3, <1>5, Zenon DEF Submit, Goto, At
  <2>2. Accept(leg, Side, Target(leg)) \/ Refuse(leg, Side, Target(leg))
    BY <1>5, Zenon DEF Submit
  <2>3. CASE leg = "var" /\ call = "open"
    <3>1. Side = "open" /\ Target(leg) = Q
      BY <2>3, Zenon DEF Side, Target
    <3>2. CASE UNCHANGED venueVars
      BY <2>1, <3>2, SMT DEF venueVars
    <3>3. CASE Accept("var", "open", Q)
      <4>1. pos' = pos /\ flight'["var"]["open"] = flight["var"]["open"] + Q
        BY <1>1, <3>3, SMT DEF Accept
      <4> QED
        BY <2>1, <2>3, <4>1, SMT
    <3> QED
      BY <2>2, <2>3, <3>1, <3>2, <3>3, Zenon DEF Refuse
  <2>4. CASE ~(leg = "var" /\ call = "open")
    <3>1. Side \in Kind /\ ~(leg = "var" /\ Side = "open")
      BY <1>1, <2>4, SMT DEF Side, Kind
    <3>2. pos' = pos /\ flight'["var"]["open"] = flight["var"]["open"]
      BY <1>1, <1>2, <2>2, <3>1, Zenon
    <3> QED
      BY <2>1, <3>2, SMT
  <2> QED
    BY <2>3, <2>4
<1>6. CASE RetryClose \/ FlattenVar \/ FlattenDust
  <2>1. \/ \E n : Accept(leg, "reduce", n) \/ Refuse(leg, "reduce", n)
        \/ \E n : Accept("var", "reduce", n) \/ Refuse("var", "reduce", n)
    <3>1. CASE RetryClose
      BY <3>1, Zenon DEF RetryClose
    <3>2. CASE FlattenVar \/ FlattenDust
      BY <3>2, Zenon DEF FlattenVar, FlattenDust
    <3> QED
      BY <1>6, <3>1, <3>2
  <2>2. pos' = pos /\ flight'["var"]["open"] = flight["var"]["open"]
    <3>1. "reduce" \in Kind /\ "reduce" # "open"
      BY SMT DEF Kind
    <3> QED
      BY <1>1, <1>2, <2>1, <3>1, Zenon
  <2>3. call' = call /\ pc' \in {"confirm", "idle", "pull"}
    BY <1>3, <1>6, Zenon DEF RetryClose, FlattenVar, FlattenDust, Return
  <2> QED
    BY <2>2, <2>3, SMT
<1>7. CASE Confirm
  <2>1. UNCHANGED venueVars
    BY <1>7, Zenon DEF Confirm
  <2>2. call' = call /\ (call = "open" => pc' \in {"idle", "pull", "price", "dust", "maker", "sweep"})
    <3>1. Raise \/ \E n : Confirmed(n)
      BY <1>7, Zenon DEF Confirm
    <3>2. ASSUME NEW n, Confirmed(n)
          PROVE  call' = call /\ (call = "open" => pc' \in {"idle", "pull", "price", "dust", "maker", "sweep"})
      BY <3>2, Zenon DEF Confirmed, OpenConfirmed, CloseConfirmed
    <3> QED
      BY <1>3, <3>1, <3>2, Zenon
  <2> QED
    BY <2>1, <2>2, SMT DEF venueVars
<1>8. CASE MakerQuote \/ MakerWait \/ MakerCancel \/ MakerVerify \/ PullOrders
  <2>1. pos' = pos /\ flight' = flight
    BY <1>8, Zenon DEF MakerQuote, MakerWait, MakerCancel, MakerVerify, PullOrders,
       CancelAll, Rest, venueVars
  <2>2. call' = call /\ pc' \in {"idle", "pull", "sweep", "wait", "maker", "cancel",
                                 "verify", "flatten"}
    BY <1>3, <1>8, Zenon DEF MakerQuote, MakerWait, MakerCancel, MakerVerify, PullOrders,
       Goto, At
  <2> QED
    BY <2>1, <2>2, SMT
<1>9. CASE Sweep
  <2>1. call' = call /\ pc' \in {"idle", "pull", "confirm"}
    BY <1>3, <1>9, Zenon DEF Sweep, Goto
  <2>2. UNCHANGED venueVars \/ \E n : Accept("lit", Side, n) \/ Refuse("lit", Side, n)
    BY <1>9, Zenon DEF Sweep
  <2>3. "lit" \in Venue /\ Side \in Kind /\ "lit" # "var"
    BY SMT DEF Venue, Side, Kind
  <2>4. pos' = pos /\ flight'["var"]["open"] = flight["var"]["open"]
    BY <1>2, <2>2, <2>3, Zenon DEF venueVars
  <2> QED
    BY <2>1, <2>4, SMT
<1>10. CASE CloseNothing \/ ReadPrices \/ CheckOrders
  <2>1. UNCHANGED venueVars /\ call' = call /\ pc' \in {"idle", "pull", "orders"}
    BY <1>3, <1>10, Zenon DEF CloseNothing, ReadPrices, CheckOrders, Return, Goto
  <2> QED
    BY <2>1, SMT DEF venueVars
<1> QED
  BY <1>4, <1>5, <1>6, <1>7, <1>8, <1>9, <1>10, Zenon DEF ExecStep

\* The engine's own steps move no position and send no taker order; they
\* reach the places of a tick from its beginning, once orders have settled.
LEMMA EngineMoves ==
    ASSUME IInv, EngineStep
    PROVE  /\ pos' = pos /\ flight' = flight
           /\ epc' \in Ticking => epc \in Ticking \/ (epc = "tick" /\ Quiet)
           /\ epc' = "opening" => GateOpen
           /\ epc' = "closing" => call' = "close"
<1>1. ret \in {"tick", "fetch", "ddhalt"}
  BY Zenon DEF IInv, EngineInv, EngineTypeOK, Returns
<1>2. CASE Arm \/ StartupHalt \/ MakerProbe \/ MakerProven \/ TickBegin
  <2>1. pos' = pos /\ flight' = flight
    BY <1>2, Zenon DEF Arm, StartupHalt, MakerProbe, MakerProven, TickBegin, NoCall,
       NoVenue, venueVars, CancelAll
  <2>2. epc' \in {"startup", "probe", "proven", "tick"} \/ (TickBegin /\ epc' \in {"recover", "fetch"})
    BY <1>2, Zenon DEF Arm, StartupHalt, MakerProbe, MakerProven, TickBegin, Latch, To
  <2>3. TickBegin => epc = "tick" /\ Quiet
    BY Zenon DEF TickBegin, In
  <2> QED
    BY <2>1, <2>2, <2>3, SMT DEF Ticking
<1>3. CASE RecoverShadow \/ RecoverResume
  <2>1. pos' = pos /\ flight' = flight /\ epc = "recover"
    BY <1>3, Zenon DEF RecoverShadow, RecoverResume, NoVenue, venueVars, In
  <2>2. epc' \in {"fetch", "recovered", "closed"} \/ (epc' = "closing" /\ call' = "close")
    BY <1>3, Zenon DEF RecoverShadow, RecoverResume, LeaveEntry, To, CloseAndFinish, Called
  <2> QED
    BY <2>1, <2>2, SMT DEF Ticking
<1>4. CASE Drawdown \/ Hold
  <2>1. pos' = pos /\ flight' = flight /\ epc \in {"fetch", "hold"}
    BY <1>4, Zenon DEF Drawdown, Hold, NoVenue, venueVars, In
  <2>2. epc' \in {"tick", "ddhalt", "closed"} \/ (epc' = "closing" /\ call' = "close")
    BY <1>4, Zenon DEF Drawdown, Hold, Watchdog, CheckSingleLeg, HoldOn, DoExit, Latch, To, CloseAndFinish, Called
  <2> QED
    BY <2>1, <2>2, SMT DEF Ticking
<1>5. CASE \/ RecoverHalt \/ RecoverFlat \/ NoTrading \/ DrawdownHalt \/ Decide
           \/ IdleCheck \/ Entry \/ GateHalt \/ ShadowFilled
  <2>1. pos' = pos /\ flight' = flight
    BY <1>5, Zenon DEF RecoverHalt, RecoverFlat, NoTrading, DrawdownHalt, Decide, IdleCheck,
       Entry, GateHalt, ShadowFilled, Holding, NoCall, NoVenue, venueVars
  <2>2. epc \in {"recover", "fetch", "ddhalt", "idle", "entry", "gate", "shadowfill"}
    BY <1>5, Zenon DEF RecoverHalt, RecoverFlat, NoTrading, DrawdownHalt, Decide, IdleCheck,
       Entry, GateHalt, ShadowFilled, In
  <2>3. epc' \in {"fetch", "recovered", "finish2", "tick", "idle", "hold", "entry", "shadowfill",
                  "gate", "confirm2"}
    BY <1>5, Zenon DEF LeaveEntry, RecoverHalt, RecoverFlat, NoTrading, DrawdownHalt, Decide, IdleCheck,
       Entry, GateHalt, ShadowFilled, Holding, FinishExit, Latch, To
  <2> QED
    BY <2>1, <2>2, <2>3, SMT DEF Ticking
<1>6. CASE GateOpen
  <2>1. pos' = pos /\ flight' = flight /\ epc' = "opening"
    BY <1>6, Zenon DEF GateOpen, NoVenue, venueVars, To
  <2> QED
    BY <1>6, <2>1, SMT DEF Ticking
<1>7. CASE LiveFilled \/ LiveFailed \/ LiveNaked \/ RollBack \/ ConfirmLegs \/ ConfirmShadow
  <2>1. pos' = pos /\ flight' = flight
    BY <1>7, Zenon DEF LiveFilled, LiveFailed, LiveNaked, RollBack, ConfirmLegs,
       ConfirmShadow, Holding, NoCall, NoVenue, venueVars
  <2>2. epc' \in {"confirm2", "tick", "aborted", "orders", "confirm3"}
    BY <1>7, Zenon DEF LeaveEntry, LiveFilled, LiveFailed, LiveNaked, RollBack, ConfirmLegs,
       ConfirmShadow, Holding, Latch, To
  <2> QED
    BY <2>1, <2>2, SMT DEF Ticking
<1>8. CASE ShadowClosed \/ LiveClosed \/ FinishLedger \/ FinishSave
  <2>1. pos' = pos /\ flight' = flight
    BY <1>8, Zenon DEF ShadowClosed, LiveClosed, FinishLedger, FinishSave, NoCall, NoVenue,
       venueVars
  <2>2. epc \in {"closing", "closed", "finish2", "finish3"}
    BY <1>8, Zenon DEF ShadowClosed, LiveClosed, FinishLedger, FinishSave, In
  <2>3. epc' \in {"finish2", "finish3", ret}
    BY <1>8, Zenon DEF ShadowClosed, LiveClosed, FinishLedger, FinishSave, FinishExit, Latch, To
  <2> QED
    BY <1>1, <2>1, <2>2, <2>3, SMT DEF Ticking
<1>9. CASE ClearLegs
  <2>1. pos' = pos /\ flight' = flight /\ (epc = "recovered" \/ epc' = "tick")
        /\ epc' \in {"tick", "fetch"}
    BY <1>9, Zenon DEF ClearLegs, NoCall, NoVenue, venueVars, In, To
  <2> QED
    BY <2>1, SMT DEF Ticking
<1> QED
  BY <1>2, <1>3, <1>4, <1>5, <1>6, <1>7, <1>8, <1>9, Zenon DEF EngineStep

\* A gate that opens does so on a flat Variational, with a call that has not
\* ordered.
LEMMA GateFlat ==
    ASSUME IInv, GateOpen
    PROVE  /\ pos["var"] <= Half /\ epc = "gate" /\ epc' = "opening"
           /\ call' = "open" /\ pc' = "base" /\ leg' = "var"
           /\ pos' = pos /\ flight' = flight
<1>1. PICK r \in ReadsBoth : FlatRead(r)
  BY Zenon DEF GateOpen
<1>2. pos["var"] <= Half
  BY <1>1, FlatReadFlat, Zenon DEF IInv, ExecInv
<1> QED
  BY <1>2, Zenon DEF GateOpen, In, To, Called, NoVenue, venueVars

\* Settled orders are none, if the venues are not late.
LEMMA QuietSettles ==
    ASSUME "late" \notin Faults, Quiet
    PROVE  \A v \in Venue, k \in Kind : flight[v][k] = 0
BY SMT DEF Quiet, Settled, NoOrders

LEMMA StackStepKeeps ==
    ASSUME IInv, StackInv, "late" \notin Faults, [Next]_vars
    PROVE  StackInv'
<1> USE DEF StackInv
<1>0. /\ pos["var"] \in Nat /\ flight["var"]["open"] \in Nat /\ Q \in Nat /\ Half \in Nat
      /\ VenueTypeOK /\ ExecTypeOK
  BY ExecutorAssumption, HalfLot, SMT DEF IInv, ExecInv, VenueTypeOK, Venue, Kind
<1>1. NeverStacks <=> pos["var"] + flight["var"]["open"] <= Q + Half
  BY Zenon DEF NeverStacks, Half
<1>2. NeverStacks' <=> pos'["var"] + flight'["var"]["open"] <= Q + Half
  BY Zenon DEF NeverStacks, Half
<1>3. CASE EngineStep
  <2>1. pos' = pos /\ flight' = flight /\ NeverStacks'
    BY <1>1, <1>2, <1>3, EngineMoves, SMT
  <2>2. NoOpenOrder'
    <3>1. epc' \in Ticking => flight["var"]["open"] = 0
      BY <1>3, EngineMoves, QuietSettles, Zenon DEF NoOpenOrder, Venue, Kind
    <3> QED
      BY <2>1, <3>1, Zenon DEF NoOpenOrder
  <2>3. OpensFlat' /\ CallOfPlace'
    <3>1. CASE epc' = "opening"
      <4>1. GateOpen
        BY <1>3, <3>1, EngineMoves
      <4>2. flight["var"]["open"] = 0
        BY <4>1, GateFlat, SMT DEF NoOpenOrder, Ticking
      <4> QED
        BY <2>1, <4>1, <4>2, GateFlat, SMT DEF OpensFlat, CallOfPlace
    <3>2. CASE epc' # "opening"
      BY <1>3, <3>2, EngineMoves, Zenon DEF OpensFlat, CallOfPlace
    <3> QED
      BY <3>1, <3>2
  <2> QED
    BY <2>1, <2>2, <2>3
<1>4. CASE Executor
  <2>1. ExecStep /\ epc' = epc /\ epc \in {"opening", "closing"}
    BY <1>4, Zenon DEF Executor, engineVars
  <2>2. /\ pos' = pos /\ call' = call
        /\ \/ flight'["var"]["open"] = flight["var"]["open"]
           \/ /\ pc = "submit" /\ leg = "var" /\ call = "open"
              /\ flight'["var"]["open"] = flight["var"]["open"] + Q
        /\ call = "open" /\ pc' \in {"base", "submit"} =>
              pc = "base" /\ leg' = leg /\ flight' = flight
    BY <1>0, <2>1, ExecutorOrders
  <2>3. CallOfPlace'
    BY <2>1, <2>2, Zenon DEF CallOfPlace
  <2>4. NeverStacks'
    BY <1>0, <1>1, <1>2, <2>1, <2>2, SMT DEF OpensFlat, CallOfPlace
  <2>5. NoOpenOrder'
    BY <1>0, <2>1, <2>2, SMT DEF NoOpenOrder, CallOfPlace, Ticking
  <2>6. OpensFlat'
    BY <2>1, <2>2, SMT DEF OpensFlat, CallOfPlace
  <2> QED
    BY <2>3, <2>4, <2>5, <2>6
<1>5. CASE VenueActs
  <2>1. VenueStep /\ UNCHANGED <<epc, call, pc, leg>>
    BY <1>5, Zenon DEF VenueActs, execVars, engineVars
  <2>2. /\ pos'["var"] \in Nat /\ flight'["var"]["open"] \in Nat
        /\ pos'["var"] + flight'["var"]["open"] <= pos["var"] + flight["var"]["open"]
    BY <1>0, <2>1, ExposureFalls
  <2>3. flight'["var"]["open"] <= flight["var"]["open"]
    BY <1>0, <2>1, VenuesFillDown, Zenon DEF Venue, Kind
  <2> QED
    BY <1>0, <1>1, <1>2, <2>1, <2>2, <2>3, SMT DEF NoOpenOrder, OpensFlat, CallOfPlace
<1>6. CASE Start \/ Down
  <2>1. epc' \in {"arm", "down"} /\ UNCHANGED <<pos, flight>>
    BY <1>6, Zenon DEF Start, Down, To, NoCall, NoVenue, venueVars
  <2> QED
    BY <1>1, <1>2, <2>1, SMT DEF NoOpenOrder, OpensFlat, CallOfPlace, Ticking
<1>7. CASE Flatten
  <2>1. epc' = "down" /\ flight' = flight /\ pos' = Flat /\ Quiet
    BY <1>7, Zenon DEF Flatten, In, engineVars
  <2>2. flight["var"]["open"] = 0 /\ pos'["var"] = 0
    BY <2>1, QuietSettles, SMT DEF Venue, Kind, Flat
  <2> QED
    BY <1>0, <1>2, <2>1, <2>2, SMT DEF NoOpenOrder, OpensFlat, CallOfPlace, Ticking
<1>8. CASE ClearHalt \/ ClearCooldown \/ NewDay \/ UNCHANGED vars
  <2>1. UNCHANGED <<epc, call, pc, leg, pos, flight>>
    BY <1>8, Zenon DEF ClearHalt, ClearCooldown, NewDay, NoCall, NoExec, NoVenue, venueVars,
       execVars, vars, engineVars
  <2> QED
    BY <1>1, <1>2, <2>1, Zenon DEF NoOpenOrder, OpensFlat, CallOfPlace
<1> QED
  BY <1>3, <1>4, <1>5, <1>6, <1>7, <1>8, Zenon DEF Next, Operator

LEMMA StackStarts == Init => StackInv
<1> SUFFICES ASSUME Init PROVE StackInv
  OBVIOUS
<1>1. pos["var"] = 0 /\ flight["var"]["open"] = 0 /\ epc = "down"
  BY SMT DEF Init, VenueInit, Flat, NoOrders, Venue, Kind
<1>2. Half \in Nat /\ Q \in Nat /\ (NeverStacks <=> pos["var"] + flight["var"]["open"] <= Q + Half)
  BY HalfLot, ExecutorAssumption, Zenon DEF NeverStacks, Half
<1> QED
  BY <1>1, <1>2, SMT DEF StackInv, CallOfPlace, NoOpenOrder, OpensFlat, Ticking

\* Two rounds' Variational orders never stack up, on venues whose orders are
\* gone by the next tick: late ones outlive what _preopen_flat_or_halt reads
\* (the 9/8 incident).
THEOREM StacksNever == "late" \notin Faults => (Spec => []NeverStacks)
<1> SUFFICES ASSUME "late" \notin Faults PROVE Spec => []NeverStacks
  OBVIOUS
<1>1. Init => StackInv
  BY StackStarts
<1>2. IInv /\ StackInv /\ [Next]_vars => StackInv'
  BY StackStepKeeps
<1>3. StackInv => NeverStacks
  BY DEF StackInv
<1> QED
  BY Invariance, <1>1, <1>2, <1>3, PTL DEF Spec

-----------------------------------------------------------------------------
(***************************************************************************)
(* Phantom closes.  Where orders neither come late nor fill in pieces, a   *)
(* round's Variational leg is the whole RFQ or nothing.  Bookable follows  *)
(* it from the open call's RFQ, through the ledger, to the moment a close  *)
(* has taken the whole of it off again.                                    *)
(***************************************************************************)
Held == pos["var"]
Opening == flight["var"]["open"]
Reducing == flight["var"]["reduce"]
Before == base["var"]

\* The ledger has the whole leg, as every open that reports it filled did.
WholeLegs == legs = NoLegs \/ legs["var"] = Q
WholeFilled == res = "filled" => got["var"] = Q

\* A close on paper is one of a paper round.
PaperCloses == epc = "closed" => shadow

\* Nothing is on order to reduce where a tick trades; a close that raised may
\* leave such an order, but also a HALT.
Trades ==
    \/ epc \in {"recover", "idle", "entry", "gate", "shadowfill", "hold", "closed",
                "finish2", "finish3", "recovered"}
    \/ epc = "fetch" /\ ~halt

NoReduceOrder == Trades => Reducing = 0

\* A call that runs has no outcome; past its Variational leg it works Lighter.
Pending == pc # "idle" => res = "none"
LegOfPlace ==
    pc \in {"maker", "wait", "cancel", "verify", "sweep", "price", "orders",
            "pull", "flatten"} => leg = "lit"

\* The open call, up to the confirmation of its RFQ.
OpensWhole ==
    epc = "opening" =>
        /\ pc \in {"base", "submit"} \/ (pc = "confirm" /\ leg = "var") => Reducing = 0
        /\ pc = "submit" => Held = Before
        /\ pc = "confirm" /\ leg = "var" =>
              /\ Opening \in {0, Q}
              /\ Held = Before \/ (Held = Before + Q /\ Opening = 0)
        /\ leg = "lit" => got["var"] = Q

\* The close call, up to the confirmation that the whole leg is off.
ClosesWhole ==
    epc = "closing" =>
        /\ pc \notin {"price", "orders", "pull", "flatten", "dust"}
        /\ legs = NoLegs => pc \in {"idle", "base"} /\ leg = "var"
        /\ pc \in {"base", "submit", "retry"} \/ leg = "lit" \/ res = "closed" => Reducing = 0
        /\ leg = "var" /\ pc \in {"submit", "confirm", "retry"} =>
              Before <= Q + Half /\ Held <= Before
        /\ leg = "var" /\ pc = "submit" => Held = Before
        /\ leg = "var" /\ pc = "retry" => Before - Held < Q
        /\ leg = "var" /\ pc = "confirm" =>
              Reducing = 0 \/ (Before - Held < Q /\ (retried \/ Held = Before))
        /\ leg = "lit" => Held <= Half
        /\ res = "closed" => leg = "lit" \/ legs = NoLegs

Bookable ==
    /\ WholeLegs /\ WholeFilled /\ PaperCloses /\ NoReduceOrder
    /\ Pending /\ LegOfPlace /\ OpensWhole /\ ClosesWhole

LEMMA BookableTypes ==
    ASSUME ExecInv
    PROVE  /\ Held \in Nat /\ Opening \in Nat /\ Reducing \in Nat /\ Before \in Nat
           /\ got["var"] \in Nat /\ Half \in Nat /\ Q \in Nat \ {0}
           /\ leg \in Venue /\ call \in {"open", "close"} /\ "var" \in Venue /\ "lit" \in Venue
           /\ "open" \in Kind /\ "reduce" \in Kind
           /\ flight \in [Venue -> [Kind -> Nat]] /\ got \in [Venue -> Nat]
           /\ base \in [Venue -> Nat] /\ legs \in [Venue -> Nat]
BY HalfLot, ExecutorAssumption, SMT
   DEF ExecInv, VenueTypeOK, ExecTypeOK, Held, Opening, Reducing, Before, Venue, Kind

\* A Variational read shows what is held.
LEMMA VarRead == Reads("var") = {Held}
BY SMT DEF Reads, Held

-----------------------------------------------------------------------------
\* What any step of a running call keeps: which leg it works, what it has
\* confirmed at Variational once it works Lighter, and that only the end of
\* an open reports it filled.
LEMMA PlacesKeep ==
    ASSUME ExecInv, Pending, LegOfPlace, ExecStep
    PROVE  /\ Pending' /\ LegOfPlace' /\ legs' = legs
           /\ leg = "lit" => leg' = "lit" /\ got'["var"] = got["var"]
           /\ res' = "filled" => pc = "orders" /\ got' = got
<1> USE DEF Pending, LegOfPlace
<1> DEFINE Lit == {"maker", "wait", "cancel", "verify", "sweep", "price", "orders",
                   "pull", "flatten"}
<1>0. pc # "idle" /\ legs' = legs
  BY Zenon DEF ExecStep, At, ledgerVars, Baseline, CloseNothing, Submit,
     Confirm, RetryClose, MakerQuote, MakerWait, MakerCancel, MakerVerify, Sweep,
     ReadPrices, CheckOrders, PullOrders, FlattenVar, FlattenDust
<1>1. res = "none"
  BY <1>0
<1>2. ASSUME Raise
      PROVE  /\ leg' = leg /\ got' = got /\ res' # "filled"
             /\ pc' = "idle" \/ (pc' = "pull" /\ leg = "lit" /\ res' = res)
  BY <1>1, <1>2, SMT DEF Raise, Return, Goto
<1>3. CASE Baseline
  <2>1. CASE Raise
    BY <1>0, <1>1, <1>2, <2>1, SMT
  <2>2. CASE ~Raise
    <3>1. UNCHANGED <<leg, got, res, call>> /\ pc' = (IF call = "close" /\ leg = "lit" /\ maker /\ calm
                                             THEN "maker" ELSE "submit") /\ pc = "base"
      BY <1>3, <2>2, Zenon DEF Baseline, At
    <3> QED
      BY <1>0, <1>1, <3>1, SMT
  <2> QED
    BY <2>1, <2>2
<1>4. CASE Submit \/ RetryClose
  <2>1. Raise \/ (pc' = "confirm" /\ UNCHANGED <<leg, got, res>>)
    BY <1>4, Zenon DEF Submit, RetryClose, Goto
  <2> QED
    BY <1>0, <1>1, <1>2, <2>1, SMT
<1>5. CASE Confirm
  <2>1. Raise \/ \E n : Confirmed(n)
    BY <1>5, Zenon DEF Confirm
  <2>2. ASSUME NEW n, Confirmed(n)
        PROVE  /\ leg' = leg \/ (leg = "var" /\ leg' = "lit")
               /\ res' # "filled" /\ (pc' # "idle" => res' = res)
               /\ pc' \in {"idle", "base", "retry", "dust"} \/ (pc' \in Lit /\ leg' = "lit")
    <3>1. CASE call = "open"
      <4>1. OpenConfirmed(n)
        BY <2>2, <3>1, Zenon DEF Confirmed
      <4> QED
        BY <1>1, <3>1, <4>1, BookableTypes, SMT DEF OpenConfirmed, Venue
    <3>2. CASE call # "open"
      <4>1. CloseConfirmed(n)
        BY <2>2, <3>2, Zenon DEF Confirmed
      <4> QED
        BY <1>1, <3>2, <4>1, SMT DEF CloseConfirmed
    <3> QED
      BY <3>1, <3>2
  <2>3. ASSUME NEW n, Confirmed(n), leg = "lit" PROVE got'["var"] = got["var"]
    <3>1. got' = [got EXCEPT !["lit"] = n]
      BY <2>3, Zenon DEF Confirmed
    <3> QED
      BY <3>1, BookableTypes, SMT
  <2> QED
    BY <1>0, <1>1, <1>2, <2>1, <2>2, <2>3, SMT
<1>6. CASE \/ MakerQuote \/ MakerWait \/ MakerCancel \/ MakerVerify \/ Sweep
           \/ ReadPrices \/ PullOrders \/ FlattenVar
  <2>1. leg = "lit"
    BY <1>6, SMT DEF MakerQuote, MakerWait, MakerCancel, MakerVerify, Sweep, ReadPrices,
       PullOrders, FlattenVar, At
  <2>2. UNCHANGED <<leg, got>> /\ res' # "filled" /\ (pc' = "idle" \/ res' = res)
    <3>1. CASE Raise
      BY <1>1, <1>2, <3>1, SMT
    <3>2. CASE ~Raise /\ (MakerQuote \/ MakerWait \/ MakerCancel \/ MakerVerify \/ Sweep)
      BY <1>1, <3>2, SMT DEF MakerQuote, MakerWait, MakerCancel, MakerVerify, Sweep, Goto, At
    <3>3. CASE ReadPrices \/ PullOrders \/ FlattenVar
      BY <1>1, <3>3, SMT DEF ReadPrices, PullOrders, FlattenVar, Goto, Return
    <3> QED
      BY <1>6, <3>1, <3>2, <3>3
  <2> QED
    BY <1>0, <2>1, <2>2, SMT
<1>7. CASE CheckOrders
  BY <1>0, <1>7, SMT DEF CheckOrders, Return, At
<1>8. CASE CloseNothing \/ FlattenDust
  <2>1. Raise \/ (pc' = "idle" /\ UNCHANGED <<leg, got>> /\ res' # "filled")
    BY <1>8, SMT DEF CloseNothing, FlattenDust, Return
  <2> QED
    BY <1>0, <1>1, <1>2, <2>1, SMT
<1> QED
  BY <1>3, <1>4, <1>5, <1>6, <1>7, <1>8, Zenon DEF ExecStep

\* A step of the open call.
LEMMA OpeningKeeps ==
    ASSUME ExecInv, StackInv, Bookable, epc = "opening", epc' = epc, ExecStep
    PROVE  OpensWhole'
<1>0. /\ pc # "retry" /\ call = "open" /\ call' = "open" /\ pos' = pos
      /\ pc \in {"base", "submit"} => leg = "var" /\ Opening = 0
  BY ExecutorOrders, SMT DEF ExecInv, ExecShape, StackInv, CallOfPlace, OpensFlat, Opening
<1>1. /\ leg = "lit" => leg' = "lit" /\ got'["var"] = got["var"] /\ got["var"] = Q
      /\ pc' \in {"base", "submit"} => pc = "base" /\ leg' = leg /\ flight' = flight
  BY <1>0, PlacesKeep, ExecutorOrders, Zenon DEF Bookable, OpensWhole, ExecInv
<1>2. CASE leg = "lit"
  <2>1. pc' \notin {"base", "submit"}
    BY <1>0, <1>1, <1>2, SMT
  <2> QED
    BY <1>1, <1>2, <2>1, SMT DEF OpensWhole
<1>3. ASSUME Raise, leg = "var" PROVE OpensWhole'
  <2>1. pc' = "idle" /\ leg' = "var"
    BY <1>0, <1>3, Zenon DEF Raise, Return
  <2> QED
    BY <2>1, SMT DEF OpensWhole
<1>4. CASE leg = "var" /\ Baseline
  <2>1. CASE Raise
    BY <1>3, <1>4, <2>1
  <2>2. CASE ~Raise
    <3>1. pc' = "submit" /\ leg' = "var" /\ pc = "base" /\ flight' = flight
      BY <1>0, <1>4, <2>2, Zenon DEF Baseline, At, venueVars
    <3>2. PICK r \in ReadsBoth : base' = r
      BY <1>0, <1>4, <2>2, Zenon DEF Baseline
    <3>3. r["var"] \in Reads("var")
      BY BookableTypes, Zenon DEF ReadsBoth
    <3>4. base'["var"] = pos["var"]
      BY <3>2, <3>3, VarRead, SMT DEF Held
    <3>5. Reducing = 0
      BY <3>1, Zenon DEF Bookable, OpensWhole
    <3> QED
      BY <1>0, <3>1, <3>4, <3>5, SMT DEF OpensWhole, Held, Before, Reducing
  <2> QED
    BY <2>1, <2>2
<1>5. CASE leg = "var" /\ Submit
  <2>1. CASE Raise
    BY <1>3, <1>5, <2>1
  <2>2. CASE ~Raise
    <3>1. Accept("var", "open", Q) /\ Goto("confirm") /\ pc = "submit"
      BY <1>0, <1>5, <2>2, SMT DEF Submit, Side, Target, At
    <3>2. /\ flight'["var"]["open"] = flight["var"]["open"] + Q
          /\ flight'["var"]["reduce"] = flight["var"]["reduce"]
      BY <3>1, BookableTypes, SMT DEF Accept
    <3>3. Reducing = 0 /\ Opening = 0 /\ Held = Before
      BY <1>0, <3>1, Zenon DEF Bookable, OpensWhole
    <3>4. pc' = "confirm" /\ leg' = "var" /\ base' = base
      BY <1>5, <3>1, Zenon DEF Goto
    <3> QED
      BY <1>0, <3>2, <3>3, <3>4, BookableTypes, SMT
         DEF OpensWhole, Held, Before, Reducing, Opening
  <2> QED
    BY <2>1, <2>2
<1>6. CASE leg = "var" /\ Confirm
  <2>1. CASE Raise
    BY <1>3, <1>6, <2>1
  <2>2. CASE ~Raise
    <3>1. PICK r \in Reads("var") : LET d == Delta("var", r) IN
            IF SeenFill(d) THEN Confirmed(d) ELSE Confirmed(AtDeadline(d))
      BY <1>6, <2>2, Zenon DEF Confirm
    <3>2. PICK d \in Int : d = Held - Before
      BY BookableTypes, SMT
    <3>3. Delta("var", r) = d
      BY <1>0, <3>2, VarRead, SMT DEF Delta, Before
    <3>4. IF SeenFill(d) THEN Confirmed(d) ELSE Confirmed(AtDeadline(d))
      BY <3>1, <3>3, Zenon
    <3>5. d \in {0, Q}
      <4>1. Held = Before \/ Held = Before + Q
        BY <1>6, Zenon DEF Bookable, OpensWhole, Confirm, At
      <4> QED
        BY <3>2, <4>1, BookableTypes, SMT
    <3>6. SeenFill(d) <=> d > 0
      BY <1>0, <1>6, <3>5, BookableTypes, SMT DEF SeenFill, AtLeastHalf, StepOf
    <3>7. ~SeenFill(d) => AtDeadline(d) = 0
      BY <1>0, <1>6, <3>5, <3>6, BookableTypes, SMT DEF AtDeadline, Abs, AtLeastHalf, StepOf
    <3>8. Confirmed(0) \/ Confirmed(Q)
      BY <3>4, <3>5, <3>6, <3>7, BookableTypes, SMT
    <3>9. ASSUME NEW n \in {0, Q}, Confirmed(n)
          PROVE  pc' \in {"idle", "dust", "maker", "sweep"} /\ (leg' = "lit" => got'["var"] = Q)
      <4>1. got' = [got EXCEPT !["var"] = n] /\ OpenConfirmed(n)
        BY <1>0, <1>6, <3>9, Zenon DEF Confirmed
      <4>2. got'["var"] = n
        BY <4>1, BookableTypes, SMT
      <4>3. n = 0 => pc' = "idle" /\ leg' = "var"
        BY <1>6, <4>1, SMT DEF OpenConfirmed
      <4>4. pc' \in {"idle", "dust", "maker", "sweep"}
        BY <1>6, <4>1, SMT DEF OpenConfirmed
      <4> QED
        BY <3>9, <4>2, <4>3, <4>4, SMT
    <3> QED
      BY <3>8, <3>9, SMT DEF OpensWhole
  <2> QED
    BY <2>1, <2>2
<1>7. CASE leg = "var" /\ FlattenDust
  <2>1. pc' = "idle" /\ leg' = "var"
    BY <1>7, Zenon DEF FlattenDust, Return
  <2> QED
    BY <2>1, SMT DEF OpensWhole
<1>8. ~CloseNothing /\ ~RetryClose
  BY <1>0, Zenon DEF CloseNothing, RetryClose, At
<1>9. leg = "var" => ~(MakerQuote \/ MakerWait \/ MakerCancel \/ MakerVerify \/ Sweep
                       \/ ReadPrices \/ CheckOrders \/ PullOrders \/ FlattenVar)
  BY SMT DEF Bookable, LegOfPlace, MakerQuote, MakerWait, MakerCancel, MakerVerify, Sweep,
     ReadPrices, CheckOrders, PullOrders, FlattenVar, At
<1> QED
  BY <1>2, <1>4, <1>5, <1>6, <1>7, <1>8, <1>9, BookableTypes, Zenon DEF ExecStep, Venue

\* On Lighter, a close leaves Variational's orders alone.
LEMMA ClosingLighter ==
    ASSUME ExecInv, call = "close", leg = "lit", ExecStep,
           pc \notin {"price", "orders", "pull", "flatten", "dust"}
    PROVE  /\ flight'["var"] = flight["var"]
           /\ pc' \notin {"price", "orders", "pull", "flatten", "dust"}
<1>1. ASSUME NEW k \in Kind, NEW n, Accept("lit", k, n) PROVE flight'["var"] = flight["var"]
  BY <1>1, BookableTypes, SMT DEF Accept
<1>2. Side \in Kind /\ "reduce" \in Kind
  BY BookableTypes, Zenon DEF Side, Kind
<1>3. ASSUME NEW k \in Kind, NEW n, Accept("lit", k, n) \/ Refuse("lit", k, n)
      PROVE  flight'["var"] = flight["var"]
  BY <1>1, <1>3, Zenon DEF Refuse, venueVars
<1>4. flight'["var"] = flight["var"]
  <2>1. CASE Submit \/ RetryClose \/ Sweep
    <3>1. UNCHANGED venueVars \/ \E n : Accept("lit", Side, n) \/ Refuse("lit", Side, n)
          \/ Accept("lit", "reduce", n) \/ Refuse("lit", "reduce", n)
      BY <2>1, Zenon DEF Submit, RetryClose, Sweep
    <3> QED
      BY <1>2, <1>3, <3>1, Zenon DEF venueVars
  <2>2. CASE ~(Submit \/ RetryClose \/ Sweep)
    <3>1. ~(FlattenVar \/ FlattenDust)
      BY SMT DEF FlattenVar, FlattenDust, At
    <3>2. flight' = flight
      BY <2>2, <3>1, Zenon DEF ExecStep, Baseline, CloseNothing, Confirm, MakerQuote, MakerWait,
         MakerCancel, MakerVerify, ReadPrices, CheckOrders, PullOrders, CancelAll, Rest, venueVars
    <3> QED
      BY <3>2
  <2> QED
    BY <2>1, <2>2
<1>5. ASSUME Raise PROVE pc' = "idle"
  BY <1>5, Zenon DEF Raise, Return
<1>6. CASE Confirm
  <2>1. Raise \/ \E n : CloseConfirmed(n)
    BY <1>6, Zenon DEF Confirm, Confirmed
  <2>2. ASSUME NEW n, CloseConfirmed(n) PROVE pc' \in {"idle", "retry", "base"}
    BY <2>2, Zenon DEF CloseConfirmed
  <2>3. pc' \in {"idle", "retry", "base"}
    BY <1>5, <2>1, <2>2, Zenon
  <2> QED
    BY <1>4, <2>3, SMT
<1>7. CASE ~Confirm
  <2>1. ~(ReadPrices \/ CheckOrders \/ PullOrders \/ FlattenVar \/ FlattenDust)
    BY SMT DEF ReadPrices, CheckOrders, PullOrders, FlattenVar, FlattenDust, At
  <2>2. pc' \in {"idle", "maker", "submit", "confirm", "sweep", "wait", "cancel", "verify"}
    BY <1>5, <1>7, <2>1, Zenon DEF ExecStep, Baseline, CloseNothing, Submit, RetryClose,
       MakerQuote, MakerWait, MakerCancel, MakerVerify, Sweep, Goto, Return, At
  <2> QED
    BY <1>4, <2>2, SMT
<1> QED
  BY <1>6, <1>7

\* A step of the close call.
LEMMA ClosingKeeps ==
    ASSUME ExecInv, StackInv, Bookable, "late" \notin Faults,
           epc = "closing", epc' = epc, ExecStep
    PROVE  ClosesWhole'
<1>0. /\ call = "close" /\ call' = "close" /\ pos' = pos /\ legs' = legs
      /\ pc \notin {"price", "orders", "pull", "flatten", "dust"} /\ ClosesWhole
  BY ExecutorOrders, PlacesKeep, Zenon DEF ExecInv, StackInv, CallOfPlace, Bookable, ClosesWhole
<1>1. CASE leg = "lit"
  <2>1. leg' = "lit" /\ flight'["var"] = flight["var"]
        /\ pc' \notin {"price", "orders", "pull", "flatten", "dust"}
    BY <1>0, <1>1, ClosingLighter, PlacesKeep, Zenon DEF Bookable
  <2> QED
    BY <1>0, <1>1, <2>1, SMT DEF ClosesWhole, Held, Reducing
<1>2. ASSUME leg' = "var", pc' = "idle", res' # "closed" PROVE ClosesWhole'
  BY <1>2, SMT DEF ClosesWhole
<1>3. ASSUME Raise, leg = "var" PROVE ClosesWhole'
  <2>1. pc' = "idle" /\ leg' = "var" /\ res' = "raised"
    BY <1>0, <1>3, Zenon DEF Raise, Return
  <2> QED
    BY <1>2, <2>1
<1>4. CASE leg = "var" /\ Baseline
  <2>1. CASE Raise
    BY <1>3, <1>4, <2>1
  <2>2. CASE ~Raise
    <3>1. /\ pc' = "submit" /\ leg' = "var" /\ pc = "base" /\ flight' = flight
          /\ legs # NoLegs /\ res' = res
      BY <1>0, <1>4, <2>2, Zenon DEF Baseline, At, venueVars
    <3>2. PICK r \in ReadsBoth : base' = [base EXCEPT !["var"] = r["var"]]
      BY <1>0, <1>4, <2>2, Zenon DEF Baseline
    <3>3. r["var"] \in Reads("var")
      BY BookableTypes, Zenon DEF ReadsBoth
    <3>4. base'["var"] = pos["var"]
      BY <3>2, <3>3, VarRead, BookableTypes, SMT DEF Held
    <3>5. Reducing = 0 /\ res = "none"
      BY <1>0, <3>1, SMT DEF ClosesWhole, Bookable, Pending
    <3>6. Held <= Q + Half
      BY BookableTypes, SMT DEF StackInv, NeverStacks, Held, Opening, Half
    <3> QED
      BY <1>0, <3>1, <3>4, <3>5, <3>6, BookableTypes, SMT DEF ClosesWhole, Held, Before, Reducing
  <2> QED
    BY <2>1, <2>2
<1>5. CASE leg = "var" /\ CloseNothing
  <2>1. CASE Raise
    BY <1>3, <1>5, <2>1
  <2>2. CASE ~Raise
    <3>1. /\ pc' = "idle" /\ leg' = "var" /\ flight' = flight /\ legs = NoLegs /\ pc = "base"
      BY <1>5, <2>2, Zenon DEF CloseNothing, Return, At, venueVars
    <3>2. Reducing = 0
      BY <1>0, <3>1, Zenon DEF ClosesWhole
    <3> QED
      BY <1>0, <3>1, <3>2, SMT DEF ClosesWhole, Reducing
  <2> QED
    BY <2>1, <2>2
<1>6. CASE leg = "var" /\ Submit
  <2>1. CASE Raise
    BY <1>3, <1>6, <2>1
  <2>2. CASE ~Raise
    <3>1. pc = "submit" /\ pc' = "confirm" /\ leg' = "var" /\ base' = base /\ res' = res
      BY <1>6, <2>2, Zenon DEF Submit, Goto, At
    <3>2. Held = Before /\ Before <= Q + Half /\ legs # NoLegs /\ res = "none"
      BY <1>0, <1>6, <3>1, SMT DEF ClosesWhole, Bookable, Pending
    <3> QED
      BY <1>0, <3>1, <3>2, BookableTypes, SMT DEF ClosesWhole, Held, Before, Reducing
  <2> QED
    BY <2>1, <2>2
<1>7. CASE leg = "var" /\ RetryClose
  <2>1. CASE Raise
    BY <1>3, <1>7, <2>1
  <2>2. CASE ~Raise
    <3>1. pc = "retry" /\ pc' = "confirm" /\ leg' = "var" /\ base' = base /\ res' = res
          /\ retried' = TRUE
      BY <1>7, <2>2, Zenon DEF RetryClose, At
    <3>2. Before - Held < Q /\ Before <= Q + Half /\ Held <= Before /\ legs # NoLegs /\ res = "none"
      BY <1>0, <1>7, <3>1, SMT DEF ClosesWhole, Bookable, Pending
    <3> QED
      BY <1>0, <3>1, <3>2, BookableTypes, SMT DEF ClosesWhole, Held, Before, Reducing
  <2> QED
    BY <2>1, <2>2
<1>8. CASE leg = "var" /\ Confirm
  <2>1. CASE Raise
    BY <1>3, <1>8, <2>1
  <2>2. CASE ~Raise
    <3>0. /\ pc = "confirm" /\ flight' = flight /\ res = "none" /\ legs["var"] = Q /\ legs # NoLegs
          /\ Before <= Q + Half /\ Held <= Before
          /\ Reducing = 0 \/ (Before - Held < Q /\ (retried \/ Held = Before))
      <4>1. pc = "confirm" /\ flight' = flight
        BY <1>8, Zenon DEF Confirm, At, venueVars
      <4> QED
        BY <1>0, <1>8, <4>1, SMT DEF Bookable, Pending, WholeLegs, ClosesWhole
    <3>1. PICK r \in Reads("var") : LET d == Delta("var", r) IN
            IF SeenFill(d) THEN Confirmed(d)
            ELSE ("late" \in Faults \/ Settled("var")) /\ Confirmed(AtDeadline(d))
      BY <1>8, <2>2, Zenon DEF Confirm
    <3>2. PICK d \in Nat : d = Before - Held
      BY <3>0, BookableTypes, SMT
    <3>3. Delta("var", r) = d
      BY <1>0, <3>2, VarRead, SMT DEF Delta, Before
    <3>4. IF SeenFill(d) THEN Confirmed(d) ELSE Settled("var") /\ Confirmed(AtDeadline(d))
      BY <3>1, <3>3, Zenon
    <3>5. SeenFill(d) <=> d > 0
      BY <1>0, <3>2, SMT DEF SeenFill, AtLeastHalf, StepOf
    <3>6. ~SeenFill(d) => d = 0 /\ AtDeadline(d) = 0
      BY <1>0, <3>2, <3>5, SMT DEF AtDeadline, Abs, AtLeastHalf, StepOf
    <3>7. Settled("var") => Reducing = 0
      BY BookableTypes, SMT DEF Settled, NoOrders, Reducing
    <3>8. Confirmed(d) /\ (d = 0 => Reducing = 0)
      BY <3>2, <3>4, <3>5, <3>6, <3>7, SMT
    <3>9. CloseConfirmed(d)
      BY <1>0, <3>8, Zenon DEF Confirmed
    <3>10. UNCHANGED <<call, base>>
      BY <3>9, Zenon DEF CloseConfirmed
    <3>11. CASE d < Q
      <4>1. leg' = "var" /\ ((pc' = "idle" /\ res' = "raised") \/ (pc' = "retry" /\ ~retried /\ res' = res))
        BY <1>8, <3>0, <3>9, <3>11, SMT DEF CloseConfirmed
      <4>2. ~retried => Reducing = 0
        BY <3>0, <3>2, <3>8, BookableTypes, SMT
      <4> QED
        BY <1>0, <1>2, <3>0, <3>2, <3>10, <3>11, <4>1, <4>2, BookableTypes, SMT
           DEF ClosesWhole, Held, Before, Reducing
    <3>12. CASE ~(d < Q)
      <4>1. leg' = "lit" /\ pc' = "base" /\ res' = res
        BY <1>8, <3>0, <3>9, <3>12, SMT DEF CloseConfirmed
      <4>2. Reducing = 0 /\ Held <= Half
        BY <3>0, <3>2, <3>12, BookableTypes, SMT
      <4> QED
        BY <1>0, <3>0, <4>1, <4>2, SMT DEF ClosesWhole, Held, Reducing
    <3> QED
      BY <3>11, <3>12
  <2> QED
    BY <2>1, <2>2
<1>9. leg = "var" => Baseline \/ CloseNothing \/ Submit \/ RetryClose \/ Confirm
  <2>1. leg = "var" => ~(MakerQuote \/ MakerWait \/ MakerCancel \/ MakerVerify \/ Sweep)
    BY SMT DEF Bookable, LegOfPlace, MakerQuote, MakerWait, MakerCancel, MakerVerify, Sweep, At
  <2>2. ~(ReadPrices \/ CheckOrders \/ PullOrders \/ FlattenVar \/ FlattenDust)
    BY <1>0, SMT DEF ReadPrices, CheckOrders, PullOrders, FlattenVar, FlattenDust, At
  <2> QED
    BY <2>1, <2>2, Zenon DEF ExecStep
<1> QED
  BY <1>1, <1>4, <1>5, <1>6, <1>7, <1>8, <1>9, BookableTypes, Zenon DEF Venue

\* A step of the executor, of either call.
LEMMA ExecutorBookable ==
    ASSUME IInv, StackInv, Bookable, "late" \notin Faults, Executor
    PROVE  Bookable'
<1>1. ExecStep /\ UNCHANGED <<epc, shadow, halt>> /\ epc \in {"opening", "closing"} /\ ExecInv
  BY Zenon DEF Executor, engineVars, fileVars, IInv
<1>2. Pending' /\ LegOfPlace' /\ legs' = legs /\ (res' = "filled" => pc = "orders" /\ got' = got)
  BY <1>1, PlacesKeep, Zenon DEF Bookable
<1>3. WholeLegs' /\ PaperCloses' /\ NoReduceOrder'
  BY <1>1, <1>2, Zenon DEF Bookable, WholeLegs, PaperCloses, NoReduceOrder, Trades
<1>4. WholeFilled'
  <2>1. pc = "orders" => leg = "lit" /\ epc = "opening"
    BY <1>1, SMT DEF Bookable, LegOfPlace, ClosesWhole
  <2>2. pc = "orders" => got["var"] = Q
    BY <2>1, Zenon DEF Bookable, OpensWhole
  <2> QED
    BY <1>2, <2>2, Zenon DEF WholeFilled
<1>5. OpensWhole'
  BY <1>1, OpeningKeeps, Zenon DEF OpensWhole
<1>6. ClosesWhole'
  BY <1>1, ClosingKeeps, Zenon DEF ClosesWhole
<1> QED
  BY <1>2, <1>3, <1>4, <1>5, <1>6 DEF Bookable

\* A step of the venues, which fill or drop an order at once.
LEMMA VenuesBookable ==
    ASSUME IInv, StackInv, Bookable, "partial" \notin Faults, VenueActs
    PROVE  Bookable'
<1>1. VenueStep /\ VenueTypeOK /\ ExecInv
      /\ UNCHANGED <<epc, shadow, halt, call, pc, leg, base, got, retried, res, legs>>
  BY Zenon DEF VenueActs, IInv, ExecInv, execVars, ledgerVars, engineVars, fileVars
<1>2. \/ Held' = Held /\ Opening' \in {Opening, 0} /\ Reducing' \in {Reducing, 0}
      \/ Held' = Held + Opening /\ Opening' = 0 /\ Reducing' = Reducing
      \/ Held' <= Held /\ Reducing > 0 /\ Reducing' = 0 /\ Opening' = Opening
  BY <1>1, FillsAtOnce, BookableTypes, Zenon DEF Held, Opening, Reducing
<1>3. Held' \in Nat /\ Before' = Before
  BY <1>1, ExposureFalls, Zenon DEF Held, Before
<1>4. /\ WholeLegs' /\ WholeFilled' /\ PaperCloses' /\ Pending' /\ LegOfPlace'
  BY <1>1, Zenon DEF Bookable, WholeLegs, WholeFilled, PaperCloses, Pending, LegOfPlace
<1>5. NoReduceOrder'
  <2>1. Trades' => Trades
    BY <1>1, Zenon DEF Trades
  <2> QED
    BY <1>2, <2>1, BookableTypes, SMT DEF Bookable, NoReduceOrder
<1>6. OpensWhole'
  <2>1. epc = "opening" /\ pc = "submit" => Opening = 0
    BY Zenon DEF StackInv, OpensFlat, Opening
  <2> QED
    BY <1>1, <1>2, <1>3, <2>1, BookableTypes, SMT DEF Bookable, OpensWhole
<1>7. ClosesWhole'
  <2>1. epc = "closing" => Opening = 0
    BY SMT DEF StackInv, NoOpenOrder, Ticking, Opening
  <2> QED
    BY <1>1, <1>2, <1>3, <2>1, BookableTypes, SMT DEF Bookable, ClosesWhole
<1> QED
  BY <1>4, <1>5, <1>6, <1>7 DEF Bookable

\* The engine's own steps: where they come to trade again, nothing is on
\* order; a close starts from one of these places.
LEMMA EngineSettles ==
    ASSUME IInv, EngineStep
    PROVE  /\ Trades' \/ epc' = "closing" =>
                 \/ Trades
                 \/ epc = "tick" /\ Quiet
                 \/ epc = "closing" /\ res = "closed"
           /\ epc' = "closed" => shadow'
           /\ epc' = "closing" => Called("close", TRUE) \/ Called("close", FALSE)
<1>1. ret \in {"tick", "fetch", "ddhalt"}
  BY Zenon DEF IInv, EngineInv, EngineTypeOK, Returns
<1>2. CASE Arm \/ StartupHalt \/ MakerProbe \/ MakerProven \/ TickBegin
  <2>1. epc' \in {"startup", "probe", "proven", "tick"} \/ (TickBegin /\ epc' \in {"recover", "fetch"})
    BY <1>2, Zenon DEF Arm, StartupHalt, MakerProbe, MakerProven, TickBegin, Latch, To
  <2>2. TickBegin => epc = "tick" /\ Quiet
    BY Zenon DEF TickBegin, In
  <2> QED
    BY <2>1, <2>2, Zenon DEF Trades
<1>3. CASE RecoverShadow \/ RecoverResume \/ Hold
  <2>1. epc \in {"recover", "hold"}
    BY <1>3, Zenon DEF RecoverShadow, RecoverResume, Hold, In
  <2>2. \/ epc' \in {"fetch", "recovered", "tick"}
        \/ epc' = "closed" /\ shadow'
        \/ epc' = "closing" /\ (Called("close", TRUE) \/ Called("close", FALSE))
    BY <1>3, Zenon DEF LeaveEntry, RecoverShadow, RecoverResume, Hold, Watchdog, CheckSingleLeg, HoldOn, DoExit, To, CloseAndFinish,
       SameFile, SameRound
  <2> QED
    BY <2>1, <2>2, Zenon DEF Trades
<1>4. CASE Drawdown
  <2>1. epc = "fetch" /\ ~halt
    BY <1>4, Zenon DEF Drawdown, In
  <2>2. Latch("tick") \/ DoExit(FALSE, "ddhalt")
    BY <1>4, Zenon DEF Drawdown
  <2>3. \/ epc' \in {"ddhalt", "tick"}
        \/ epc' = "closed" /\ shadow'
        \/ epc' = "closing" /\ Called("close", FALSE)
    <3>1. CASE Latch("tick")
      BY <3>1, Zenon DEF Latch, To
    <3>2. CASE DoExit(FALSE, "ddhalt")
      BY <3>2, Zenon DEF DoExit, To, CloseAndFinish
    <3> QED
      BY <2>2, <3>1, <3>2
  <2> QED
    BY <2>1, <2>3, Zenon DEF Trades
<1>5. CASE NoTrading \/ Decide \/ DrawdownHalt
  <2>1. epc' = "tick" \/ (epc = "fetch" /\ ~halt /\ epc' \in {"idle", "hold"})
    BY <1>5, Zenon DEF NoTrading, Decide, DrawdownHalt, In, To, Latch
  <2> QED
    BY <2>1, Zenon DEF Trades
<1>6. CASE \/ RecoverHalt \/ RecoverFlat \/ IdleCheck \/ Entry \/ GateHalt
           \/ ShadowFilled \/ GateOpen
  <2>1. epc \in {"recover", "idle", "entry", "gate", "shadowfill"}
    BY <1>6, Zenon DEF RecoverHalt, RecoverFlat, IdleCheck, Entry, GateHalt, ShadowFilled,
       GateOpen, In
  <2>2. epc' \in {"fetch", "recovered", "finish2", "tick", "entry", "shadowfill", "gate",
                  "confirm2", "opening"}
    BY <1>6, Zenon DEF LeaveEntry, RecoverHalt, RecoverFlat, IdleCheck, Entry, GateHalt, ShadowFilled,
       GateOpen, Holding, FinishExit, Latch, To
  <2> QED
    BY <2>1, <2>2, Zenon DEF Trades
<1>7. CASE LiveFilled \/ LiveFailed \/ LiveNaked \/ RollBack \/ ConfirmLegs \/ ConfirmShadow
  <2>1. epc' \in {"confirm2", "tick", "aborted", "orders", "confirm3"}
    BY <1>7, Zenon DEF LeaveEntry, LiveFilled, LiveFailed, LiveNaked, RollBack, ConfirmLegs,
       ConfirmShadow, Holding, Latch, To
  <2> QED
    BY <2>1, Zenon DEF Trades
<1>8. CASE ShadowClosed \/ FinishLedger \/ FinishSave
  <2>1. epc \in {"closed", "finish2", "finish3"} /\ epc' \in {"finish2", "finish3", ret}
    BY <1>8, Zenon DEF ShadowClosed, FinishLedger, FinishSave, FinishExit, In, To
  <2> QED
    BY <1>1, <2>1, Zenon DEF Trades
<1>9. CASE LiveClosed
  <2>1. epc = "closing" /\ (IF res = "closed" THEN epc' = "finish2" ELSE epc' = ret /\ halt')
    BY <1>9, Zenon DEF LiveClosed, FinishExit, Latch, SetHalt, In, To
  <2> QED
    BY <1>1, <2>1, Zenon DEF Trades
<1>10. CASE ClearLegs
  <2>1. epc' = "tick" \/ (epc = "recovered" /\ epc' = "fetch")
    BY <1>10, Zenon DEF ClearLegs, In, To
  <2> QED
    BY <2>1, Zenon DEF Trades
<1> QED
  BY <1>2, <1>3, <1>4, <1>5, <1>6, <1>7, <1>8, <1>9, <1>10, Zenon DEF EngineStep

\* What they do to the executor's locals and the ledger's legs.
LEMMA EngineLocals ==
    ASSUME IInv, EngineStep
    PROVE  /\ \/ UNCHANGED <<pc, res, got, leg>> /\ pc = "idle"
              \/ pc' \in {"idle", "base"} /\ res' = "none"
           /\ legs' \in {legs, NoLegs, FilledLegs}
           /\ epc' = "closed" => shadow'
<1>1. pc = "idle" \/ epc \in {"opening", "closing"}
  BY Zenon DEF IInv, EngineInv, Calls
<1>2. epc' = "closed" => shadow'
  BY EngineSettles
<1>3. CASE \/ Arm \/ StartupHalt \/ TickBegin \/ RecoverHalt \/ RecoverFlat
           \/ NoTrading \/ DrawdownHalt \/ Decide \/ IdleCheck \/ Entry \/ GateHalt
           \/ ShadowFilled
  <2>1. UNCHANGED <<pc, res, got, leg>>
    BY <1>3, Zenon DEF Arm, StartupHalt, TickBegin, RecoverHalt, RecoverFlat, NoTrading,
       DrawdownHalt, Decide, IdleCheck, Entry, GateHalt, ShadowFilled, Holding, NoCall, NoExec,
       execVars
  <2>2. legs' \in {legs, NoLegs}
    BY <1>3, Zenon DEF Arm, StartupHalt, TickBegin, RecoverHalt, RecoverFlat, NoTrading,
       DrawdownHalt, Decide, IdleCheck, Entry, GateHalt, ShadowFilled, Holding, Latch, SameFile,
       SameRound, LeaveEntry, FinishExit
  <2>3. epc \notin {"opening", "closing"}
    BY <1>3, SMT DEF Arm, StartupHalt, TickBegin, RecoverHalt, RecoverFlat, NoTrading,
       DrawdownHalt, Decide, IdleCheck, Entry, GateHalt, ShadowFilled, In
  <2> QED
    BY <1>1, <1>2, <2>1, <2>2, <2>3, Zenon
<1>4. CASE \/ ShadowClosed \/ FinishLedger \/ FinishSave \/ ConfirmLegs \/ LiveFilled
           \/ RollBack \/ ClearLegs
  <2>1. UNCHANGED <<pc, res, got, leg>>
    BY <1>4, Zenon DEF ShadowClosed, FinishLedger, FinishSave, ConfirmLegs, LiveFilled,
       RollBack, ClearLegs, Holding, NoCall, NoExec, execVars
  <2>2. legs' \in {legs, NoLegs, FilledLegs}
    BY <1>4, Zenon DEF ShadowClosed, FinishLedger, FinishSave, ConfirmLegs, LiveFilled,
       RollBack, LeaveEntry, ClearLegs, Holding, FinishExit, Latch, SameRound
  <2>3. pc = "idle" \/ epc \notin {"opening", "closing"}
    BY <1>4, SMT DEF ShadowClosed, FinishLedger, FinishSave, ConfirmLegs, LiveFilled,
       RollBack, ClearLegs, In
  <2> QED
    BY <1>1, <1>2, <2>1, <2>2, <2>3, Zenon
<1>5. CASE RecoverShadow \/ RecoverResume \/ Drawdown \/ Hold
  <2>1. UNCHANGED <<pc, res, got, leg>> \/ (pc' \in {"idle", "base"} /\ res' = "none")
    BY <1>5, Zenon DEF RecoverShadow, RecoverResume, Drawdown, Hold, Watchdog, CheckSingleLeg, HoldOn, DoExit,
       CloseAndFinish, Called, NoExec, execVars
  <2>2. legs' \in {legs, NoLegs}
    BY <1>5, Zenon DEF RecoverShadow, RecoverResume, Drawdown, Hold, Watchdog, CheckSingleLeg, HoldOn, DoExit,
       Latch, SameFile, SameRound, LeaveEntry
  <2>3. epc \in {"recover", "fetch", "hold"}
    BY <1>5, Zenon DEF RecoverShadow, RecoverResume, Drawdown, Hold, In
  <2> QED
    BY <1>1, <1>2, <2>1, <2>2, <2>3, Zenon
<1>6. CASE GateOpen \/ MakerProven \/ LiveFailed \/ LiveNaked \/ LiveClosed \/ ConfirmShadow
  <2>1. pc' \in {"idle", "base"} /\ res' = "none"
    BY <1>6, Zenon DEF GateOpen, Called, MakerProven, LiveFailed, LiveNaked, LiveClosed,
       ConfirmShadow, Forget
  <2>2. legs' \in {legs, NoLegs}
    BY <1>6, Zenon DEF GateOpen, MakerProven, LiveFailed, LiveNaked, LiveClosed,
       ConfirmShadow, Latch, SameFile, SameRound, LeaveEntry, FinishExit
  <2> QED
    BY <1>2, <2>1, <2>2, Zenon
<1>7. CASE MakerProbe
  <2>1. UNCHANGED <<pc, res, got, leg, legs>> /\ epc = "probe"
    BY <1>7, Zenon DEF MakerProbe, SameFile, SameRound, In
  <2> QED
    BY <1>1, <1>2, <2>1, SMT
<1> QED
  BY <1>3, <1>4, <1>5, <1>6, <1>7, Zenon DEF EngineStep

LEMMA EngineBookable ==
    ASSUME IInv, StackInv, Bookable, "late" \notin Faults, EngineStep
    PROVE  Bookable'
<1>0. ExecInv
  BY DEF IInv
<1>1. WholeLegs'
  <2>1. FilledLegs["var"] = Q
    BY BookableTypes, <1>0, SMT DEF FilledLegs, Bookable, WholeFilled
  <2> QED
    BY <2>1, EngineLocals, Zenon DEF Bookable, WholeLegs
<1>2. WholeFilled' /\ Pending' /\ LegOfPlace' /\ PaperCloses'
  BY EngineLocals, SMT DEF Bookable, WholeFilled, Pending, LegOfPlace, PaperCloses
<1>3. Trades' \/ epc' = "closing" => Reducing = 0
  <2>1. epc = "closing" /\ res = "closed" => Reducing = 0
    BY Zenon DEF Bookable, ClosesWhole
  <2>2. Quiet => Reducing = 0
    BY <1>0, BookableTypes, QuietSettles, Zenon DEF Reducing
  <2> QED
    BY <2>1, <2>2, EngineSettles, Zenon DEF Bookable, NoReduceOrder
<1>4. Reducing' = Reducing
  BY EngineMoves, Zenon DEF Reducing
<1>5. NoReduceOrder'
  BY <1>3, <1>4, Zenon DEF NoReduceOrder
<1>6. OpensWhole'
  <2>1. epc' = "opening" => pc' = "base" /\ leg' = "var" /\ epc = "gate"
    BY EngineMoves, GateFlat
  <2>2. epc = "gate" => Reducing = 0
    BY Zenon DEF Bookable, NoReduceOrder, Trades
  <2> QED
    BY <1>4, <2>1, <2>2, SMT DEF OpensWhole
<1>7. ClosesWhole'
  <2>1. epc' = "closing" => pc' = "base" /\ leg' = "var" /\ res' = "none"
    BY EngineSettles, Zenon DEF Called
  <2> QED
    BY <1>3, <1>4, <2>1, SMT DEF ClosesWhole
<1> QED
  BY <1>1, <1>2, <1>5, <1>6, <1>7 DEF Bookable

LEMMA BookableKeeps ==
    ASSUME IInv, StackInv, Bookable, "late" \notin Faults, "partial" \notin Faults, [Next]_vars
    PROVE  Bookable'
<1>1. CASE EngineStep
  BY <1>1, EngineBookable
<1>2. CASE Executor
  BY <1>2, ExecutorBookable
<1>3. CASE VenueActs
  BY <1>3, VenuesBookable
<1>4. CASE Start \/ Down \/ ClearHalt \/ ClearCooldown \/ Flatten
  <2>1. epc' \in {"arm", "down"} /\ legs' = legs
    BY <1>4, Zenon DEF Start, Down, ClearHalt, ClearCooldown, Flatten, To, In, SameFile,
       SameRound, engineVars, ledgerVars
  <2>2. UNCHANGED <<pc, res, got, leg>> \/ (pc' = "idle" /\ res' = "none")
    BY <1>4, Zenon DEF Start, Down, ClearHalt, ClearCooldown, Flatten, NoCall, NoExec,
       execVars, Forget
  <2> QED
    BY <2>1, <2>2, SMT DEF Bookable, WholeLegs, WholeFilled, PaperCloses, NoReduceOrder, Trades, Pending,
       LegOfPlace, OpensWhole, ClosesWhole
<1>5. CASE NewDay \/ UNCHANGED vars
  <2>1. UNCHANGED <<epc, shadow, halt, legs, call, pc, leg, base, got, retried, res, pos, flight>>
    BY <1>5, Zenon DEF NewDay, NoCall, NoExec, NoVenue, SameRound, vars, venueVars, execVars,
       ledgerVars, engineVars, fileVars
  <2> QED
    BY <2>1, Zenon DEF Bookable, WholeLegs, WholeFilled, PaperCloses, NoReduceOrder, Trades, Pending,
       LegOfPlace, OpensWhole, ClosesWhole, Held, Before, Opening, Reducing
<1> QED
  BY <1>1, <1>2, <1>3, <1>4, <1>5, Zenon DEF Next, Operator

-----------------------------------------------------------------------------
\* The steps that book a round: it was found flat, closed on paper, or closed
\* at the venues.
LEMMA BookingSteps ==
    ASSUME IInv, [Next]_vars, mode = "EXITING", mode' = "COOLDOWN"
    PROVE  RecoverFlat \/ ShadowClosed \/ (LiveClosed /\ res = "closed")
<1> USE DEF IInv, EngineInv, Control
<1>1. epc \notin {"idle", "entry", "gate", "shadowfill", "opening", "orders", "confirm2",
                  "confirm3", "hold", "finish2", "finish3"}
  BY SMT
<1>2. ~(Entry \/ GateOpen \/ ShadowFilled \/ LiveFilled \/ LiveFailed \/ LiveNaked
        \/ RollBack \/ ConfirmLegs \/ ConfirmShadow \/ Hold \/ FinishLedger \/ FinishSave)
  BY <1>1, Zenon DEF Entry, GateOpen, ShadowFilled, LiveFilled, LiveFailed, LiveNaked,
     RollBack, ConfirmLegs, ConfirmShadow, Hold, FinishLedger, FinishSave, In
<1>3. mode' # mode
  BY SMT
<1>4. ~(Arm \/ StartupHalt \/ MakerProbe \/ MakerProven \/ TickBegin \/ RecoverHalt
        \/ RecoverResume \/ NoTrading \/ DrawdownHalt \/ IdleCheck \/ GateHalt \/ ClearLegs)
  BY <1>3, Zenon DEF ClearLegs, Arm, StartupHalt, MakerProbe, MakerProven, TickBegin, RecoverHalt,
     RecoverResume, NoTrading, DrawdownHalt, IdleCheck, GateHalt, Latch, SameFile, SameRound
<1>5. ~(RecoverShadow \/ Drawdown)
  BY <1>3, Zenon DEF RecoverShadow, Drawdown, SameFile, SameRound, Latch
<1>6. ~(Executor \/ VenueActs \/ Flatten \/ UNCHANGED vars)
  BY <1>3, Zenon DEF Executor, VenueActs, Flatten, vars, engineVars, fileVars
<1>7. ~(Start \/ Down \/ ClearHalt \/ ClearCooldown \/ NewDay)
  BY <1>3, Zenon DEF Start, Down, ClearHalt, ClearCooldown, NewDay, SameFile, SameRound
<1>8. ~Decide
  BY Zenon DEF Decide
<1>9. LiveClosed => res = "closed"
  BY <1>3, Zenon DEF LiveClosed, Latch, SameRound
<1> QED
  BY <1>2, <1>4, <1>5, <1>6, <1>7, <1>8, <1>9, Zenon DEF Next, Operator, EngineStep

\* No phantom close is booked, by a close, its retry, or a recovery after a
\* crash, where orders come neither late nor in pieces: what a late one does
\* after its confirmation no read of close_hedge sees, and the rest of an open
\* that filled in pieces is in no ledger ("never book a phantom closed").
THEOREM ClosedIsBooked == Faults \cap {"late", "partial"} = {} => (Spec => BookedMeansClosed)
<1> SUFFICES ASSUME Faults \cap {"late", "partial"} = {} PROVE Spec => BookedMeansClosed
  OBVIOUS
<1> DEFINE Closed ==
      mode = "EXITING" /\ mode' = "COOLDOWN" /\ ~shadow /\ legs # NoLegs =>
          WithinHalfLot(pos["var"])
<1>0. "late" \notin Faults /\ "partial" \notin Faults
  BY Zenon
<1>1. Init => StackInv /\ Bookable
  <2> SUFFICES ASSUME Init PROVE Bookable
    BY StackStarts
  <2> QED
    BY SMT DEF Init, ExecInit, Bookable, WholeLegs, WholeFilled, PaperCloses, NoReduceOrder,
       Trades, Pending, LegOfPlace, OpensWhole, ClosesWhole
<1>2. IInv /\ StackInv /\ Bookable /\ [Next]_vars => (StackInv /\ Bookable)'
  BY <1>0, StackStepKeeps, BookableKeeps
<1>3. IInv /\ StackInv /\ Bookable /\ [Next]_vars => Closed
  <2> SUFFICES ASSUME IInv, StackInv, Bookable, [Next]_vars, mode = "EXITING", mode' = "COOLDOWN",
                      ~shadow, legs # NoLegs
               PROVE  Held <= Half
    BY BookableTypes, HalfLot, Zenon DEF Held, IInv
  <2>1. CASE RecoverFlat
    BY <2>1, FlatReadFlat, Zenon DEF RecoverFlat, IInv, ExecInv, Held
  <2>2. CASE ShadowClosed
    BY <2>2, Zenon DEF ShadowClosed, In, Bookable, PaperCloses
  <2>3. CASE LiveClosed /\ res = "closed"
    BY <2>3, Zenon DEF LiveClosed, In, Bookable, ClosesWhole
  <2> QED
    BY <2>1, <2>2, <2>3, BookingSteps
<1>4. IInv /\ StackInv /\ Bookable /\ [Next]_vars => [Closed]_vars
  BY <1>3
<1> QED
  BY Invariance, <1>1, <1>2, <1>4, PTL DEF Spec, BookedMeansClosed
=============================================================================
