---------------------------- MODULE RoundLifecycle ----------------------------
(***************************************************************************)
(* state_machine.py as its callers may see it: what the helpers of         *)
(* StateMachine do to the mode and the HALT latch, one action per helper,  *)
(* beside the one fact about the engine they have to respect: whether the  *)
(* live executor is inside a call.  HedgeEngine implements this module;    *)
(* LiveGate adds the file behind it.                                       *)
(*                                                                         *)
(* What it promises: rounds go through their phases in order, a call of    *)
(* the executor lies within the phase it belongs to, nothing is latched,   *)
(* booked or rolled back while orders are being worked, and a HALT stands  *)
(* until the operator clears it.                                           *)
(***************************************************************************)
VARIABLES mode,    \* the round's phase
          halt,    \* a HALT is latched
          working  \* the executor's call in progress

lifeVars == <<mode, halt, working>>

Mode == {"IDLE", "ENTERING", "HOLDING", "EXITING", "COOLDOWN"}
Active == {"ENTERING", "HOLDING", "EXITING"}
Work == {"none", "open", "close"}

LifeTypeOK ==
    /\ mode \in Mode
    /\ halt \in BOOLEAN
    /\ working \in Work

LifeInit ==
    /\ mode = "IDLE"
    /\ halt = FALSE
    /\ working = "none"

\* Between two calls, without a HALT, and along VALID_TRANSITIONS: each helper
\* asks for one of its entries; ENTERING to EXITING and EXITING to HOLDING, which
\* are in it too, no helper asks for.
Moves(from, to) ==
    /\ ~halt
    /\ working = "none"
    /\ mode = from
    /\ mode' = to
    /\ UNCHANGED halt

\* begin_entry; a live round's orders follow at once, a paper one has none.
BeginEntry == Moves("IDLE", "ENTERING") /\ working' \in {"none", "open"}

\* confirm_hold, abort_entry, rollback_entry_to_cooldown.
ConfirmHold == Moves("ENTERING", "HOLDING") /\ UNCHANGED working
AbortEntry == Moves("ENTERING", "IDLE") /\ UNCHANGED working
RollBackEntry == Moves("ENTERING", "COOLDOWN") /\ UNCHANGED working

\* begin_exit, with the close of a live round; finish_exit.
BeginExit == Moves("HOLDING", "EXITING") /\ working' \in {"none", "close"}
FinishExit == Moves("EXITING", "COOLDOWN") /\ UNCHANGED working

\* A deferred or interrupted close is made again.
RetryExit == Moves("EXITING", "EXITING") /\ working' = "close"

\* maybe_leave_cooldown.
LeaveCooldown == Moves("COOLDOWN", "IDLE") /\ UNCHANGED working

\* The call comes back, or dies with its process.
CallEnds ==
    /\ working # "none"
    /\ working' = "none"
    /\ UNCHANGED <<mode, halt>>

\* set_halt; the tick that latches is not inside a call.
SetHalt ==
    /\ working = "none"
    /\ halt' = TRUE
    /\ UNCHANGED <<mode, working>>

\* clear_halt_and_ledger and force_leave_cooldown are the operator's.
ClearHalt ==
    /\ working = "none"
    /\ halt' = FALSE
    /\ UNCHANGED <<mode, working>>

ForceLeaveCooldown ==
    /\ working = "none"
    /\ mode = "COOLDOWN"
    /\ mode' = "IDLE"
    /\ UNCHANGED <<halt, working>>

LifeStep ==
    \/ BeginEntry \/ ConfirmHold \/ AbortEntry \/ RollBackEntry
    \/ BeginExit \/ FinishExit \/ RetryExit \/ LeaveCooldown
    \/ SetHalt

OperatorStep == ClearHalt \/ ForceLeaveCooldown

LifeNext == LifeStep \/ CallEnds \/ OperatorStep

LifeSafety == LifeInit /\ [][LifeNext]_lifeVars

\* A call that is under way ends.
LifeSpec == LifeSafety /\ WF_lifeVars(CallEnds)
===============================================================================
