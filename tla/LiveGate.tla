------------------------------- MODULE LiveGate -------------------------------
(***************************************************************************)
(* The door to live orders and the file it is kept in: the funding         *)
(* attestation that verify-funding writes to state.json and the engine     *)
(* reads, and the two processes that write that file, each from a copy of  *)
(* its own (StateMachine._load, save).                                     *)
(*                                                                         *)
(* The engine's rounds are those of RoundLifecycle, whose mode and halt    *)
(* are the copy in its memory here; HedgeEngine says when each step is     *)
(* taken.  Every one of them that changes the copy is followed by a save.  *)
(***************************************************************************)
EXTENDS RoundLifecycle, FundingGate

CONSTANTS Absent,       \* no such file
          Torn,         \* a file an open has emptied
          Published,    \* bound: what the Lighter row may say of its interval
          VarPublished, \* bound: and Variational's
          MaxNow,       \* bound: time
          MaxCommands,  \* bound: commands the operator gives
          MaxLines,     \* bound: lines of the ledger
          MaxRestarts   \* bound: times the engine goes down

VARIABLES att,      \* the engine's copy: funding_attestation
          up,       \* the engine runs
          armed,    \* its write guard
          cleared,  \* its tick's snapshot says that live is allowed
          backed,   \* history: settlements were proved within the validity then
          owed,     \* finish_exit has yet to append the round's line
          io,       \* io[p]: where process p is with its save
          file,     \* state.json
          tmp,      \* state.tmp
          lines,    \* shadow_rounds.jsonl: how many lines
          cmd,      \* the operator's command
          own,      \* the copy the command works on
          seen,     \* backfill: the lines it has read
          now, commands, restarts,
          proved,   \* history: when settlements were last seen to be regular
          verdict,  \* history: what the command's settlements say of it
          refused,  \* history: a refusal was saved, and no proof since
          latched,  \* history: a HALT was saved, and not cleared since
          beside    \* history: a command and the engine have run together

copyVars == <<mode, halt, att>>
tickVars == <<cleared, backed, owed>>
diskVars == <<file, tmp, lines>>
cmdVars == <<cmd, own, seen, commands>>
history == <<proved, verdict, refused, latched, beside>>
gateVars == <<lifeVars, att, up, armed, tickVars, io, diskVars, cmdVars, now, restarts, history>>

Process == {"engine", "command"}
Saving == {"no", "begin", "opened", "moved", "written"}
Command == {"clear-halt", "clear-cooldown", "verify-funding", "backfill-venue-pnl"}
Attestations == [interval : Nat, expires : Nat] \cup {None}
Copy == [mode : Mode, halt : BOOLEAN, att : Attestations]

EmptyState == [mode |-> "IDLE", halt |-> FALSE, att |-> None]

ASSUME GateAssumption ==
    /\ {Absent, Torn} \cap Copy = {}
    /\ Absent # Torn
    /\ {MaxNow, MaxCommands, MaxLines, MaxRestarts} \subseteq Nat

\* _load: a file that cannot be read is a fresh one.
Load(content) == IF content \in {Absent, Torn} THEN EmptyState ELSE content

GateTypeOK ==
    /\ LifeTypeOK
    /\ att \in Attestations
    /\ up \in BOOLEAN /\ armed \in BOOLEAN
    /\ {cleared, backed, owed} \subseteq BOOLEAN
    /\ io \in [Process -> Saving]
    /\ file \in Copy \cup {Absent, Torn}
    /\ tmp \in Copy \cup {Absent, Torn}
    /\ lines \in 0 .. MaxLines /\ seen \in 0 .. MaxLines
    /\ cmd \in Command \cup {"none"}
    /\ own \in Copy
    /\ now \in 0 .. MaxNow
    /\ commands \in 0 .. MaxCommands /\ restarts \in 0 .. MaxRestarts
    /\ proved \in 0 .. MaxNow \cup {None}
    /\ {verdict, refused, latched, beside} \subseteq BOOLEAN

GateInit ==
    /\ LifeInit
    /\ att = None
    /\ up = FALSE /\ armed = TRUE
    /\ cleared = FALSE /\ backed = FALSE /\ owed = FALSE
    /\ io = [p \in Process |-> "no"]
    /\ file = Absent /\ tmp = Absent /\ lines = 0
    /\ cmd = "none" /\ own = EmptyState /\ seen = 0
    /\ now = 0 /\ commands = 0 /\ restarts = 0
    /\ proved = None /\ verdict = TRUE /\ refused = FALSE
    /\ latched = FALSE /\ beside = FALSE

(***************************************************************************)
(* save: open state.tmp, write it, rename it over state.json.  Both        *)
(* processes use the one name, and a rename takes the file from under a    *)
(* process that has it open: what that one writes lands in state.json.     *)
(***************************************************************************)
Mine(p) == IF p = "engine" THEN [mode |-> mode, halt |-> halt, att |-> att] ELSE own

Begins(p) == io' = [io EXCEPT ![p] = "begin"]
Idle(p) == io[p] = "no"

\* Mutant: state.json itself is opened, emptied and written.
OpenInPlace(p) ==
    /\ io[p] = "begin"
    /\ file' = Torn
    /\ io' = [io EXCEPT ![p] = "moved"]
    /\ UNCHANGED <<tmp, lines>>

SaveOpen(p) ==
    /\ io[p] = "begin"
    /\ tmp' = Torn
    /\ io' = [io EXCEPT ![p] = "opened"]
    /\ UNCHANGED <<file, lines>>

\* Mutant: what is written is still in the process's buffer at the rename.
WriteUnflushed(p) ==
    /\ io[p] \in {"opened", "moved"}
    /\ io' = [io EXCEPT ![p] = "written"]
    /\ UNCHANGED diskVars

SaveWrite(p) ==
    /\ \/ io[p] = "opened" /\ tmp' = Mine(p) /\ UNCHANGED file
       \/ io[p] = "moved" /\ file' = Mine(p) /\ UNCHANGED tmp
    /\ io' = [io EXCEPT ![p] = "written"]
    /\ UNCHANGED lines

\* The rename fails if the other one has taken the file away.
SaveReplace(p) ==
    /\ io[p] = "written"
    /\ IF tmp = Absent
       THEN UNCHANGED <<file, tmp>> /\ io' = [io EXCEPT ![p] = "no"]
       ELSE /\ file' = tmp
            /\ tmp' = Absent
            /\ io' = [q \in Process |-> IF q = p THEN "no"
                                        ELSE IF io[q] = "opened" THEN "moved" ELSE io[q]]
    /\ UNCHANGED lines

\* What a save that came to its end means.
Saved(p) ==
    /\ latched' = IF p = "engine" THEN latched \/ halt ELSE latched /\ cmd # "clear-halt"
    /\ refused' = IF p = "command" /\ cmd = "verify-funding" THEN ~verdict ELSE refused
    /\ verdict' = (verdict \/ p = "command")
    /\ UNCHANGED <<proved, beside>>

(***************************************************************************)
(* The engine.                                                             *)
(***************************************************************************)
\* The tick that took the snapshot is over.
Drops == cleared' = FALSE /\ backed' = FALSE

\* A save that fails ends the tick, with what it had under way.
EngineSaves ==
    /\ up
    /\ \/ SaveOpen("engine") /\ UNCHANGED <<working, tickVars, history>>
       \/ SaveWrite("engine") /\ UNCHANGED <<working, tickVars, history>>
       \/ /\ SaveReplace("engine")
          /\ IF tmp = Absent
             THEN working' = "none" /\ Drops /\ owed' = FALSE /\ UNCHANGED history
             ELSE UNCHANGED <<working, tickVars>> /\ Saved("engine")
    /\ UNCHANGED <<copyVars, up, armed, cmdVars, now, restarts>>

\* What the funding gate says of the copy now.
Gate ==
    \E v \in VarPublished, l \in Published :
        UnitsVerified(v, l, AttestedInterval(att, now))

\* Settlements were seen to be regular within the validity.
RecentlyProved == proved # None /\ now < proved + Validity

\* Engine(cfg), and the copy it works on.
Start ==
    /\ ~up
    /\ up' = TRUE
    /\ mode' = Load(file).mode /\ halt' = Load(file).halt /\ att' = Load(file).att
    /\ armed' = TRUE
    /\ beside' = (beside \/ cmd # "none")
    /\ UNCHANGED <<working, tickVars, io, diskVars, cmdVars, now, restarts,
                   proved, verdict, refused, latched>>

\* fetch_snapshot, at the start of a tick and in preflight: the venues' rows
\* and the attestation are looked at here, and what comes of it is used later.
Ask ==
    /\ up /\ Idle("engine") /\ working = "none" /\ ~owed
    /\ cleared' = Gate
    /\ backed' = (Gate /\ RecentlyProved)
    /\ UNCHANGED <<lifeVars, att, up, armed, owed, io, diskVars, cmdVars, now, restarts, history>>

\* _maybe_arm_live, by preflight's snapshot.
Arm ==
    /\ up /\ armed /\ cleared /\ Idle("engine") /\ working = "none"
    /\ armed' = FALSE
    /\ Drops
    /\ UNCHANGED <<lifeVars, att, up, owed, io, diskVars, cmdVars, now, restarts, history>>

\* The process dies or is stopped: its copy and its save are gone.
Down ==
    /\ up /\ restarts < MaxRestarts
    /\ up' = FALSE
    /\ restarts' = restarts + 1
    /\ io' = [io EXCEPT !["engine"] = "no"]
    /\ mode' = "IDLE" /\ halt' = FALSE /\ working' = "none" /\ att' = None
    /\ Drops /\ owed' = FALSE
    /\ UNCHANGED <<armed, diskVars, cmdVars, now, history>>

\* A step of the engine that ends in a save.
Steps(step) ==
    /\ up /\ Idle("engine")
    /\ step
    /\ Begins("engine")
    /\ UNCHANGED <<att, up, armed, file, tmp, cmdVars, now, restarts, history>>

\* _do_entry: live through the gates, or on paper.  It goes by the tick's
\* snapshot; the reads of _idle_flat_check and _preopen_flat_or_halt lie
\* between, so the attestation may have expired by now.
Enter ==
    /\ Steps(BeginEntry) /\ ~owed
    /\ working' = "open" => ~armed /\ cleared
    /\ Drops
    /\ UNCHANGED <<lines, owed>>

\* The tick that leaves the cooldown goes on to an entry.
MoveOn ==
    /\ Steps(ConfirmHold \/ AbortEntry \/ RollBackEntry \/ BeginExit \/ LeaveCooldown) /\ ~owed
    /\ working' # "none" => ~armed
    /\ UNCHANGED <<lines, tickVars>>

\* finish_exit: the transition is saved, the line is appended if it can be,
\* and the rest is saved.
Book ==
    /\ Steps(FinishExit)
    /\ owed' = TRUE
    /\ UNCHANGED <<lines, cleared, backed>>

AppendLine ==
    /\ Steps(owed /\ working = "none" /\ UNCHANGED lifeVars)
    /\ owed' = FALSE
    /\ lines' \in {lines} \cup {n \in {lines + 1} : n <= MaxLines}
    /\ UNCHANGED <<cleared, backed>>

Latch ==
    /\ Steps(~halt /\ SetHalt) /\ ~owed
    /\ Drops
    /\ UNCHANGED <<lines, owed>>

\* A tick that is not halted ends in a save, whatever it did; a halted one
\* returns without.
TickSave ==
    /\ Steps(~halt /\ working = "none" /\ UNCHANGED lifeVars) /\ ~owed
    /\ Drops
    /\ UNCHANGED <<lines, owed>>

CloseAgain ==
    /\ up /\ Idle("engine") /\ ~armed
    /\ RetryExit
    /\ UNCHANGED <<att, up, armed, tickVars, io, diskVars, cmdVars, now, restarts, history>>

CallReturns ==
    /\ up /\ Idle("engine")
    /\ CallEnds
    /\ UNCHANGED <<att, up, armed, tickVars, io, diskVars, cmdVars, now, restarts, history>>

Engine ==
    \/ Start \/ Ask \/ Arm \/ Enter \/ MoveOn \/ Book \/ AppendLine \/ Latch \/ TickSave
    \/ CloseAgain \/ CallReturns \/ EngineSaves

(***************************************************************************)
(* The operator's commands: a process each, one after another.             *)
(***************************************************************************)
Rest == UNCHANGED <<lifeVars, att, up, armed, tickVars, now, restarts>>

\* It loads its copy, and returns at once if there is nothing to clear.
Give(c) ==
    /\ cmd = "none" /\ commands < MaxCommands
    /\ c = "clear-halt" => Load(file).halt
    /\ c = "clear-cooldown" => Load(file).mode = "COOLDOWN"
    /\ cmd' = c
    /\ own' = Load(file)
    /\ seen' = 0
    /\ commands' = commands + 1
    /\ beside' = (beside \/ up)
    /\ Rest /\ UNCHANGED <<io, diskVars, proved, verdict, refused, latched>>

\* Its fetch failed, or it is stopped.
Ends ==
    /\ cmd # "none"
    /\ cmd' = "none"
    /\ own' = EmptyState
    /\ seen' = 0
    /\ io' = [io EXCEPT !["command"] = "no"]
    /\ verdict' = TRUE
    /\ Rest /\ UNCHANGED <<diskVars, commands, proved, refused, latched, beside>>

Edits(c, copy) ==
    /\ cmd = c /\ Idle("command") /\ seen = 0
    /\ own' = copy
    /\ Begins("command")
    /\ Rest /\ UNCHANGED <<diskVars, cmd, seen, commands, refused, latched, beside>>

ClearHaltCommand ==
    /\ Edits("clear-halt", [own EXCEPT !.halt = FALSE])
    /\ UNCHANGED <<proved, verdict>>

ClearCooldown ==
    /\ Edits("clear-cooldown", [own EXCEPT !.mode = "IDLE"])
    /\ UNCHANGED <<proved, verdict>>

Proves(rows, ratios) == Proven(rows) # {} /\ AmountsConsistent(ratios)
ProvenCadence(rows) == CHOOSE m \in Proven(rows) : TRUE

\* Mutant: a refusal leaves the attestation there is.
KeepOldProof(rows, ratios) ==
    IF Proves(rows, ratios) THEN Attestation(ProvenCadence(rows), now) ELSE own.att

\* Mutant: the verdict is not looked at.
AttestAnything(rows, ratios) ==
    Attestation(CHOOSE m \in Proven(rows) \cup {None} : TRUE, now)

\* verify_funding on the settlements it fetched: an attestation, or None
\* where there was one.
Attested(rows, ratios) ==
    IF Proves(rows, ratios) THEN Attestation(ProvenCadence(rows), now) ELSE None

VerifyFunding ==
    \E rows \in Streams, ratios \in Ratios :
        /\ Edits("verify-funding", [own EXCEPT !.att = Attested(rows, ratios)])
        /\ verdict' = Proves(rows, ratios)
        /\ proved' = IF Regular(rows) /\ AmountsConsistent(ratios) THEN now ELSE proved

BackfillState ==
    /\ Edits("backfill-venue-pnl", own)
    /\ UNCHANGED <<proved, verdict>>

CommandSaves ==
    /\ cmd # "none"
    /\ \/ SaveOpen("command") /\ UNCHANGED <<cmdVars, history>>
       \/ SaveWrite("command") /\ UNCHANGED <<cmdVars, history>>
       \/ /\ SaveReplace("command")
          /\ IF tmp = Absent THEN UNCHANGED history ELSE Saved("command")
          /\ IF cmd = "backfill-venue-pnl" /\ tmp # Absent /\ lines > 0
             THEN seen' = lines /\ UNCHANGED <<cmd, own, commands>>
             ELSE cmd' = "none" /\ own' = EmptyState /\ seen' = 0 /\ UNCHANGED commands
    /\ Rest

\* Mutant: only the lines of the rounds it was given are written back.
KeepPatchedLines ==
    /\ cmd = "backfill-venue-pnl" /\ seen > 0
    /\ lines' \in 1 .. seen - 1 \cup {0}
    /\ cmd' = "none" /\ own' = EmptyState /\ seen' = 0
    /\ Rest /\ UNCHANGED <<io, file, tmp, commands, history>>

\* The ledger is rewritten beside itself and renamed, with the lines that
\* were there when it was read.
BackfillLedger ==
    /\ cmd = "backfill-venue-pnl" /\ seen > 0
    /\ lines' = seen
    /\ cmd' = "none" /\ own' = EmptyState /\ seen' = 0
    /\ Rest /\ UNCHANGED <<io, file, tmp, commands, history>>

Operator ==
    \/ \E c \in Command : Give(c)
    \/ ClearHaltCommand \/ ClearCooldown \/ VerifyFunding
    \/ BackfillState \/ BackfillLedger \/ CommandSaves \/ Ends

Elapse ==
    /\ now < MaxNow
    /\ now' = now + 1
    /\ UNCHANGED <<lifeVars, att, up, armed, tickVars, io, diskVars, cmdVars, restarts, history>>

GateNext == Engine \/ Down \/ Operator \/ Elapse

GateSpec == GateInit /\ [][GateNext]_gateVars

-----------------------------------------------------------------------------
(***************************************************************************)
(* "Beside" is what the commands ask not to be: they print that they are   *)
(* only effective while the service is stopped.                            *)
(***************************************************************************)
\* The round as the file has it; a call begins when its phase has been saved.
FileWorking == IF up /\ Idle("engine") THEN working ELSE "none"

Durable == INSTANCE RoundLifecycle
               WITH mode <- Load(file).mode, halt <- Load(file).halt, working <- FileWorking

\* The file goes through the lifecycle too, one step of it per save, wherever
\* the engine or a command dies: what a restart finds is a round RoundLifecycle
\* knows, a HALT included, with every order sent in a phase that was saved
\* before it ("so a restart resumes deterministically").  HedgeEngine takes
\* this for granted: its crashes lose the memory and nothing else.
DurableLifecycle ==
    [][ ~beside' => Durable!LifeNext \/ UNCHANGED Durable!lifeVars ]_gateVars

Opens == working = "none" /\ working' = "open"

\* No live round is opened on an interval the venue does not publish, unless
\* regular settlements had been seen within the validity when the tick that
\* opens it took its snapshot: whatever copy of the attestation the engine has,
\* restarts and overlapping saves included (_attested_lighter_interval).  The
\* orders may go out after it has expired: nothing asks again.
LiveEntriesAreProven ==
    [][ Opens /\ ~LitSwap /\ Expected \notin Published => backed ]_gateVars

\* Settlements that refute the cadence close the door: no live round is opened
\* after a verify-funding that refused, until one proves it again, if the
\* engine was stopped for it.  A running one goes on with its copy.
RefusalStands == [][ Opens /\ ~beside /\ ~LitSwap /\ Expected \notin Published => ~refused ]_gateVars

\* The audit trail stays intact: a line of the ledger is never lost, by a
\* backfill cut off anywhere either (backfill_venue_realized).
LedgerKeepsRounds == [][ ~beside' => lines' >= lines ]_gateVars

\* A HALT is latched (empty_state: "once tripped; needs manual clear"): one
\* that was saved holds in every engine that starts, wherever a save was cut
\* off, until a clear-halt has saved, if the commands ran without an engine.
HaltStaysLatched == latched /\ up /\ ~beside => halt
===============================================================================
