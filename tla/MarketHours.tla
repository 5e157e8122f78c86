---------------------------- MODULE MarketHours ----------------------------
(***************************************************************************)
(* market_hours.py: the weekly trading calendar of the Variational leg.    *)
(* Time is the minute of the week.  hours is the configured schedule, now  *)
(* the moment it is asked about.  Parsing is what a token comes to: a      *)
(* window, or None when it cannot be read, and such an entry is skipped.   *)
(***************************************************************************)
EXTENDS Integers, FiniteSetsExt

CONSTANTS Week,  \* MINUTES_PER_WEEK
          None   \* the code's None

ASSUME WeekAssumption == Week \in Nat \ {0} /\ None \notin Int

VARIABLES hours,  \* trading_hours: [enabled, windows]
          now     \* minute of the week, UTC

Moment == 0 .. Week - 1
Window == [open : Moment, close : Moment]
Session == [enabled : BOOLEAN, open : BOOLEAN,
            toClose : 0 .. Week \cup {None}, toOpen : 0 .. Week \cup {None}]

\* Minutes from one moment of the week forward to another.
Ahead(from, to) == (to - from) % Week

\* Mutant: the wrap around the end of the week is forgotten.
ContainsUnwrapped(w, t) == w.open <= t /\ t < w.close

Contains(w, t) == Ahead(w.open, t) < Ahead(w.open, w.close)

Windows == hours.windows \ {None}

\* Mutant: the next open is sought at the closes.
EvaluateNextClose(t) ==
    LET inside == {w \in Windows : Contains(w, t)}
    IN  [enabled |-> hours.enabled,
         open |-> hours.enabled => inside # {},
         toClose |-> IF ~hours.enabled THEN None
                     ELSE IF inside = {} THEN 0
                     ELSE Min({Ahead(t, w.close) : w \in inside}),
         toOpen |-> IF ~hours.enabled \/ inside # {} \/ Windows = {} THEN None
                    ELSE Min({Ahead(t, w.close) : w \in Windows})]

\* evaluate: a gate that is off never closes; one without a window it can
\* read is always closed.
Evaluate(t) ==
    LET inside == {w \in Windows : Contains(w, t)}
    IN  [enabled |-> hours.enabled,
         open |-> hours.enabled => inside # {},
         toClose |-> IF ~hours.enabled THEN None
                     ELSE IF inside = {} THEN 0
                     ELSE Min({Ahead(t, w.close) : w \in inside}),
         toOpen |-> IF ~hours.enabled \/ inside # {} \/ Windows = {} THEN None
                    ELSE Min({Ahead(t, w.open) : w \in Windows})]

(***************************************************************************)
(* What a calendar means, without the arithmetic: the market opens at a    *)
(* window's open and stays open, minute by minute, until it meets the      *)
(* window's close.                                                         *)
(***************************************************************************)
Later(t, d) == (t + d) % Week

OpenAt(t) ==
    \E w \in Windows, k \in Moment :
        /\ Later(w.open, k) = t
        /\ \A j \in 0 .. k : Later(w.open, j) # w.close

\* The market is said to be open exactly when it is, and the close that the
\* entry lead and the pre-close exit wait for is never announced late: the
\* market stays open for all the minutes evaluate promises.  Where the
\* windows neither touch nor overlap it is not announced early either.
ClosesWhenSaid ==
    hours.enabled =>
        LET s == Evaluate(now)
        IN  /\ s.open <=> OpenAt(now)
            /\ s.open => \A d \in 1 .. s.toClose - 1 : OpenAt(Later(now, d))
            /\ (s.open /\ \A v, w \in Windows : ~Contains(v, w.close))
                   => ~OpenAt(Later(now, s.toClose))

\* A closed market opens when evaluate says, and not before, unless the
\* calendar holds a window that never opens (open = close).
ReopensWhenSaid ==
    LET s == Evaluate(now)
    IN  (s.toOpen # None /\ \A w \in Windows : w.open # w.close) =>
            /\ OpenAt(Later(now, s.toOpen))
            /\ \A d \in 0 .. s.toOpen - 1 : ~OpenAt(Later(now, d))
=============================================================================
