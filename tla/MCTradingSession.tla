--------------------------- MODULE MCTradingSession ---------------------------
(* TradingSession on a week of twelve minutes. *)
EXTENDS TradingSession

MCConfig == [closeBuffer |-> 4, entryLead |-> 4, maxHold |-> 2, confirm |-> 2,
             exitOnReversal |-> TRUE, takeProfit |-> 1, buffer |-> 1, maxLoss |-> 1,
             sunk |-> 1, notional |-> 9, heartbeat |-> 2, sides |-> Side]

W(open, close) == [open |-> open, close |-> close]
On(windows) == [enabled |-> TRUE, windows |-> windows]

\* A long weekend that wraps, a daily break, windows that touch, that overlap
\* and wrap, one that never opens and an entry that cannot be read beside a
\* good one, no window at all, and no gate.
MCSchedules == {On({W(10, 3)}), On({W(0, 5), W(6, 11)}), On({W(0, 5), W(5, 9)}),
                On({W(11, 5), W(3, 8)}), On({W(3, 3), None, W(2, 10)}), On({}),
                [enabled |-> FALSE, windows |-> {W(2, 10)}]}
MCClosures == {None, [from |-> 4, until |-> 6]}
MCGaps == {1, 2}
===============================================================================
