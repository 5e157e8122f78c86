---------------------------- MODULE MCLiveGate ----------------------------
(* LiveGate on small instances: the constants the configurations use. *)
EXTENDS LiveGate

\* A settlement every 5: one of them missed and one early, the newest first;
\* twice as often as it should; mostly noise; too few.
StreamsSmall == {<<30, 25, 10, 6, 1>>, <<1, 3, 5>>, <<1, 2, 3, 8>>, <<1, 6>>}

\* None to check, amounts that fit by the median, amounts that do not.
RatiosSmall == {<<>>, <<2, 98, 300>>, <<2, 3, 100>>}

NotPublished == {None, 10}
Swap == {None}
===========================================================================
