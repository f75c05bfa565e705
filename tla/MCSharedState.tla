---------------------------- MODULE MCSharedState ----------------------------
(***************************************************************************)
(* SharedState for TLC: who pushes to, pops from, publishes to and listens *)
(* on which channel.                                                       *)
(***************************************************************************)
EXTENDS SharedState, TLC

CONSTANTS p1, m1, c1, c2, q1, q2, q3, q4, s1, chA, chB

\* Two consumers compete for one channel, or each has its own; with
\* max_channels = 1 only one of two channels comes into being first.
OneChannel == [t \in QueueTasks |-> chA]
TwoChannels == [OneChannel EXCEPT ![c2] = chB, ![m1] = chB]
MCRoutes == {OneChannel, TwoChannels}

\* One publisher names a second channel, the rest meet on the first.
MCWsRoutes == {[t \in WsTasks |-> IF t = q4 THEN chB ELSE chA]}

============================================================================
