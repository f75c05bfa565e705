---------------------------- MODULE MCPoolServer ----------------------------
(***************************************************************************)
(* PoolServer with two workers.  A configuration names a pool and how much *)
(* may happen to it: each row lets the faults meet that the code has to    *)
(* tell apart, and leaves out those another row has.                       *)
(***************************************************************************)
EXTENDS PoolServer

CONSTANTS Pair, One   \* two of the requests, and one

Base == [route |-> "named", mode |-> "process", maxRequests |-> 0, crashes |-> 0,
         faults |-> 0, leaves |-> 0, reloads |-> 0, autoScale |-> FALSE,
         stops |-> FALSE, tasks |-> Tasks]

Default == [Base EXCEPT !.route = "default", !.tasks = Pair]

MCConfigurations ==
    {\* crashes, departing clients and recycling in a named pool
     [Base EXCEPT !.crashes = 1, !.leaves = 1],
     [Base EXCEPT !.maxRequests = 1, !.crashes = 1, !.faults = 1],
     [Base EXCEPT !.maxRequests = 1, !.mode = "thread", !.faults = 1],
     \* the shutdown of a named pool in use
     [Base EXCEPT !.tasks = Pair, !.mode = "thread", !.leaves = 1, !.stops = TRUE],
     [Base EXCEPT !.tasks = Pair, !.crashes = 1, !.stops = TRUE],
     \* the default pool: crashes, recycling, shutdown, reload, scaling
     [Default EXCEPT !.crashes = 1, !.leaves = 1],
     [Default EXCEPT !.tasks = Tasks, !.crashes = 1],
     [Default EXCEPT !.maxRequests = 1],
     [Default EXCEPT !.crashes = 1, !.stops = TRUE],
     [Default EXCEPT !.reloads = 1, !.leaves = 1],
     [Default EXCEPT !.autoScale = TRUE],
     [Default EXCEPT !.tasks = One, !.reloads = 1, !.faults = 1, !.autoScale = TRUE]}
=============================================================================
