------------------------------ MODULE SharedState ------------------------------
(***************************************************************************)
(* The primitives that docs/shared-state.md describes, as ServerState      *)
(* holds them: shared_table, task_queue (with the timers of async_io) and  *)
(* ws_hub, each of them Some when its section of the configuration is      *)
(* enabled.  They share no state, so a server with one of them enabled     *)
(* shows what each does; a handler of a primitive that is None answers 404 *)
(* and touches nothing.                                                    *)
(***************************************************************************)
EXTENDS SharedTable, TaskQueue, WsHub

VARIABLE enabled  \* the section of the configuration that is enabled

vars == <<tableVars, queueVars, wsVars, enabled>>

Init ==
    /\ enabled \in {"shared_table", "task_queue", "websocket"}
    /\ TableInit /\ QueueInit /\ WsInit
    /\ enabled # "task_queue" => /\ chan = CHOOSE r \in Routes : TRUE
                                 /\ capacity = CHOOSE n \in Capacities : TRUE
    /\ enabled # "websocket" => room = CHOOSE r \in WsRoutes : TRUE

\* The step of one primitive leaves the others alone.
TableStep == enabled = "shared_table" /\ UNCHANGED <<queueVars, wsVars, enabled>>
QueueStep == enabled = "task_queue" /\ UNCHANGED <<tableVars, wsVars, enabled>>
HubStep == enabled = "websocket" /\ UNCHANGED <<tableVars, queueVars, enabled>>

Next ==
    \/ TableNext /\ TableStep
    \/ QueueNext /\ QueueStep
    \/ WsNext /\ HubStep

Spec == Init /\ [][Next]_vars

\* tokio polls every handler that can go on and fires every timer: the
\* sweeper's interval, the deadline of a long poll, a timer's sleep.  A
\* consumer polls again after every answer.  Nothing is assumed of clients
\* that hang up or of requests that may come.
Fairness ==
    /\ WF_vars(Sweep /\ TableStep)
    /\ \A t \in Pushers : WF_vars(PushSteps(t) /\ QueueStep)
    /\ \A t \in Consumers : WF_vars(PopSteps(t) /\ QueueStep)

FairSpec == Spec /\ Fairness

TypeOK == TableTypeOK /\ QueueTypeOK /\ WsTypeOK

============================================================================
