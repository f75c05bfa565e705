----------------------- MODULE PersistentDispatchProofs -----------------------
(***************************************************************************)
(* Proofs about PersistentDispatch, for every number of slots, every       *)
(* finite set of requests, every quota and every bound on incarnations and *)
(* crashes.                                                                *)
(***************************************************************************)
EXTENDS PersistentDispatch, ThreadDispatchProofs

USE NAssumption, PersistentAssumption, MarksAssumption

----------------------------------------------------------------------------
(***************************************************************************)
(* The dispatch below the pipes                                            *)
(***************************************************************************)

\* A step of a worker or of the pipes leaves the dispatch alone; every other
\* step is one of ThreadDispatch.
LEMMA PNextIsNext == PNext => [Next]_tdVars
<1>. SUFFICES ASSUME PNext PROVE [Next]_tdVars
  OBVIOUS
<1>1. ASSUME NEW t \in Tasks, HandlerStep(t) PROVE [Next]_tdVars
  <2>1. CASE HandlerDispatch(t)
    BY <2>1 DEF HandlerDispatch, Next
  <2>2. CASE \/ ReadFds(t) \/ SendRequest(t) \/ OpenPipe(t) \/ Fill(t)
             \/ DecodeHeaders(t) \/ Poison(t)
    BY <2>2 DEF ReadFds, SendRequest, OpenPipe, Fill, DecodeHeaders, Poison
  <2>3. CASE SendFails(t) \/ OpenFails(t) \/ DecodeFails(t) \/ Cancelled(t)
    <3>1. \E r \in {"502", "gone"} : ServePoison(t, r)
      BY <2>3 DEF SendFails, OpenFails, DecodeFails, Cancelled, Abandon
    <3>. QED
      BY <3>1 DEF Next, Serve
  <2>4. CASE DecodeEnd(t)
    BY <2>4 DEF DecodeEnd, Next, Serve
  <2>. QED
    BY <1>1, <2>1, <2>2, <2>3, <2>4 DEF HandlerStep
<1>2. ASSUME NEW w \in Worker, WorkerProgress(w) \/ WorkerFailure(w)
      PROVE  UNCHANGED tdVars
  BY <1>2 DEF WorkerProgress, WorkerFailure
<1>3. CASE ReaperStep
  <2>1. ASSUME NEW i \in Slot, RetireWorker(i) PROVE Next
    BY <2>1 DEF RetireWorker, Next, Reaper, Retire
  <2>2. ASSUME NEW i \in Slot, ReapSpawn(i) \/ ReapReady(i)
        PROVE  UNCHANGED tdVars
    BY <2>2 DEF ReapSpawn, ReapReady
  <2>3. CASE ReapScan \/ ReapSpawnFails \/ ReapDone \/ SyncPids
    BY <2>3 DEF ReapScan, ReapSpawnFails, ReapDone, SyncPids
  <2>4. CASE SyncFds
    BY <2>4 DEF SyncFds, Next, Reaper
  <2>5. CASE ReaperRest
    BY <2>5 DEF ReaperRest, Next, Reaper, Retire
  <2>. QED
    BY <1>3, <2>1, <2>2, <2>3, <2>4, <2>5 DEF ReaperStep
<1>. QED
  BY <1>1, <1>2, <1>3 DEF PNext

\* The pipes, the workers and the reaper's respawns implement the open steps
\* of ThreadDispatch: whatever is proved of the dispatch alone holds with
\* persistent workers behind it.
THEOREM PersistentImplementsDispatch == PSpec => Spec
<1>1. PInit => Init
  BY DEF PInit, Started
<1>2. [PNext]_<<pVars, mode>> => [Next]_tdVars
  BY PNextIsNext DEF pVars
<1>. QED
  BY <1>1, <1>2, PTL DEF PSpec, Spec

\* In particular no slot is lost and no queue entry stranded by crashes,
\* kills, respawns and abandoned requests.
THEOREM PersistentSlotsKept == PSpec => [](NoLostSlot /\ QueueBacked)
  BY PersistentImplementsDispatch, NoSlotIsLost, QueueIsBacked, PTL

----------------------------------------------------------------------------
(***************************************************************************)
(* Types                                                                   *)
(***************************************************************************)
Maybe == Tasks \union {NoOne}
Frames == ({"headers", "end"} \X Tasks) \union {Ready}

PTypeOK ==
    /\ wstate \in [Worker -> {"none", "boot", "idle", "head", "exited"}]
    /\ running \in [Worker -> Maybe]
    /\ \A w \in Worker : wstate[w] = "head" => running[w] \in Tasks
    /\ cmd \in [Worker -> Seq(Tasks \union {FF})]
    /\ resp \in [Worker -> Seq(Frames)]
    /\ pool \in [Slot -> Worker]
    /\ spawned \in Worker
    /\ fdsOf \in [Slot -> Worker]
    /\ ppc \in [Tasks -> {"none", "write", "open", "read", "poison"}]
    /\ cmdw \in [Tasks -> Worker]
    /\ buf \in [Tasks -> Seq(Frames)]
    /\ got \in [Tasks -> Maybe]
    /\ delivered \in [Tasks -> Maybe]
    /\ xpc \in {"scan", "spawn", "ready", "sync", "pids"}
    /\ dead \subseteq Slot

LEMMA InitPTypeOK == PInit => PTypeOK
<1>. SUFFICES ASSUME PInit PROVE PTypeOK
  OBVIOUS
<1>1. 1 \in Worker /\ N \in Worker /\ \A i \in Slot : i + 1 \in Worker
  BY DEF Worker, Slot
<1>2. <<>> \in Seq(Tasks \union {FF}) /\ <<>> \in Seq(Frames)
  OBVIOUS
<1>. QED
  BY <1>1, <1>2 DEF PInit, Started, PTypeOK, Maybe

----------------------------------------------------------------------------
(***************************************************************************)
(* Sequences by what they hold                                             *)
(***************************************************************************)
Has(s, x) == \E k \in DOMAIN s : s[k] = x

\* No element of S occurs twice.
Once(s, S) == \A j, k \in DOMAIN s : s[j] = s[k] /\ s[j] \in S => j = k

LEMMA HasEmpty == \A x, S : ~Has(<<>>, x) /\ Once(<<>>, S)
  BY DEF Has, Once

LEMMA HasAppend ==
    ASSUME NEW S, NEW s \in Seq(S), NEW e \in S
    PROVE  /\ Append(s, e) \in Seq(S)
           /\ Append(s, e) # <<>>
           /\ \A x : Has(Append(s, e), x) <=> Has(s, x) \/ x = e
           /\ \A U : Once(s, U) /\ ~Has(s, e) => Once(Append(s, e), U)
           /\ \A U : Once(s, U) /\ e \notin U => Once(Append(s, e), U)
<1>. DEFINE n == Len(s)
<1>1. /\ n \in Nat
      /\ DOMAIN s = 1 .. n
      /\ DOMAIN Append(s, e) = 1 .. n + 1
      /\ \A k \in 1 .. n : Append(s, e)[k] = s[k]
      /\ Append(s, e)[n + 1] = e
      /\ Append(s, e) \in Seq(S)
  BY PushBack, LenProperties
<1>. HIDE DEF n
<1>2. /\ \A k \in 1 .. n + 1 : k = n + 1 \/ k \in 1 .. n
      /\ n + 1 \in 1 .. n + 1 /\ \A k \in 1 .. n : k \in 1 .. n + 1
  BY <1>1
<1>3. Append(s, e) # <<>>
  BY AppendProperties
<1>4. \A x : Has(Append(s, e), x) <=> Has(s, x) \/ x = e
  BY <1>1, <1>2, Zenon DEF Has
<1>5. ASSUME NEW U, Once(s, U), ~Has(s, e) PROVE Once(Append(s, e), U)
  BY <1>1, <1>2, <1>5, Zenon DEF Has, Once
<1>6. ASSUME NEW U, Once(s, U), e \notin U PROVE Once(Append(s, e), U)
  BY <1>1, <1>2, <1>6, Zenon DEF Once
<1>. QED
  BY <1>1, <1>3, <1>4, <1>5, <1>6

LEMMA HasTail ==
    ASSUME NEW S, NEW s \in Seq(S), s # <<>>
    PROVE  /\ Head(s) \in S /\ Tail(s) \in Seq(S)
           /\ Has(s, Head(s))
           /\ \A x : Has(Tail(s), x) => Has(s, x)
           /\ \A U : Once(s, U) => Once(Tail(s), U)
           /\ \A U : Once(s, U) /\ Head(s) \in U => ~Has(Tail(s), Head(s))
<1>. DEFINE n == Len(s)
            m == n - 1
<1>1. /\ n \in Nat \ {0}
      /\ DOMAIN s = 1 .. n
      /\ Head(s) = s[1] /\ Head(s) \in S
      /\ Tail(s) \in Seq(S) /\ Len(Tail(s)) = m
  BY EmptySeq, HeadTailProperties, LenProperties
<1>2. \A k \in 1 .. m : Tail(s)[k] = s[k + 1]
  BY <1>1, HeadTailProperties
<1>3. DOMAIN Tail(s) = 1 .. m
  BY <1>1, LenProperties
<1>4. /\ 1 \in 1 .. n
      /\ \A k \in 1 .. m : k + 1 \in 1 .. n /\ k + 1 # 1
      /\ \A j, k \in 1 .. m : j + 1 = k + 1 => j = k
  BY <1>1
<1>. HIDE DEF n, m
<1>5. Has(s, Head(s)) /\ \A x : Has(Tail(s), x) => Has(s, x)
  BY <1>1, <1>2, <1>3, <1>4, Zenon DEF Has
<1>6. ASSUME NEW U, Once(s, U) PROVE Once(Tail(s), U)
  <2>. SUFFICES ASSUME NEW j \in 1 .. m, NEW k \in 1 .. m,
                       s[j + 1] = s[k + 1], s[j + 1] \in U
                PROVE  j = k
    BY <1>2, <1>3, Zenon DEF Once
  <2>. QED
    BY <1>1, <1>4, <1>6, Zenon DEF Once
<1>7. ASSUME NEW U, Once(s, U), Head(s) \in U PROVE ~Has(Tail(s), Head(s))
  <2>. SUFFICES ASSUME NEW k \in 1 .. m, s[k + 1] = s[1] PROVE FALSE
    BY <1>1, <1>2, <1>3, Zenon DEF Has
  <2>. QED
    BY <1>1, <1>4, <1>7, Zenon DEF Once
<1>. QED
  BY <1>1, <1>5, <1>6, <1>7

\* One sequence of a family is replaced.
LEMMA Replaced ==
    ASSUME NEW I, NEW x \in I, NEW f, NEW g,
           \A v \in I : v # x => g[v] = f[v]
    PROVE  /\ \A S : (\A v \in I : Once(f[v], S)) /\ Once(g[x], S)
                         => \A v \in I : Once(g[v], S)
           /\ \A y : \A v \in I : v # x => (Has(g[v], y) <=> Has(f[v], y))
<1>1. ASSUME NEW S, \A v \in I : Once(f[v], S), Once(g[x], S), NEW v \in I
      PROVE  Once(g[v], S)
  <2>1. CASE v = x
    BY <1>1, <2>1
  <2>2. CASE v # x
    <3>1. g[v] = f[v]
      BY <2>2
    <3>. QED
      BY <1>1, <3>1, Zenon
  <2>. QED
    BY <2>1, <2>2
<1>2. ASSUME NEW y, NEW v \in I, v # x PROVE Has(g[v], y) <=> Has(f[v], y)
  <2>1. g[v] = f[v]
    BY <1>2
  <2>. QED
    BY <2>1, Zenon
<1>. QED
  BY <1>1, <1>2

----------------------------------------------------------------------------
(***************************************************************************)
(* Every step keeps the types                                              *)
(***************************************************************************)
LEMMA NextPTypeOK ==
    TypeOK /\ PTypeOK /\ [PNext]_<<pVars, mode>> => PTypeOK'
<1>. SUFFICES ASSUME TypeOK, PTypeOK, [PNext]_<<pVars, mode>> PROVE PTypeOK'
  OBVIOUS
<1>. USE DEF PTypeOK
<1>0. \A t \in Tasks : idx[t] \in Slot /\ fdsOf[idx[t]] \in Worker
  BY DEF TypeOK
<1>1. ASSUME NEW t \in Tasks, HandlerStep(t) PROVE PTypeOK'
  <2>1. CASE HandlerDispatch(t)
    BY <2>1 DEF HandlerDispatch, workerVars, poolVars, handlerVars
  <2>2. CASE ReadFds(t)
    BY <2>2, <1>0 DEF ReadFds, workerVars, poolVars
  <2>3. CASE SendRequest(t)
    <3>1. Append(cmd[cmdw[t]], t) \in Seq(Tasks \union {FF})
      BY HasAppend
    <3>. QED
      BY <2>3, <3>1 DEF SendRequest, poolVars
  <2>4. CASE SendFails(t) \/ OpenFails(t) \/ DecodeFails(t) \/ Cancelled(t)
    <3>1. \E r : Abandon(t, r)
      BY <2>4 DEF SendFails, OpenFails, DecodeFails, Cancelled
    <3>. QED
      BY <3>1 DEF Abandon, workerVars, poolVars, Maybe
  <2>5. CASE OpenPipe(t)
    BY <2>5 DEF OpenPipe, workerVars, poolVars
  <2>6. CASE Fill(t)
    BY <2>6 DEF Fill, poolVars
  <2>7. CASE DecodeHeaders(t)
    <3>1. Head(buf[t]) \in Frames /\ Tail(buf[t]) \in Seq(Frames)
      BY <2>7, HasTail DEF DecodeHeaders
    <3>2. Head(buf[t])[2] \in Maybe
      BY <3>1 DEF Frames, Maybe, Ready
    <3>. QED
      BY <2>7, <3>1, <3>2 DEF DecodeHeaders, workerVars, poolVars
  <2>8. CASE DecodeEnd(t)
    BY <2>8 DEF DecodeEnd, workerVars, poolVars, Maybe
  <2>9. CASE Poison(t)
    <3>1. Append(cmd[cmdw[t]], FF) \in Seq(Tasks \union {FF})
      BY HasAppend
    <3>. QED
      BY <2>9, <3>1 DEF Poison, poolVars
  <2>. QED
    BY <1>1, <2>1, <2>2, <2>3, <2>4, <2>5, <2>6, <2>7, <2>8, <2>9
       DEF HandlerStep
<1>2. ASSUME NEW w \in Worker, WorkerProgress(w) \/ WorkerFailure(w)
      PROVE  PTypeOK'
  <2>0. UNCHANGED <<poolVars, handlerVars>>
    BY <1>2 DEF WorkerProgress, WorkerFailure
  <2>1. CASE WorkerReady(w)
    <3>1. Append(resp[w], Ready) \in Seq(Frames)
      BY HasAppend DEF Frames
    <3>. QED
      BY <2>0, <2>1, <3>1 DEF WorkerReady, poolVars, handlerVars
  <2>2. CASE WorkerTake(w)
    <3>1. Head(cmd[w]) \in Tasks /\ Tail(cmd[w]) \in Seq(Tasks \union {FF})
      BY <2>2, HasTail DEF WorkerTake
    <3>2. <<"headers", Head(cmd[w])>> \in Frames
      BY <3>1 DEF Frames
    <3>3. Append(resp[w], <<"headers", Head(cmd[w])>>) \in Seq(Frames)
      BY <3>2, HasAppend
    <3>. QED
      BY <2>0, <2>2, <3>1, <3>3 DEF WorkerTake, poolVars, handlerVars, Maybe
  <2>3. CASE WorkerWriteEnd(w)
    <3>1. <<"end", running[w]>> \in Frames
      BY <2>3 DEF WorkerWriteEnd, Frames
    <3>2. Append(resp[w], <<"end", running[w]>>) \in Seq(Frames)
      BY <3>1, HasAppend
    <3>. QED
      BY <2>0, <2>3, <3>2 DEF WorkerWriteEnd, poolVars, handlerVars, Maybe
  <2>4. CASE WorkerShutdown(w) \/ WorkerKilled(w) \/ WorkerCrash(w)
    <3>1. Exit(w) /\ UNCHANGED resp
      BY <2>4 DEF WorkerShutdown, WorkerKilled, WorkerCrash
    <3>. QED
      BY <2>0, <3>1 DEF Exit, poolVars, handlerVars, Maybe
  <2>. QED
    BY <1>2, <2>1, <2>2, <2>3, <2>4 DEF WorkerProgress, WorkerFailure
<1>3. CASE ReaperStep
  <2>1. ASSUME NEW i \in Slot, RetireWorker(i) PROVE PTypeOK'
    <3>1. Append(cmd[pool[i]], FF) \in Seq(Tasks \union {FF})
      BY HasAppend
    <3>. QED
      BY <2>1, <3>1 DEF RetireWorker, poolVars, handlerVars
  <2>2. ASSUME NEW i \in Slot, ReapSpawn(i) PROVE PTypeOK'
    <3>1. spawned + 1 \in Worker
      BY <2>2 DEF ReapSpawn, Worker
    <3>. QED
      BY <2>2, <3>1 DEF ReapSpawn, handlerVars
  <2>3. ASSUME NEW i \in Slot, ReapReady(i) PROVE PTypeOK'
    BY <2>3 DEF ReapReady, handlerVars
  <2>4. CASE \/ ReapScan \/ ReapSpawnFails \/ ReapDone
             \/ SyncFds \/ SyncPids \/ ReaperRest
    BY <2>4 DEF ReapScan, ReapSpawnFails, ReapDone, SyncFds, SyncPids,
                ReaperRest, workerVars, poolVars, handlerVars
  <2>. QED
    BY <1>3, <2>1, <2>2, <2>3, <2>4 DEF ReaperStep
<1>4. CASE UNCHANGED <<pVars, mode>>
  BY <1>4 DEF pVars, workerVars, poolVars, handlerVars
<1>. QED
  BY <1>1, <1>2, <1>3, <1>4 DEF PNext

----------------------------------------------------------------------------
(***************************************************************************)
(* The ready signal                                                        *)
(***************************************************************************)
\* Only the incarnation the reaper waits for boots or has its ready signal
\* in its pipe, and no slot and no handler names that one yet.
Booting ==
    /\ \A w \in Worker : w > spawned => wstate[w] = "none" /\ resp[w] = <<>>
    /\ \A w \in Worker :
           wstate[w] = "boot" => xpc = "ready" /\ w = spawned /\ resp[w] = <<>>
    /\ \A w \in Worker : Has(resp[w], Ready) => xpc = "ready" /\ w = spawned
    /\ xpc = "ready" =>
           \E i \in dead : (\A j \in dead : i <= j) /\ pool[i] = spawned
    /\ \A i \in Slot : pool[i] <= spawned /\ fdsOf[i] <= spawned
    /\ \A t \in Tasks : cmdw[t] <= spawned
    /\ xpc = "ready" => /\ \A i \in Slot : fdsOf[i] < spawned
                        /\ \A t \in Tasks : cmdw[t] < spawned
    /\ \A t \in Tasks : ~Has(buf[t], Ready)


LEMMA InitBooting == PInit => Booting
<1>. SUFFICES ASSUME PInit PROVE Booting
  OBVIOUS
<1>1. \A i \in Slot : i + 1 <= N
  BY DEF Slot
<1>. QED
  BY <1>1, HasEmpty DEF PInit, Started, Booting, Worker

LEMMA NextBooting ==
    TypeOK /\ PTypeOK /\ Booting /\ [PNext]_<<pVars, mode>> => Booting'
<1>. SUFFICES ASSUME TypeOK, PTypeOK, Booting, [PNext]_<<pVars, mode>>
              PROVE  Booting'
  OBVIOUS
<1>. USE DEF PTypeOK, Booting
<1>0. /\ \A t \in Tasks : idx[t] \in Slot
      /\ \A i \in Slot : pool[i] \in Nat /\ fdsOf[i] \in Nat
      /\ \A t \in Tasks : cmdw[t] \in Nat
      /\ spawned \in Nat /\ \A w \in Worker : w \in Nat
  BY DEF TypeOK, Worker
\* Steps that leave the pipes' contents, the workers and the reaper alone.
<1>1. ASSUME UNCHANGED <<wstate, resp, pool, spawned, fdsOf, xpc, dead>>,
             \A t \in Tasks : \/ cmdw'[t] = cmdw[t]
                              \/ \E i \in Slot : cmdw'[t] = fdsOf[i],
             \A t \in Tasks : ~Has(buf'[t], Ready)
      PROVE  Booting'
  <2>1. \A t \in Tasks :
            cmdw'[t] <= spawned /\ (xpc = "ready" => cmdw'[t] < spawned)
    BY <1>0, <1>1
  <2>. QED
    BY <1>1, <2>1
<1>2. ASSUME NEW t \in Tasks, HandlerStep(t) PROVE Booting'
  <2>1. CASE HandlerDispatch(t)
    BY <2>1, <1>1 DEF HandlerDispatch, workerVars, poolVars, handlerVars
  <2>2. CASE ReadFds(t)
    BY <2>2, <1>0, <1>1 DEF ReadFds, workerVars, poolVars
  <2>3. CASE SendRequest(t) \/ OpenPipe(t) \/ Poison(t)
    BY <2>3, <1>1 DEF SendRequest, OpenPipe, Poison, workerVars, poolVars
  <2>4. CASE SendFails(t) \/ OpenFails(t) \/ DecodeFails(t) \/ Cancelled(t)
    <3>1. \E r : Abandon(t, r)
      BY <2>4 DEF SendFails, OpenFails, DecodeFails, Cancelled
    <3>2. buf' = [buf EXCEPT ![t] = <<>>]
      BY <3>1 DEF Abandon
    <3>3. \A u \in Tasks : ~Has(buf'[u], Ready)
      BY <3>2, HasEmpty
    <3>. QED
      BY <3>1, <3>3, <1>1 DEF Abandon, workerVars, poolVars
  <2>5. CASE Fill(t)
    <3>1. ~Has(resp[cmdw[t]], Ready)
      BY <1>0
    <3>2. /\ buf' = [buf EXCEPT ![t] = resp[cmdw[t]]]
          /\ resp' = [resp EXCEPT ![cmdw[t]] = <<>>]
          /\ UNCHANGED <<wstate, pool, spawned, fdsOf, xpc, dead, cmdw>>
      BY <2>5 DEF Fill, poolVars
    <3>3. \A u \in Tasks : ~Has(buf'[u], Ready)
      BY <3>1, <3>2
    <3>4. \A w \in Worker : resp'[w] = resp[w] \/ resp'[w] = <<>>
      BY <3>2
    <3>5. \A w \in Worker : Has(resp'[w], Ready) => Has(resp[w], Ready)
      <4>. SUFFICES ASSUME NEW w \in Worker
                    PROVE  Has(resp'[w], Ready) => Has(resp[w], Ready)
        OBVIOUS
      <4>1. CASE resp'[w] = resp[w]
        BY <4>1
      <4>2. CASE resp'[w] = <<>>
        <5>1. ~Has(<<>>, Ready)
          BY HasEmpty
        <5>. QED
          BY <4>2, <5>1, Zenon
      <4>. QED
        BY <3>4, <4>1, <4>2
    <3>. QED
      BY <3>2, <3>3, <3>4, <3>5
  <2>6. CASE DecodeHeaders(t)
    <3>1. Has(Tail(buf[t]), Ready) => Has(buf[t], Ready)
      BY <2>6, HasTail DEF DecodeHeaders
    <3>2. \A u \in Tasks : ~Has(buf'[u], Ready)
      BY <2>6, <3>1 DEF DecodeHeaders
    <3>. QED
      BY <2>6, <3>2, <1>1 DEF DecodeHeaders, workerVars, poolVars
  <2>7. CASE DecodeEnd(t)
    <3>1. \A u \in Tasks : ~Has(buf'[u], Ready)
      BY <2>7, HasEmpty DEF DecodeEnd
    <3>. QED
      BY <2>7, <3>1, <1>1 DEF DecodeEnd, workerVars, poolVars
  <2>. QED
    BY <1>2, <2>1, <2>2, <2>3, <2>4, <2>5, <2>6, <2>7 DEF HandlerStep
<1>3. ASSUME NEW w \in Worker, WorkerProgress(w) \/ WorkerFailure(w)
      PROVE  Booting'
  <2>0. UNCHANGED <<pool, spawned, fdsOf, xpc, dead, cmdw, buf>>
    BY <1>3 DEF WorkerProgress, WorkerFailure, poolVars, handlerVars
  <2>1. CASE WorkerReady(w)
    <3>1. /\ wstate' = [wstate EXCEPT ![w] = "idle"]
          /\ resp' = [resp EXCEPT ![w] = Append(@, Ready)]
          /\ xpc = "ready" /\ w = spawned
      BY <2>1 DEF WorkerReady
    <3>. QED
      BY <2>0, <3>1, <1>0
  <2>2. ASSUME NEW f \in Frames, f # Ready, NEW to \in {"idle", "head"},
               wstate[w] \in {"idle", "head"},
               wstate' = [wstate EXCEPT ![w] = to],
               resp' = [resp EXCEPT ![w] = Append(@, f)]
        PROVE  Booting'
    <3>1. Has(resp'[w], Ready) => Has(resp[w], Ready)
      BY <2>2, HasAppend
    <3>2. \A v \in Worker : Has(resp'[v], Ready) => Has(resp[v], Ready)
      BY <2>2, <3>1
    <3>. QED
      BY <2>0, <2>2, <3>2
  <2>3. CASE WorkerTake(w)
    <3>1. Head(cmd[w]) \in Tasks
      BY <2>3, HasTail DEF WorkerTake
    <3>2. <<"headers", Head(cmd[w])>> \in Frames \ {Ready}
      BY <3>1 DEF Frames, Ready
    <3>. QED
      BY <2>3, <3>2, <2>2 DEF WorkerTake
  <2>4. CASE WorkerWriteEnd(w)
    <3>1. <<"end", running[w]>> \in Frames \ {Ready}
      BY <2>4 DEF WorkerWriteEnd, Frames, Ready
    <3>. QED
      BY <2>4, <3>1, <2>2 DEF WorkerWriteEnd
  <2>5. CASE WorkerShutdown(w) \/ WorkerKilled(w) \/ WorkerCrash(w)
    <3>1. Exit(w) /\ UNCHANGED resp /\ Alive(w)
      BY <2>5 DEF WorkerShutdown, WorkerKilled, WorkerCrash, Alive
    <3>2. wstate' = [wstate EXCEPT ![w] = "exited"] /\ wstate[w] # "none"
      BY <3>1 DEF Exit, Alive
    <3>. QED
      BY <2>0, <3>1, <3>2
  <2>. QED
    BY <1>3, <2>1, <2>3, <2>4, <2>5 DEF WorkerProgress, WorkerFailure
<1>4. CASE ReaperStep
  <2>1. ASSUME NEW i \in Slot, RetireWorker(i) PROVE Booting'
    BY <2>1, <1>1 DEF RetireWorker, poolVars, handlerVars
  <2>2. ASSUME NEW i \in Slot, ReapSpawn(i) PROVE Booting'
    <3>1. /\ i \in dead /\ \A j \in dead : i <= j
          /\ xpc = "spawn" /\ xpc' = "ready" /\ spawned < MaxWorkers
          /\ pool' = [pool EXCEPT ![i] = spawned + 1]
          /\ spawned' = spawned + 1
          /\ wstate' = [wstate EXCEPT ![spawned + 1] = "boot"]
          /\ UNCHANGED <<resp, fdsOf, dead, cmdw, buf>>
      BY <2>2 DEF ReapSpawn, handlerVars
    <3>2. \A w \in Worker : wstate[w] # "boot" /\ ~Has(resp[w], Ready)
      BY <3>1
    <3>3. spawned + 1 \in Worker
      BY <3>1, <1>0 DEF Worker
    <3>4. \A w \in Worker :
              wstate'[w] = "boot" => w = spawned + 1 /\ resp'[w] = <<>>
      BY <3>1, <3>2, <3>3, <1>0
    <3>5. \A w \in Worker :
              w > spawned + 1 => wstate'[w] = "none" /\ resp'[w] = <<>>
      BY <3>1, <1>0
    <3>6. pool'[i] = spawned + 1 /\ \A j \in Slot : pool'[j] <= spawned + 1
      BY <3>1, <1>0
    <3>. QED
      BY <3>1, <3>2, <3>4, <3>5, <3>6, <1>0
  <2>3. ASSUME NEW i \in Slot, ReapReady(i) PROVE Booting'
    <3>1. /\ i \in dead /\ \A j \in dead : i <= j
          /\ xpc = "ready" /\ xpc' = "spawn"
          /\ resp[pool[i]] # <<>> \/ ~Alive(pool[i])
          /\ resp' = [resp EXCEPT ![pool[i]] = <<>>]
          /\ UNCHANGED <<wstate, pool, spawned, fdsOf, cmdw, buf>>
      BY <2>3 DEF ReapReady, handlerVars
    <3>2. pool[i] = spawned
      <4>1. PICK j \in dead : (\A k \in dead : j <= k) /\ pool[j] = spawned
        BY <3>1
      <4>2. i = j
        BY <3>1, <4>1 DEF Slot
      <4>. QED
        BY <4>1, <4>2
    <3>3. \A w \in Worker : wstate[w] # "boot"
      BY <3>1, <3>2 DEF Alive
    <3>4. \A w \in Worker : ~Has(resp'[w], Ready)
      <4>. SUFFICES ASSUME NEW w \in Worker PROVE ~Has(resp'[w], Ready)
        OBVIOUS
      <4>1. CASE w = spawned
        BY <3>1, <3>2, <4>1, HasEmpty
      <4>2. CASE w # spawned
        BY <3>1, <3>2, <4>2
      <4>. QED
        BY <4>1, <4>2
    <3>. QED
      BY <3>1, <3>2, <3>3, <3>4
  <2>4. CASE \/ ReapScan \/ ReapSpawnFails \/ ReapDone
             \/ SyncFds \/ SyncPids
    <3>1. /\ xpc # "ready" /\ xpc' # "ready"
          /\ fdsOf' = fdsOf \/ fdsOf' = pool
          /\ UNCHANGED <<wstate, resp, pool, spawned, cmdw, buf>>
      BY <2>4 DEF ReapScan, ReapSpawnFails, ReapDone, SyncFds, SyncPids,
                  workerVars, handlerVars
    <3>. QED
      BY <3>1
  <2>5. CASE ReaperRest
    BY <2>5, <1>1 DEF ReaperRest, workerVars, poolVars, handlerVars
  <2>. QED
    BY <1>4, <2>1, <2>2, <2>3, <2>4, <2>5 DEF ReaperStep
<1>5. CASE UNCHANGED <<pVars, mode>>
  BY <1>5, <1>1 DEF pVars, workerVars, poolVars, handlerVars
<1>. QED
  BY <1>2, <1>3, <1>4, <1>5 DEF PNext

\* No handler reads the ready signal of a respawned worker as a frame of a
\* response: the reaper has consumed it before refresh_fds publishes the
\* worker's pipes.
THEOREM ReadyIsConsumed == PSpec => []ReadyConsumed
<1>1. PInit => PTypeOK /\ Booting
  BY InitPTypeOK, InitBooting
<1>2. TypeOK /\ PTypeOK /\ Booting /\ [PNext]_<<pVars, mode>>
          => (PTypeOK /\ Booting)'
  BY NextPTypeOK, NextBooting
<1>3. Booting => ReadyConsumed
  BY DEF Booting, ReadyConsumed, Has
<1>. QED
  BY <1>1, <1>2, <1>3, PersistentImplementsDispatch, TypeCorrect, PTL DEF PSpec

----------------------------------------------------------------------------
(***************************************************************************)
(* A handler's step within its claim, and what it has answered             *)
(***************************************************************************)
Early == {"acquire", "pop", "check", "claimed"}

ClaimStep(t) ==
    /\ ppc[t] \in {"write", "open", "read"} => pc[t] = "claimed"
    /\ pc[t] \in Early => out[t] = "none" /\ delivered[t] = NoOne
    /\ out[t] = "ok" => delivered[t] # NoOne
    /\ ppc[t] # "read" => buf[t] = <<>> /\ got[t] = NoOne
    /\ ppc[t] = "poison" => out[t] # "none"

ClaimSteps == \A t \in Tasks : ClaimStep(t)

\* A step of get_idle or return_idle, as the claim sees it.
LEMMA DispatchStep ==
    ASSUME TypeOK, NEW t \in Tasks, HandlerDispatch(t)
    PROVE  /\ pc[t] # "claimed"
           /\ pc[t] \in Early =>
                  \/ pc'[t] \in Early /\ out' = out
                  \/ pc'[t] = "done" /\ out'[t] \in {"504", "gone"}
           /\ pc[t] \notin Early => pc'[t] \notin Early /\ out' = out
           /\ \A u \in Tasks : u # t => pc'[u] = pc[u] /\ out'[u] = out[u]
<1>. USE DEF TypeOK, Early
<1>1. CASE GetIdleAcquire(t) \/ GetIdlePick(t) \/ GetIdlePop(t)
  BY <1>1 DEF GetIdleAcquire, GetIdlePick, GetIdlePop, Goto
<1>2. CASE GetIdleTimeout(t) \/ GetIdleCancelled(t) \/ GetIdlePopEmpty(t)
  BY <1>2 DEF GetIdleTimeout, GetIdleCancelled, GetIdlePopEmpty, Answer, Goto
<1>3. CASE GetIdleSkip(t)
  BY <1>3 DEF GetIdleSkip, Answer, Goto
<1>4. CASE ReturnIdle(t)
  BY <1>4 DEF ReturnIdle, ReturnIdlePush, ReturnIdlePermit, Goto
<1>. QED
  BY <1>1, <1>2, <1>3, <1>4 DEF HandlerDispatch, GetIdle, GetIdleTake

\* The handler gives its worker up.
LEMMA AbandonStep ==
    ASSUME TypeOK, PTypeOK, NEW t \in Tasks,
           SendFails(t) \/ OpenFails(t) \/ DecodeFails(t) \/ Cancelled(t)
    PROVE  /\ ppc[t] \in {"write", "open", "read"} /\ pc[t] = "claimed"
           /\ pc'[t] = "done" /\ out'[t] \in {"502", "gone"}
           /\ ppc'[t] = "poison" /\ buf'[t] = <<>> /\ got'[t] = NoOne
           /\ \A u \in Tasks : u # t =>
                  /\ pc'[u] = pc[u] /\ out'[u] = out[u] /\ ppc'[u] = ppc[u]
                  /\ buf'[u] = buf[u] /\ got'[u] = got[u]
           /\ UNCHANGED <<workerVars, poolVars, cmdw, delivered, mixed>>
<1>1. PICK r \in {"502", "gone"} : Abandon(t, r)
  BY DEF SendFails, OpenFails, DecodeFails, Cancelled
<1>2. ppc[t] \in {"write", "open", "read"}
  BY DEF SendFails, OpenFails, DecodeFails, Cancelled, Reading
<1>. QED
  BY <1>1, <1>2 DEF Abandon, ServePoison, Answer, Goto, TypeOK, PTypeOK

\* A handler's step leaves the other handlers' locals alone ...
LEMMA OwnLocals ==
    ASSUME TypeOK, PTypeOK, NEW t \in Tasks, HandlerStep(t),
           NEW u \in Tasks, u # t
    PROVE  /\ pc'[u] = pc[u] /\ out'[u] = out[u] /\ ppc'[u] = ppc[u]
           /\ cmdw'[u] = cmdw[u] /\ buf'[u] = buf[u] /\ got'[u] = got[u]
           /\ delivered'[u] = delivered[u]
<1>1. CASE HandlerDispatch(t)
  BY <1>1, DispatchStep DEF HandlerDispatch, handlerVars
<1>2. CASE \/ ReadFds(t) \/ SendRequest(t) \/ OpenPipe(t) \/ Fill(t)
           \/ DecodeHeaders(t) \/ Poison(t)
  BY <1>2 DEF ReadFds, SendRequest, OpenPipe, Fill, DecodeHeaders, Poison,
              tdVars, taskVars, PTypeOK
<1>3. CASE SendFails(t) \/ OpenFails(t) \/ DecodeFails(t) \/ Cancelled(t)
  BY <1>3, AbandonStep
<1>4. CASE DecodeEnd(t)
  BY <1>4 DEF DecodeEnd, ServeOk, Goto, TypeOK, PTypeOK
<1>. QED
  BY <1>1, <1>2, <1>3, <1>4 DEF HandlerStep

\* ... and a step of a worker or of the reaper all of them.
LEMMA NotHandler ==
    ASSUME PNext \/ UNCHANGED <<pVars, mode>>,
           ~ \E t \in Tasks : HandlerStep(t)
    PROVE  UNCHANGED <<pc, out, handlerVars>>
<1>1. ASSUME NEW w \in Worker, WorkerProgress(w) \/ WorkerFailure(w)
      PROVE  UNCHANGED <<pc, out, handlerVars>>
  BY <1>1 DEF WorkerProgress, WorkerFailure, tdVars, taskVars
<1>2. CASE ReaperStep
  BY <1>2 DEF ReaperStep, RetireWorker, ReaperRetire, ReapSpawn, ReapReady,
              ReapScan, ReapSpawnFails, ReapDone, SyncFds, RefreshFds,
              SyncPids, ReaperRest, ReaperTick, ReaperRetired, Refresh,
              RefreshSwap, RefreshSwapped, RefreshRequeue, RefreshUnlock,
              RefreshPermits, RefreshGrow, RefreshGrowPush, tdVars, taskVars
<1>3. CASE UNCHANGED <<pVars, mode>>
  BY <1>3 DEF pVars, tdVars, taskVars
<1>. QED
  BY <1>1, <1>2, <1>3 DEF PNext

LEMMA InitClaimSteps == PInit => ClaimSteps
  BY DEF PInit, Started, Init, new, spawn_channel_workers, ClaimSteps, ClaimStep

LEMMA NextClaimSteps ==
    TypeOK /\ PTypeOK /\ ClaimSteps /\ [PNext]_<<pVars, mode>> => ClaimSteps'
<1>. SUFFICES ASSUME TypeOK, PTypeOK, ClaimSteps, [PNext]_<<pVars, mode>>,
                     NEW u \in Tasks
              PROVE  ClaimStep(u)'
  BY DEF ClaimSteps
<1>0. ClaimStep(u)
  BY DEF ClaimSteps
<1>. USE DEF ClaimStep
<1>1. CASE ~ \E t \in Tasks : HandlerStep(t)
  BY <1>0, <1>1, NotHandler DEF handlerVars
<1>2. ASSUME NEW t \in Tasks, HandlerStep(t), u # t PROVE ClaimStep(u)'
  BY <1>0, <1>2, OwnLocals
<1>3. CASE HandlerStep(u)
  <2>1. CASE HandlerDispatch(u)
    <3>1. UNCHANGED <<ppc, buf, got, delivered>>
      BY <2>1 DEF HandlerDispatch, handlerVars
    <3>. QED
      BY <1>0, <2>1, <3>1, DispatchStep DEF Early
  <2>2. CASE ReadFds(u) \/ SendRequest(u) \/ OpenPipe(u) \/ Fill(u)
    BY <1>0, <2>2 DEF ReadFds, SendRequest, OpenPipe, Fill, Reading,
                      tdVars, taskVars, PTypeOK
  <2>3. CASE DecodeHeaders(u) \/ Poison(u)
    BY <1>0, <2>3 DEF DecodeHeaders, Poison, Reading, tdVars, taskVars, PTypeOK
  <2>4. CASE SendFails(u) \/ OpenFails(u) \/ DecodeFails(u) \/ Cancelled(u)
    <3>1. /\ pc'[u] = "done" /\ ppc'[u] = "poison"
          /\ buf'[u] = <<>> /\ got'[u] = NoOne
          /\ out'[u] \in {"502", "gone"}
      BY <2>4, AbandonStep
    <3>. QED
      BY <3>1 DEF Early
  <2>5. CASE DecodeEnd(u)
    <3>1. /\ pc'[u] = "return" /\ ppc'[u] = "none"
          /\ buf'[u] = <<>> /\ got'[u] = NoOne
          /\ delivered'[u] # NoOne
      BY <2>5 DEF DecodeEnd, ServeOk, Goto, TypeOK, PTypeOK
    <3>. QED
      BY <3>1 DEF Early
  <2>. QED
    BY <1>3, <2>1, <2>2, <2>3, <2>4, <2>5 DEF HandlerStep
<1>. QED
  BY <1>1, <1>2, <1>3

----------------------------------------------------------------------------
(***************************************************************************)
(* Where a request's answer is                                             *)
(***************************************************************************)
Hd(d) == <<"headers", d>>
HeaderFrames == {Hd(d) : d \in Tasks}

\* Request d has been written to a worker.
Sent(d) == ppc[d] \in {"open", "read"} \/ out[d] \in {"ok", "502", "gone"}

\* Request d or its answer has come to handler t.
At(t, d) == Has(buf[t], Hd(d)) \/ got[t] = d \/ delivered[t] = d

\* A request and its answer stay with the worker it was written to, and are
\* in one place only: the command pipe, the response pipe, or one handler.
OnePlace ==
    /\ \A w \in Worker : Once(cmd[w], Tasks) /\ Once(resp[w], HeaderFrames)
    /\ \A t \in Tasks : Once(buf[t], HeaderFrames)
    /\ \A w \in Worker, d \in Tasks :
           /\ Has(cmd[w], d) => Sent(d) /\ cmdw[d] = w
                                /\ ~Has(resp[w], Hd(d))
           /\ Has(resp[w], Hd(d)) => Sent(d) /\ cmdw[d] = w
           /\ Has(cmd[w], d) \/ Has(resp[w], Hd(d)) => \A t \in Tasks : ~At(t, d)
    /\ \A t, d \in Tasks :
           At(t, d) => /\ Sent(d) /\ cmdw[d] = cmdw[t]
                       /\ \A u \in Tasks : At(u, d) => u = t
    /\ \A t, d \in Tasks : Has(buf[t], Hd(d)) => got[t] # d

\* What was written stays written, to the same worker.
LEMMA SentStays ==
    ASSUME TypeOK, PTypeOK, ClaimSteps, [PNext]_<<pVars, mode>>,
           NEW d \in Tasks, Sent(d)
    PROVE  Sent(d)' /\ cmdw'[d] = cmdw[d]
<1>0. ClaimStep(d)
  BY DEF ClaimSteps
<1>1. CASE ~ \E t \in Tasks : HandlerStep(t)
  BY <1>1, NotHandler DEF handlerVars, Sent
<1>2. ASSUME NEW t \in Tasks, HandlerStep(t), d # t
      PROVE  Sent(d)' /\ cmdw'[d] = cmdw[d]
  BY <1>2, OwnLocals DEF Sent
<1>3. CASE HandlerStep(d)
  <2>1. CASE HandlerDispatch(d)
    <3>1. UNCHANGED <<ppc, cmdw>>
      BY <2>1 DEF HandlerDispatch, handlerVars
    <3>. QED
      BY <1>0, <2>1, <3>1, DispatchStep DEF Sent, ClaimStep, Early
  <2>2. CASE ReadFds(d)
    BY <1>0, <2>2 DEF ReadFds, Sent, ClaimStep, Early
  <2>3. CASE \/ SendRequest(d) \/ OpenPipe(d) \/ Fill(d)
             \/ DecodeHeaders(d) \/ Poison(d)
    BY <2>3 DEF SendRequest, OpenPipe, Fill, DecodeHeaders, Poison, Sent,
                Reading, tdVars, taskVars, PTypeOK
  <2>4. CASE SendFails(d) \/ OpenFails(d) \/ DecodeFails(d) \/ Cancelled(d)
    BY <2>4, AbandonStep DEF Sent
  <2>5. CASE DecodeEnd(d)
    <3>1. out'[d] = "ok" /\ cmdw' = cmdw
      BY <2>5 DEF DecodeEnd, ServeOk, TypeOK
    <3>. QED
      BY <3>1 DEF Sent
  <2>. QED
    BY <1>3, <2>1, <2>2, <2>3, <2>4, <2>5 DEF HandlerStep
<1>. QED
  BY <1>1, <1>2, <1>3

\* A handler that has something reads from its worker, or has ended.
LEMMA AtStays ==
    ASSUME TypeOK, PTypeOK, ClaimSteps, [PNext]_<<pVars, mode>>,
           NEW t \in Tasks, NEW d \in Tasks, At(t, d)
    PROVE  cmdw'[t] = cmdw[t]
<1>0. ClaimStep(t) /\ d # NoOne
  BY DEF ClaimSteps
<1>1. Has(buf[t], Hd(d)) => buf[t] # <<>>
  BY HasEmpty, Zenon
<1>2. ppc[t] = "read" \/ pc[t] \notin Early
  BY <1>0, <1>1 DEF At, ClaimStep
<1>3. CASE ~ \E u \in Tasks : HandlerStep(u)
  BY <1>3, NotHandler DEF handlerVars
<1>4. ASSUME NEW u \in Tasks, HandlerStep(u), t # u
      PROVE  cmdw'[t] = cmdw[t]
  BY <1>4, OwnLocals
<1>5. CASE HandlerStep(t)
  <2>1. ~ReadFds(t)
    BY <1>2 DEF ReadFds, Early
  <2>2. CASE SendFails(t) \/ OpenFails(t) \/ DecodeFails(t) \/ Cancelled(t)
    BY <2>2, AbandonStep
  <2>. QED
    BY <1>5, <2>1, <2>2 DEF HandlerStep, HandlerDispatch, SendRequest,
       OpenPipe, Fill, DecodeHeaders, DecodeEnd, Poison, handlerVars
<1>. QED
  BY <1>3, <1>4, <1>5

\* Steps that only move a request on within its handler, or lose it.
LEMMA TokensShrink ==
    ASSUME TypeOK, PTypeOK, ClaimSteps, OnePlace, [PNext]_<<pVars, mode>>,
           \A w \in Worker : Once(cmd'[w], Tasks) /\ Once(resp'[w], HeaderFrames),
           \A t \in Tasks : Once(buf'[t], HeaderFrames),
           \A w \in Worker, d \in Tasks : Has(cmd'[w], d) => Has(cmd[w], d),
           \A w \in Worker, d \in Tasks :
               Has(resp'[w], Hd(d)) => Has(resp[w], Hd(d)),
           \A t, d \in Tasks : At(t, d)' => At(t, d),
           \A t, d \in Tasks : Has(buf'[t], Hd(d)) => got'[t] # d
    PROVE  OnePlace'
<1>1. \A d \in Tasks : Sent(d) => Sent(d)' /\ cmdw'[d] = cmdw[d]
  BY SentStays
<1>2. \A t, d \in Tasks : At(t, d) => cmdw'[t] = cmdw[t]
  BY AtStays
<1>3. ASSUME NEW w \in Worker, NEW d \in Tasks
      PROVE  /\ Has(cmd[w], d)' => Sent(d)' /\ cmdw'[d] = w
                                    /\ ~Has(resp'[w], Hd(d))
             /\ Has(resp[w], Hd(d))' => Sent(d)' /\ cmdw'[d] = w
             /\ Has(cmd[w], d)' \/ Has(resp[w], Hd(d))' =>
                    \A t \in Tasks : ~At(t, d)'
  BY <1>1, Zenon DEF OnePlace
<1>4. ASSUME NEW t \in Tasks, NEW d \in Tasks, At(t, d)'
      PROVE  /\ Sent(d)' /\ cmdw'[d] = cmdw'[t]
             /\ \A u \in Tasks : At(u, d)' => u = t
  BY <1>1, <1>2, <1>4, Zenon DEF OnePlace
<1>. QED
  BY <1>3, <1>4 DEF OnePlace

LEMMA InitOnePlace == PInit => OnePlace
<1>. SUFFICES ASSUME PInit PROVE OnePlace
  OBVIOUS
<1>1. /\ \A w \in Worker : cmd[w] = <<>> /\ resp[w] = <<>>
      /\ \A t \in Tasks : buf[t] = <<>> /\ got[t] = NoOne /\ delivered[t] = NoOne
  BY DEF PInit, Started
<1>2. /\ \A w \in Worker : Once(cmd[w], Tasks) /\ Once(resp[w], HeaderFrames)
      /\ \A t \in Tasks : Once(buf[t], HeaderFrames)
      /\ \A w \in Worker, d \in Tasks : ~Has(cmd[w], d) /\ ~Has(resp[w], Hd(d))
      /\ \A t, d \in Tasks : ~Has(buf[t], Hd(d))
  BY <1>1, HasEmpty, Zenon
<1>3. \A t, d \in Tasks : ~At(t, d)
  BY <1>1, <1>2 DEF At
<1>. QED
  BY <1>2, <1>3 DEF OnePlace

LEMMA NextOnePlace ==
    TypeOK /\ PTypeOK /\ ClaimSteps /\ OnePlace /\ [PNext]_<<pVars, mode>>
        => OnePlace'
<1>. SUFFICES ASSUME TypeOK, PTypeOK, ClaimSteps, OnePlace,
                     [PNext]_<<pVars, mode>>
              PROVE  OnePlace'
  OBVIOUS
\* Steps that leave the handlers' locals alone and add no request and no
\* header to a pipe.
<1>1. ASSUME UNCHANGED <<buf, got, delivered>>,
             \A w \in Worker :
                 Once(cmd'[w], Tasks) /\ Once(resp'[w], HeaderFrames),
             \A w \in Worker, d \in Tasks : Has(cmd'[w], d) => Has(cmd[w], d),
             \A w \in Worker, d \in Tasks :
                 Has(resp'[w], Hd(d)) => Has(resp[w], Hd(d))
      PROVE  OnePlace'
  <2>1. \A t, d \in Tasks : At(t, d)' <=> At(t, d)
    BY <1>1 DEF At
  <2>2. /\ \A t \in Tasks : Once(buf'[t], HeaderFrames)
        /\ \A t, d \in Tasks : Has(buf'[t], Hd(d)) => got'[t] # d
    BY <1>1 DEF OnePlace
  <2>. QED
    BY <1>1, <2>1, <2>2, TokensShrink
<1>2. ASSUME UNCHANGED <<cmd, resp, buf, got, delivered>> PROVE OnePlace'
  BY <1>1, <1>2 DEF OnePlace
\* Steps of handler t that leave the pipes alone.
<1>3. ASSUME NEW t \in Tasks, HandlerStep(t), UNCHANGED <<cmd, resp>>,
             Once(buf'[t], HeaderFrames),
             \A d \in Tasks : At(t, d)' => At(t, d),
             \A d \in Tasks : Has(buf'[t], Hd(d)) => got'[t] # d
      PROVE  OnePlace'
  <2>1. \A u \in Tasks : u # t =>
            buf'[u] = buf[u] /\ got'[u] = got[u] /\ delivered'[u] = delivered[u]
    BY <1>3, OwnLocals
  <2>2. \A u, d \in Tasks : At(u, d)' => At(u, d)
    BY <1>3, <2>1 DEF At
  <2>3. /\ \A u \in Tasks : Once(buf'[u], HeaderFrames)
        /\ \A u, d \in Tasks : Has(buf'[u], Hd(d)) => got'[u] # d
    BY <1>3, <2>1 DEF OnePlace
  <2>4. /\ \A w \in Worker :
              Once(cmd'[w], Tasks) /\ Once(resp'[w], HeaderFrames)
        /\ \A w \in Worker, d \in Tasks : Has(cmd'[w], d) => Has(cmd[w], d)
        /\ \A w \in Worker, d \in Tasks :
              Has(resp'[w], Hd(d)) => Has(resp[w], Hd(d))
    BY <1>3 DEF OnePlace
  <2>. QED
    BY <2>2, <2>3, <2>4, TokensShrink
\* The shutdown byte is no request.
<1>4. ASSUME NEW w \in Worker,
             UNCHANGED <<resp, buf, got, delivered>>,
             cmd' = cmd \/ cmd' = [cmd EXCEPT ![w] = Append(@, FF)]
      PROVE  OnePlace'
  <2>1. CASE cmd' = cmd
    BY <1>2, <1>4, <2>1
  <2>2. CASE cmd' = [cmd EXCEPT ![w] = Append(@, FF)]
    <3>1. /\ Once(Append(cmd[w], FF), Tasks)
          /\ \A d \in Tasks : Has(Append(cmd[w], FF), d) => Has(cmd[w], d)
      <4>1. cmd[w] \in Seq(Tasks \union {FF}) /\ Once(cmd[w], Tasks)
        BY DEF PTypeOK, OnePlace
      <4>. QED
        BY <4>1, HasAppend
    <3>2. /\ cmd'[w] = Append(cmd[w], FF)
          /\ \A v \in Worker : v # w => cmd'[v] = cmd[v]
      BY <2>2 DEF PTypeOK
    <3>3. /\ Once(cmd'[w], Tasks)
          /\ \A d \in Tasks : Has(cmd'[w], d) => Has(cmd[w], d)
      BY <3>1, <3>2, Zenon
    <3>4. /\ \A v \in Worker : Once(cmd'[v], Tasks)
          /\ \A v \in Worker, d \in Tasks : Has(cmd'[v], d) => Has(cmd[v], d)
      BY <3>2, <3>3, Replaced DEF OnePlace
    <3>5. /\ \A v \in Worker : Once(resp'[v], HeaderFrames)
          /\ \A v \in Worker, d \in Tasks :
                Has(resp'[v], Hd(d)) => Has(resp[v], Hd(d))
      BY <1>4 DEF OnePlace
    <3>. QED
      BY <1>1, <1>4, <3>4, <3>5
  <2>. QED
    BY <1>4, <2>1, <2>2
<1>5. ASSUME NEW t \in Tasks, HandlerStep(t) PROVE OnePlace'
  <2>0. /\ ClaimStep(t) /\ cmdw[t] \in Worker
        /\ cmd \in [Worker -> Seq(Tasks \union {FF})]
        /\ resp \in [Worker -> Seq(Frames)]
        /\ buf \in [Tasks -> Seq(Frames)]
        /\ got \in [Tasks -> Maybe] /\ delivered \in [Tasks -> Maybe]
        /\ ppc \in [Tasks -> {"none", "write", "open", "read", "poison"}]
    BY DEF ClaimSteps, PTypeOK
  <2>1. CASE HandlerDispatch(t) \/ ReadFds(t) \/ OpenPipe(t)
    BY <1>2, <2>1 DEF HandlerDispatch, ReadFds, OpenPipe, workerVars,
                      handlerVars
  <2>2. CASE SendRequest(t)
    <3>1. /\ cmd' = [cmd EXCEPT ![cmdw[t]] = Append(@, t)]
          /\ ppc' = [ppc EXCEPT ![t] = "open"]
          /\ UNCHANGED <<resp, buf, got, delivered, cmdw, out>>
          /\ ppc[t] = "write"
      BY <2>2 DEF SendRequest, tdVars, taskVars
    <3>2. ~Sent(t)
      BY <2>0, <3>1 DEF Sent, ClaimStep, Early
    <3>3. /\ \A w \in Worker : ~Has(cmd[w], t) /\ ~Has(resp[w], Hd(t))
          /\ \A u \in Tasks : ~At(u, t)
      BY <3>2 DEF OnePlace
    <3>4. \A u, d \in Tasks : At(u, d)' <=> At(u, d)
      BY <3>1 DEF At
    <3>5. \A d \in Tasks : Sent(d) => Sent(d)'
      BY SentStays
    <3>6. Sent(t)'
      BY <2>0, <3>1 DEF Sent
    <3>7. /\ Once(Append(cmd[cmdw[t]], t), Tasks)
          /\ \A d : Has(Append(cmd[cmdw[t]], t), d) <=>
                        Has(cmd[cmdw[t]], d) \/ d = t
      <4>1. /\ cmd[cmdw[t]] \in Seq(Tasks \union {FF})
            /\ Once(cmd[cmdw[t]], Tasks) /\ ~Has(cmd[cmdw[t]], t)
        BY <2>0, <3>3 DEF OnePlace
      <4>. QED
        BY <4>1, HasAppend
    <3>8. /\ cmd'[cmdw[t]] = Append(cmd[cmdw[t]], t)
          /\ \A w \in Worker : w # cmdw[t] => cmd'[w] = cmd[w]
      BY <2>0, <3>1
    <3>9. /\ Once(cmd'[cmdw[t]], Tasks)
           /\ \A d : Has(cmd'[cmdw[t]], d) <=> Has(cmd[cmdw[t]], d) \/ d = t
      BY <3>7, <3>8, Zenon
    <3>10. /\ \A w \in Worker : Once(cmd'[w], Tasks)
          /\ \A w \in Worker, d \in Tasks :
                 Has(cmd'[w], d) <=> Has(cmd[w], d) \/ (w = cmdw[t] /\ d = t)
      BY <2>0, <3>8, <3>9, Replaced DEF OnePlace
    <3>11. /\ \A w \in Worker : Once(cmd'[w], Tasks) /\ Once(resp'[w], HeaderFrames)
           /\ \A u \in Tasks : Once(buf'[u], HeaderFrames)
           /\ \A u, d \in Tasks : Has(buf'[u], Hd(d)) => got'[u] # d
      BY <3>1, <3>10 DEF OnePlace
    <3>12. ASSUME NEW w \in Worker, NEW d \in Tasks
           PROVE  /\ Has(cmd'[w], d) => Sent(d)' /\ cmdw'[d] = w
                                        /\ ~Has(resp'[w], Hd(d))
                  /\ Has(resp'[w], Hd(d)) => Sent(d)' /\ cmdw'[d] = w
                  /\ Has(cmd'[w], d) \/ Has(resp'[w], Hd(d)) =>
                         \A u \in Tasks : ~At(u, d)'
      BY <3>1, <3>3, <3>4, <3>5, <3>6, <3>10 DEF OnePlace
    <3>13. ASSUME NEW u \in Tasks, NEW d \in Tasks, At(u, d)'
           PROVE  /\ Sent(d)' /\ cmdw'[d] = cmdw'[u]
                  /\ \A v \in Tasks : At(v, d)' => v = u
      BY <3>1, <3>4, <3>5, <3>13 DEF OnePlace
    <3>. QED
      BY <3>11, <3>12, <3>13 DEF OnePlace
  <2>3. CASE SendFails(t) \/ OpenFails(t) \/ DecodeFails(t) \/ Cancelled(t)
    <3>1. /\ buf'[t] = <<>> /\ got'[t] = NoOne
          /\ UNCHANGED <<cmd, resp, delivered>>
      BY <2>3, AbandonStep DEF workerVars
    <3>2. Once(buf'[t], HeaderFrames) /\ \A d : ~Has(buf'[t], Hd(d))
      BY <3>1, HasEmpty, Zenon
    <3>3. \A d \in Tasks : At(t, d)' => At(t, d)
      BY <3>1, <3>2 DEF At
    <3>. QED
      BY <1>3, <1>5, <3>1, <3>2, <3>3
  <2>4. CASE Fill(t)
    <3>. DEFINE w0 == cmdw[t]
    <3>1. /\ buf' = [buf EXCEPT ![t] = resp[w0]]
          /\ resp' = [resp EXCEPT ![w0] = <<>>]
          /\ UNCHANGED <<cmd, got, delivered, cmdw>>
          /\ buf[t] = <<>> /\ w0 \in Worker
      BY <2>0, <2>4 DEF Fill
    <3>2. /\ buf'[t] = resp[w0]
          /\ \A u \in Tasks : u # t => buf'[u] = buf[u]
          /\ resp'[w0] = <<>>
          /\ \A w \in Worker : w # w0 => resp'[w] = resp[w]
      BY <2>0, <3>1
    <3>3. cmdw[t] = w0
      OBVIOUS
    <3>. HIDE DEF w0
    <3>4. /\ \A w \in Worker, d \in Tasks :
                 Has(resp'[w], Hd(d)) => Has(resp[w], Hd(d)) /\ w # w0
          /\ \A w \in Worker : Once(resp'[w], HeaderFrames)
      <4>1. Once(<<>>, HeaderFrames) /\ \A d : ~Has(<<>>, Hd(d))
        BY HasEmpty
      <4>2. Once(resp'[w0], HeaderFrames) /\ \A d : ~Has(resp'[w0], Hd(d))
        BY <3>2, <4>1, Zenon
      <4>. QED
        BY <3>1, <3>2, <4>2, Replaced DEF OnePlace
    <3>5. ~ \E d : Has(buf[t], Hd(d))
      BY <3>1, HasEmpty, Zenon
    <3>6. \A u, d \in Tasks :
              At(u, d)' <=> At(u, d) \/ (u = t /\ Has(resp[w0], Hd(d)))
      BY <3>1, <3>2, <3>5, Zenon DEF At
    <3>7. \A d \in Tasks : Sent(d) => Sent(d)'
      BY SentStays
    <3>8. /\ \A u \in Tasks : Once(buf'[u], HeaderFrames)
          /\ \A u, d \in Tasks : Has(buf'[u], Hd(d)) => got'[u] # d
      <4>1. \A d \in Tasks : Has(resp[w0], Hd(d)) => got[t] # d
        BY <3>1 DEF OnePlace, At
      <4>2. /\ Once(buf'[t], HeaderFrames)
            /\ \A d \in Tasks : Has(buf'[t], Hd(d)) => got[t] # d
        <5>1. Once(resp[w0], HeaderFrames)
          BY <3>1 DEF OnePlace
        <5>. QED
          BY <3>2, <4>1, <5>1, Zenon
      <4>. QED
        BY <3>1, <3>2, <4>2, Replaced DEF OnePlace
    <3>9. ASSUME NEW w \in Worker, NEW d \in Tasks
          PROVE  /\ Has(cmd'[w], d) => Sent(d)' /\ cmdw'[d] = w
                                       /\ ~Has(resp'[w], Hd(d))
                 /\ Has(resp'[w], Hd(d)) => Sent(d)' /\ cmdw'[d] = w
                 /\ Has(cmd'[w], d) \/ Has(resp'[w], Hd(d)) =>
                        \A u \in Tasks : ~At(u, d)'
      BY <3>1, <3>4, <3>6, <3>7 DEF OnePlace
    <3>10. ASSUME NEW u \in Tasks, NEW d \in Tasks, At(u, d)'
           PROVE  /\ Sent(d)' /\ cmdw'[d] = cmdw'[u]
                  /\ \A v \in Tasks : At(v, d)' => v = u
      BY <3>1, <3>3, <3>6, <3>7, <3>10 DEF OnePlace
    <3>11. \A w \in Worker : Once(cmd'[w], Tasks)
      BY <3>1 DEF OnePlace
    <3>. QED
      BY <3>4, <3>8, <3>9, <3>10, <3>11 DEF OnePlace
  <2>5. CASE DecodeHeaders(t)
    <3>1. /\ buf[t] # <<>> /\ Head(buf[t])[1] = "headers"
          /\ got'[t] = Head(buf[t])[2]
          /\ buf'[t] = Tail(buf[t])
          /\ UNCHANGED <<cmd, resp, delivered>>
      BY <2>0, <2>5 DEF DecodeHeaders, workerVars
    <3>2. /\ Head(buf[t]) \in Frames /\ Has(buf[t], Head(buf[t]))
          /\ \A x : Has(Tail(buf[t]), x) => Has(buf[t], x)
          /\ Once(Tail(buf[t]), HeaderFrames)
          /\ Head(buf[t]) \in HeaderFrames => ~Has(Tail(buf[t]), Head(buf[t]))
      BY <2>0, <3>1, HasTail DEF OnePlace
    <3>3. Head(buf[t])[2] \in Tasks /\ Head(buf[t]) = Hd(Head(buf[t])[2])
      BY <3>1, <3>2 DEF Frames, Ready, Hd
    <3>4. Head(buf[t]) \in HeaderFrames
      BY <3>3 DEF HeaderFrames
    <3>5. \A d \in Tasks : Has(buf'[t], Hd(d)) => got'[t] # d
      BY <3>1, <3>2, <3>3, <3>4
    <3>6. \A d \in Tasks : At(t, d)' => At(t, d)
      BY <3>1, <3>2, <3>3 DEF At
    <3>. QED
      BY <1>3, <1>5, <3>1, <3>2, <3>5, <3>6
  <2>6. CASE DecodeEnd(t)
    <3>1. /\ buf'[t] = <<>> /\ got'[t] = NoOne /\ delivered'[t] = got[t]
          /\ UNCHANGED <<cmd, resp>>
      BY <2>0, <2>6 DEF DecodeEnd, workerVars
    <3>2. Once(buf'[t], HeaderFrames) /\ \A d : ~Has(buf'[t], Hd(d))
      BY <3>1, HasEmpty, Zenon
    <3>3. \A d \in Tasks : At(t, d)' => At(t, d)
      BY <3>1, <3>2 DEF At
    <3>. QED
      BY <1>3, <1>5, <3>1, <3>2, <3>3
  <2>7. CASE Poison(t)
    BY <1>4, <2>0, <2>7 DEF Poison
  <2>. QED
    BY <1>5, <2>1, <2>2, <2>3, <2>4, <2>5, <2>6, <2>7 DEF HandlerStep
<1>6. ASSUME NEW w \in Worker, WorkerProgress(w) \/ WorkerFailure(w)
      PROVE  OnePlace'
  <2>0. UNCHANGED <<buf, got, delivered, cmdw>>
    BY <1>6 DEF WorkerProgress, WorkerFailure, handlerVars
  <2>1. ASSUME NEW f \in Frames, f \notin HeaderFrames, UNCHANGED cmd,
               resp' = [resp EXCEPT ![w] = Append(@, f)]
        PROVE  OnePlace'
    <3>1. /\ Once(Append(resp[w], f), HeaderFrames)
          /\ \A x : Has(Append(resp[w], f), x) => Has(resp[w], x) \/ x = f
      BY <2>1, HasAppend DEF PTypeOK, OnePlace
    <3>2. \A d \in Tasks : Has(Append(resp[w], f), Hd(d)) => Has(resp[w], Hd(d))
      BY <2>1, <3>1 DEF HeaderFrames
    <3>3. /\ resp'[w] = Append(resp[w], f)
          /\ \A v \in Worker : v # w => resp'[v] = resp[v]
      BY <2>1 DEF PTypeOK
    <3>4. /\ Once(resp'[w], HeaderFrames)
          /\ \A d \in Tasks : Has(resp'[w], Hd(d)) => Has(resp[w], Hd(d))
      BY <3>1, <3>2, <3>3, Zenon
    <3>5. /\ \A v \in Worker : Once(resp'[v], HeaderFrames)
          /\ \A v \in Worker, d \in Tasks :
                Has(resp'[v], Hd(d)) => Has(resp[v], Hd(d))
      BY <3>3, <3>4, Replaced DEF OnePlace
    <3>6. /\ \A v \in Worker : Once(cmd'[v], Tasks)
          /\ \A v \in Worker, d \in Tasks : Has(cmd'[v], d) => Has(cmd[v], d)
      BY <2>1 DEF OnePlace
    <3>. QED
      BY <1>1, <2>0, <3>5, <3>6
  <2>2. CASE WorkerReady(w)
    <3>1. Ready \in Frames /\ Ready \notin HeaderFrames
      BY DEF Frames, Ready, HeaderFrames, Hd
    <3>. QED
      BY <2>1, <2>2, <3>1 DEF WorkerReady
  <2>3. CASE WorkerWriteEnd(w)
    <3>1. /\ <<"end", running[w]>> \in Frames
          /\ <<"end", running[w]>> \notin HeaderFrames
      BY <2>3 DEF WorkerWriteEnd, Frames, PTypeOK, HeaderFrames, Hd
    <3>. QED
      BY <2>1, <2>3, <3>1 DEF WorkerWriteEnd
  <2>4. CASE WorkerTake(w)
    <3>. DEFINE h == Head(cmd[w])
    <3>1. /\ cmd[w] # <<>> /\ h # FF
          /\ cmd' = [cmd EXCEPT ![w] = Tail(@)]
          /\ resp' = [resp EXCEPT ![w] = Append(@, Hd(h))]
      BY <2>4 DEF WorkerTake, Hd
    <3>2. /\ h \in Tasks /\ Has(cmd[w], h)
          /\ \A x : Has(Tail(cmd[w]), x) => Has(cmd[w], x)
          /\ Once(Tail(cmd[w]), Tasks) /\ ~Has(Tail(cmd[w]), h)
      <4>1. cmd[w] \in Seq(Tasks \union {FF}) /\ Once(cmd[w], Tasks)
        BY DEF PTypeOK, OnePlace
      <4>2. h \in Tasks
        BY <3>1, <4>1, HasTail
      <4>. QED
        BY <3>1, <4>1, <4>2, HasTail
    <3>. HIDE DEF h
    <3>3. Sent(h) /\ cmdw[h] = w /\ ~Has(resp[w], Hd(h)) /\ \A t \in Tasks : ~At(t, h)
      BY <3>2 DEF OnePlace
    <3>4. /\ Once(Append(resp[w], Hd(h)), HeaderFrames)
          /\ \A x : Has(Append(resp[w], Hd(h)), x) <=>
                        Has(resp[w], x) \/ x = Hd(h)
      <4>1. Hd(h) \in Frames /\ resp[w] \in Seq(Frames)
        BY <3>2 DEF Hd, Frames, PTypeOK
      <4>. QED
        BY <3>3, <4>1, HasAppend DEF OnePlace
    <3>5. /\ cmd'[w] = Tail(cmd[w]) /\ resp'[w] = Append(resp[w], Hd(h))
          /\ \A v \in Worker : v # w => cmd'[v] = cmd[v] /\ resp'[v] = resp[v]
      BY <3>1 DEF PTypeOK
    <3>6. \A d : Hd(d) = Hd(h) => d = h
      BY DEF Hd
    <3>7. /\ \A v \in Worker, d \in Tasks :
                 Has(cmd'[v], d) => Has(cmd[v], d) /\ ~(v = w /\ d = h)
          /\ \A v \in Worker, d \in Tasks :
                 Has(resp'[v], Hd(d)) =>
                     Has(resp[v], Hd(d)) \/ (v = w /\ d = h)
      BY <3>2, <3>4, <3>5, <3>6, Zenon
    <3>8. \A t, d \in Tasks : At(t, d)' <=> At(t, d)
      BY <2>0 DEF At
    <3>9. \A d \in Tasks : Sent(d) => Sent(d)'
      BY SentStays
    <3>10. /\ \A v \in Worker :
                 Once(cmd'[v], Tasks) /\ Once(resp'[v], HeaderFrames)
           /\ \A t \in Tasks : Once(buf'[t], HeaderFrames)
           /\ \A t, d \in Tasks : Has(buf'[t], Hd(d)) => got'[t] # d
      BY <2>0, <3>2, <3>4, <3>5, Zenon DEF OnePlace
    <3>11. ASSUME NEW v \in Worker, NEW d \in Tasks
           PROVE  /\ Has(cmd'[v], d) => Sent(d)' /\ cmdw'[d] = v
                                        /\ ~Has(resp'[v], Hd(d))
                  /\ Has(resp'[v], Hd(d)) => Sent(d)' /\ cmdw'[d] = v
                  /\ Has(cmd'[v], d) \/ Has(resp'[v], Hd(d)) =>
                         \A u \in Tasks : ~At(u, d)'
      BY <2>0, <3>3, <3>7, <3>8, <3>9 DEF OnePlace
    <3>12. ASSUME NEW u \in Tasks, NEW d \in Tasks, At(u, d)'
           PROVE  /\ Sent(d)' /\ cmdw'[d] = cmdw'[u]
                  /\ \A v \in Tasks : At(v, d)' => v = u
      BY <2>0, <3>8, <3>9, <3>12 DEF OnePlace
    <3>. QED
      BY <3>10, <3>11, <3>12 DEF OnePlace
  <2>5. CASE WorkerShutdown(w) \/ WorkerKilled(w) \/ WorkerCrash(w)
    <3>1. cmd' = [cmd EXCEPT ![w] = <<>>] /\ UNCHANGED resp
      BY <2>5 DEF WorkerShutdown, WorkerKilled, WorkerCrash, Exit
    <3>2. cmd'[w] = <<>> /\ \A v \in Worker : v # w => cmd'[v] = cmd[v]
      BY <3>1 DEF PTypeOK
    <3>3. Once(<<>>, Tasks) /\ \A d : ~Has(<<>>, d)
      BY HasEmpty
    <3>4. Once(cmd'[w], Tasks) /\ \A d : ~Has(cmd'[w], d)
      BY <3>2, <3>3, Zenon
    <3>5. /\ \A v \in Worker : Once(cmd'[v], Tasks)
          /\ \A v \in Worker, d \in Tasks : Has(cmd'[v], d) => Has(cmd[v], d)
      BY <3>2, <3>4, Replaced DEF OnePlace
    <3>6. /\ \A v \in Worker : Once(resp'[v], HeaderFrames)
          /\ \A v \in Worker, d \in Tasks :
                Has(resp'[v], Hd(d)) => Has(resp[v], Hd(d))
      BY <3>1 DEF OnePlace
    <3>. QED
      BY <1>1, <2>0, <3>5, <3>6
  <2>. QED
    BY <1>6, <2>2, <2>3, <2>4, <2>5 DEF WorkerProgress, WorkerFailure
<1>7. CASE ReaperStep
  <2>1. ASSUME NEW i \in Slot, RetireWorker(i) PROVE OnePlace'
    <3>1. pool[i] \in Worker
      BY DEF PTypeOK
    <3>. QED
      BY <1>4, <2>1, <3>1 DEF RetireWorker, handlerVars
  <2>2. ASSUME NEW i \in Slot, ReapSpawn(i) PROVE OnePlace'
    BY <1>2, <2>2 DEF ReapSpawn, handlerVars
  <2>3. ASSUME NEW i \in Slot, ReapReady(i) PROVE OnePlace'
    <3>1. /\ resp' = [resp EXCEPT ![pool[i]] = <<>>] /\ pool[i] \in Worker
          /\ UNCHANGED <<cmd, buf, got, delivered>>
      BY <2>3 DEF ReapReady, handlerVars, PTypeOK
    <3>2. /\ resp'[pool[i]] = <<>>
          /\ \A v \in Worker : v # pool[i] => resp'[v] = resp[v]
      BY <3>1 DEF PTypeOK
    <3>3. Once(<<>>, HeaderFrames) /\ \A x : ~Has(<<>>, x)
      BY HasEmpty
    <3>4. Once(resp'[pool[i]], HeaderFrames) /\ \A x : ~Has(resp'[pool[i]], x)
      BY <3>2, <3>3, Zenon
    <3>5. /\ \A v \in Worker : Once(resp'[v], HeaderFrames)
          /\ \A v \in Worker, d \in Tasks :
                Has(resp'[v], Hd(d)) => Has(resp[v], Hd(d))
      BY <3>1, <3>2, <3>4, Replaced DEF OnePlace
    <3>6. /\ \A v \in Worker : Once(cmd'[v], Tasks)
          /\ \A v \in Worker, d \in Tasks : Has(cmd'[v], d) => Has(cmd[v], d)
      BY <3>1 DEF OnePlace
    <3>. QED
      BY <1>1, <3>1, <3>5, <3>6
  <2>4. CASE \/ ReapScan \/ ReapSpawnFails \/ ReapDone
             \/ SyncFds \/ SyncPids \/ ReaperRest
    BY <1>2, <2>4 DEF ReapScan, ReapSpawnFails, ReapDone, SyncFds, SyncPids,
                ReaperRest, workerVars, handlerVars
  <2>. QED
    BY <1>7, <2>1, <2>2, <2>3, <2>4 DEF ReaperStep
<1>8. CASE UNCHANGED <<pVars, mode>>
  BY <1>2, <1>8 DEF pVars, workerVars, handlerVars
<1>. QED
  BY <1>5, <1>6, <1>7, <1>8 DEF PNext

----------------------------------------------------------------------------
(***************************************************************************)
(* Whose answer a client can get                                           *)
(***************************************************************************)
\* Two handlers that use one worker are recorded.
UsersMixed ==
    \A t, u \in Tasks, w \in Worker :
        Using(t, w) /\ Using(u, w) => t = u \/ w \in mixed

\* How handler t can hold the answer to request d.
Cause(t, d) == d = t \/ Forsaken(d) \/ cmdw[t] \in mixed

HasCause ==
    \A t, d \in Tasks : got[t] = d \/ delivered[t] = d => Cause(t, d)

LEMMA NextUsersMixed ==
    TypeOK /\ PTypeOK /\ UsersMixed /\ [PNext]_<<pVars, mode>> => UsersMixed'
<1>. SUFFICES ASSUME TypeOK, PTypeOK, UsersMixed, [PNext]_<<pVars, mode>>
              PROVE  UsersMixed'
  OBVIOUS
<1>1. ASSUME mixed \subseteq mixed',
             \A t \in Tasks, w \in Worker : Using(t, w)' => Using(t, w)
      PROVE  UsersMixed'
  BY <1>1, Zenon DEF UsersMixed
<1>2. CASE ~ \E t \in Tasks : HandlerStep(t)
  BY <1>1, <1>2, NotHandler DEF handlerVars, Using
<1>3. ASSUME NEW t \in Tasks, HandlerStep(t) PROVE UsersMixed'
  <2>1. \A u \in Tasks, w \in Worker : u # t => (Using(u, w)' <=> Using(u, w))
    BY <1>3, OwnLocals DEF Using
  <2>2. CASE ReadFds(t)
    <3>. DEFINE v == fdsOf[idx[t]]
    <3>1. /\ cmdw'[t] = v /\ v \in Worker
          /\ mixed' = IF \E u \in Tasks : Using(u, v)
                      THEN mixed \union {v} ELSE mixed
      BY <2>2 DEF ReadFds, PTypeOK, TypeOK
    <3>. HIDE DEF v
    <3>2. \A w \in Worker : Using(t, w)' => w = v
      BY <3>1 DEF Using
    <3>. QED
      BY <2>1, <3>1, <3>2 DEF UsersMixed
  <2>3. CASE ~ReadFds(t)
    <3>1. mixed' = mixed
      <4>1. CASE SendFails(t) \/ OpenFails(t) \/ DecodeFails(t) \/ Cancelled(t)
        BY <4>1, AbandonStep
      <4>. QED
        BY <1>3, <2>3, <4>1 DEF HandlerStep, HandlerDispatch, SendRequest,
           OpenPipe, Fill, DecodeHeaders, DecodeEnd, Poison, handlerVars
    <3>2. \A w \in Worker : Using(t, w)' => Using(t, w)
      <4>1. CASE SendFails(t) \/ OpenFails(t) \/ DecodeFails(t) \/ Cancelled(t)
        BY <4>1, AbandonStep DEF Using
      <4>2. CASE HandlerDispatch(t) \/ Fill(t) \/ DecodeHeaders(t)
        BY <4>2 DEF HandlerDispatch, Fill, DecodeHeaders, handlerVars, Using
      <4>3. CASE SendRequest(t) \/ OpenPipe(t) \/ DecodeEnd(t) \/ Poison(t)
        BY <4>3 DEF SendRequest, OpenPipe, DecodeEnd, Poison, Using, PTypeOK
      <4>. QED
        BY <1>3, <2>3, <4>1, <4>2, <4>3 DEF HandlerStep
    <3>. QED
      BY <1>1, <2>1, <3>1, <3>2
  <2>. QED
    BY <2>2, <2>3
<1>. QED
  BY <1>2, <1>3

\* Who was given up on, or got another's answer, stays so.
LEMMA ForsakenStays ==
    ASSUME TypeOK, PTypeOK, ClaimSteps, [PNext]_<<pVars, mode>>,
           NEW d \in Tasks, Forsaken(d)
    PROVE  Forsaken(d)'
<1>0. ClaimStep(d)
  BY DEF ClaimSteps
<1>1. pc[d] \notin Early
  BY <1>0 DEF Forsaken, ClaimStep
<1>2. CASE ~ \E t \in Tasks : HandlerStep(t)
  BY <1>2, NotHandler DEF handlerVars, Forsaken
<1>3. ASSUME NEW t \in Tasks, HandlerStep(t), d # t PROVE Forsaken(d)'
  BY <1>3, OwnLocals DEF Forsaken
<1>4. CASE HandlerStep(d)
  <2>1. CASE HandlerDispatch(d)
    BY <1>1, <2>1, DispatchStep DEF HandlerDispatch, handlerVars, Forsaken
  <2>2. CASE Poison(d)
    BY <2>2 DEF Poison, tdVars, taskVars, Forsaken
  <2>3. ppc[d] \notin {"write", "open", "read"} /\ pc[d] # "claimed"
    BY <1>0, <1>1 DEF ClaimStep, Early
  <2>4. ~(SendFails(d) \/ OpenFails(d) \/ DecodeFails(d) \/ Cancelled(d))
    BY <2>3, AbandonStep
  <2>. QED
    BY <1>4, <2>1, <2>2, <2>3, <2>4 DEF HandlerStep, ReadFds, SendRequest,
       OpenPipe, Fill, DecodeHeaders, DecodeEnd, Reading
<1>. QED
  BY <1>2, <1>3, <1>4

LEMMA NextHasCause ==
    TypeOK /\ PTypeOK /\ ClaimSteps /\ OnePlace /\ UsersMixed /\ HasCause
        /\ [PNext]_<<pVars, mode>> => HasCause'
<1>. SUFFICES ASSUME TypeOK, PTypeOK, ClaimSteps, OnePlace, UsersMixed,
                     HasCause, [PNext]_<<pVars, mode>>,
                     NEW t \in Tasks, NEW d \in Tasks,
                     got'[t] = d \/ delivered'[t] = d
              PROVE  Cause(t, d)'
  BY DEF HasCause
<1>0. ClaimStep(t) /\ d # NoOne
  BY DEF ClaimSteps
<1>1. mixed \subseteq mixed'
  <2>1. ASSUME NEW u \in Tasks, HandlerStep(u) PROVE mixed \subseteq mixed'
    <3>1. CASE SendFails(u) \/ OpenFails(u) \/ DecodeFails(u) \/ Cancelled(u)
      BY <3>1, AbandonStep
    <3>. QED
      BY <2>1, <3>1 DEF HandlerStep, HandlerDispatch, ReadFds, SendRequest,
         OpenPipe, Fill, DecodeHeaders, DecodeEnd, Poison, handlerVars
  <2>2. CASE ~ \E u \in Tasks : HandlerStep(u)
    BY <2>2, NotHandler DEF handlerVars
  <2>. QED
    BY <2>1, <2>2
<1>2. ASSUME Cause(t, d), At(t, d) PROVE Cause(t, d)'
  <2>1. cmdw'[t] = cmdw[t]
    BY <1>2, AtStays
  <2>2. Forsaken(d) => Forsaken(d)'
    BY ForsakenStays
  <2>. QED
    BY <1>1, <1>2, <2>1, <2>2 DEF Cause
<1>3. ASSUME got[t] = d \/ delivered[t] = d PROVE Cause(t, d)'
  BY <1>2, <1>3 DEF HasCause, At
<1>4. CASE DecodeHeaders(t)
  <2>1. /\ buf[t] # <<>> /\ Head(buf[t])[1] = "headers"
        /\ got' = [got EXCEPT ![t] = Head(buf[t])[2]]
        /\ UNCHANGED <<delivered, cmdw, out, mixed>>
        /\ ppc[t] = "read" /\ cmdw[t] \in Worker
    BY <1>4 DEF DecodeHeaders, Reading, tdVars, taskVars, PTypeOK
  <2>2. Head(buf[t]) \in Frames /\ Has(buf[t], Head(buf[t]))
    BY <2>1, HasTail DEF PTypeOK
  <2>3. Head(buf[t]) = Hd(Head(buf[t])[2]) /\ Head(buf[t])[2] \in Tasks
    BY <2>1, <2>2 DEF Frames, Ready, Hd
  <2>4. CASE delivered[t] = d
    BY <1>3, <2>4
  <2>5. CASE delivered[t] # d
    <3>1. d = Head(buf[t])[2]
      BY <2>1, <2>5 DEF PTypeOK
    <3>2. At(t, d)
      BY <2>2, <2>3, <3>1 DEF At
    <3>3. Sent(d) /\ cmdw[d] = cmdw[t] /\ \A u \in Tasks : At(u, d) => u = t
      BY <3>2 DEF OnePlace
    <3>4. CASE ppc[d] \in {"open", "read"}
      <4>1. Using(d, cmdw[t]) /\ Using(t, cmdw[t])
        BY <2>1, <3>3, <3>4 DEF Using
      <4>. QED
        BY <1>2, <2>1, <3>2, <4>1 DEF UsersMixed, Cause
    <3>5. CASE out[d] \in {"502", "gone"}
      BY <1>2, <3>2, <3>5 DEF Forsaken, Cause
    <3>6. CASE out[d] = "ok"
      <4>1. delivered[d] # NoOne
        BY <3>6 DEF ClaimSteps, ClaimStep
      <4>2. delivered[d] = d => d = t
        BY <3>3 DEF At
      <4>. QED
        BY <1>2, <3>2, <4>1, <4>2 DEF Forsaken, Cause
    <3>. QED
      BY <3>3, <3>4, <3>5, <3>6 DEF Sent
  <2>. QED
    BY <2>4, <2>5
<1>5. CASE ~DecodeHeaders(t)
  <2>1. got[t] = d \/ delivered[t] = d
    <3>1. CASE ~ \E u \in Tasks : HandlerStep(u)
      BY <3>1, NotHandler DEF handlerVars
    <3>2. ASSUME NEW u \in Tasks, HandlerStep(u), u # t
          PROVE  got[t] = d \/ delivered[t] = d
      BY <3>2, OwnLocals
    <3>3. CASE HandlerStep(t)
      <4>1. CASE SendFails(t) \/ OpenFails(t) \/ DecodeFails(t) \/ Cancelled(t)
        BY <1>0, <4>1, AbandonStep
      <4>2. CASE DecodeEnd(t)
        BY <1>0, <4>2 DEF DecodeEnd, PTypeOK
      <4>. QED
        BY <1>5, <3>3, <4>1, <4>2 DEF HandlerStep, HandlerDispatch, ReadFds,
           SendRequest, OpenPipe, Fill, Poison, handlerVars
    <3>. QED
      BY <3>1, <3>2, <3>3
  <2>. QED
    BY <1>3, <2>1
<1>. QED
  BY <1>4, <1>5

\* A response reaches a client it was not made for only after its own client
\* was forsaken or on a worker two handlers used at a time, and no response
\* reaches two clients: crashes, kills, retirements and respawns in any
\* order add no other way.
THEOREM LeaksHaveCause == PSpec => []OnlyAbandonedLeak
<1>. DEFINE IInv == PTypeOK /\ ClaimSteps /\ OnePlace /\ UsersMixed /\ HasCause
<1>1. PInit => IInv
  <2>1. PInit => UsersMixed /\ HasCause
    BY DEF PInit, Started, UsersMixed, HasCause, Using
  <2>. QED
    BY <2>1, InitPTypeOK, InitClaimSteps, InitOnePlace
<1>2. TypeOK /\ IInv /\ [PNext]_<<pVars, mode>> => IInv'
  BY NextPTypeOK, NextClaimSteps, NextOnePlace, NextUsersMixed, NextHasCause
<1>3. IInv => OnlyAbandonedLeak
  <2>. SUFFICES ASSUME IInv, NEW t \in Tasks, delivered[t] # NoOne
                PROVE  /\ Cause(t, delivered[t])
                       /\ \A u \in Tasks : delivered[u] = delivered[t] => u = t
    BY DEF OnlyAbandonedLeak, Cause
  <2>1. delivered[t] \in Tasks
    BY DEF PTypeOK, Maybe
  <2>2. Cause(t, delivered[t])
    BY <2>1 DEF HasCause
  <2>3. ASSUME NEW u \in Tasks, delivered[u] = delivered[t] PROVE u = t
    <3>1. At(t, delivered[t]) /\ At(u, delivered[t])
      BY <2>3 DEF At
    <3>. QED
      BY <2>1, <3>1 DEF OnePlace
  <2>. QED
    BY <2>2, <2>3
<1>. QED
  BY <1>1, <1>2, <1>3, PersistentImplementsDispatch, TypeCorrect, PTL DEF PSpec
=============================================================================
