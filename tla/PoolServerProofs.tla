-------------------------- MODULE PoolServerProofs --------------------------
(***************************************************************************)
(* Proofs about PoolServer, for every number of workers, of forks and of   *)
(* requests and for every set of configurations.                           *)
(***************************************************************************)
EXTENDS PoolServer, TLAPS, FiniteSetTheorems, SequenceTheorems

USE PoolAssumption

----------------------------------------------------------------------------
(***************************************************************************)
(* Sets of numbers and sequences.                                          *)
(***************************************************************************)

\* A function on 1 .. n is a sequence of that length.
LEMMA FunSeq ==
    ASSUME NEW S, NEW n \in Nat, NEW f \in [1 .. n -> S]
    PROVE  f \in Seq(S) /\ Len(f) = n /\ DOMAIN f = 1 .. n
<1>1. f \in Seq(S)
  BY SeqDef
<1>. QED
  BY <1>1, LenProperties

\* Numbers behind a, and their distance from it.
LEMMA Behind ==
    \A a, b \in Nat : \A i \in 1 .. a + b : i \in 1 .. a \/ (i - a \in 1 .. b /\ i = a + (i - a))
OBVIOUS

\* The ranks of the elements of a finite set of numbers are 1 .. its size.
LEMMA Ranks ==
    ASSUME NEW D \in SUBSET Nat, IsFiniteSet(D)
    PROVE  /\ Cardinality(D) \in Nat
           /\ \A i \in D : Rank(D, i) \in 1 .. Cardinality(D)
           /\ \A i, j \in D : i < j => Rank(D, i) < Rank(D, j)
           /\ \A k \in 1 .. Cardinality(D) : \E i \in D : Rank(D, i) = k
<1> DEFINE Below(i) == {j \in D : j <= i}
           n == Cardinality(D)
<1>1. n \in Nat
  BY FS_CardinalityType
<1>2. \A i \in D : IsFiniteSet(Below(i)) /\ Cardinality(Below(i)) \in 1 .. n
  <2> SUFFICES ASSUME NEW i \in D
               PROVE  IsFiniteSet(Below(i)) /\ Cardinality(Below(i)) \in 1 .. n
    OBVIOUS
  <2>1. Below(i) \in SUBSET D /\ i \in Below(i)
    OBVIOUS
  <2>2. IsFiniteSet(Below(i)) /\ Cardinality(Below(i)) <= n
    BY <2>1, FS_Subset
  <2>3. Cardinality(Below(i)) # 0 /\ Cardinality(Below(i)) \in Nat
    BY <2>1, <2>2, FS_EmptySet, FS_CardinalityType
  <2>. QED
    BY <1>1, <2>2, <2>3
<1>3. \A i, j \in D : i < j => Cardinality(Below(i)) < Cardinality(Below(j))
  <2> SUFFICES ASSUME NEW i \in D, NEW j \in D, i < j
               PROVE  Cardinality(Below(i)) < Cardinality(Below(j))
    OBVIOUS
  <2>0. i \in Nat /\ j \in Nat /\ \A k \in D : k \in Nat
    OBVIOUS
  <2>5. \A k \in D : k <= i => k <= j
    BY <2>0
  <2>6. j <= j /\ ~(j <= i)
    BY <2>0
  <2>1. Below(i) \in SUBSET Below(j) /\ j \in Below(j) /\ j \notin Below(i)
    BY <2>5, <2>6
  <2>2. IsFiniteSet(Below(j))
    BY <1>2
  <2>3. /\ Cardinality(Below(i)) <= Cardinality(Below(j))
        /\ Cardinality(Below(j)) = Cardinality(Below(i)) => Below(j) = Below(i)
    BY <2>1, <2>2, FS_Subset
  <2>. QED
    BY <1>1, <1>2, <2>1, <2>3
<1> DEFINE R == [i \in D |-> Cardinality(Below(i))]
<1>4. R \in Injection(D, 1 .. n)
  <2>1. R \in [D -> 1 .. n]
    BY <1>2
  <2>2. \A i, j \in D : R[i] = R[j] => i = j
    BY <1>1, <1>2, <1>3
  <2>. QED
    BY <2>1, <2>2 DEF Injection, IsInjective
<1>5. IsFiniteSet(1 .. n) /\ Cardinality(1 .. n) = n
  BY <1>1, FS_Interval
<1>6. R \in Surjection(D, 1 .. n)
  BY <1>4, <1>5, FS_Injection
<1>7. \A k \in 1 .. n : \E i \in D : R[i] = k
  BY <1>6 DEF Surjection
<1>. QED
  BY <1>1, <1>2, <1>3, <1>7 DEF Rank

\* Ascending lists every element once.
LEMMA AscendingLists ==
    ASSUME NEW D \in SUBSET Nat, IsFiniteSet(D)
    PROVE  /\ Cardinality(D) \in Nat
           /\ Ascending(D) \in Seq(D)
           /\ Len(Ascending(D)) = Cardinality(D)
           /\ DOMAIN Ascending(D) = 1 .. Cardinality(D)
           /\ \A k, l \in 1 .. Cardinality(D) : Ascending(D)[k] = Ascending(D)[l] => k = l
           /\ \A i \in D : \E k \in 1 .. Cardinality(D) : Ascending(D)[k] = i
<1> DEFINE n == Cardinality(D)
           A == Ascending(D)
           At(k) == CHOOSE i \in D : Rank(D, i) = k
<1>1. n \in Nat
  BY Ranks
<1>2. \A k \in 1 .. n : At(k) \in D /\ Rank(D, At(k)) = k
  BY Ranks, Zenon
<1>3. A = [k \in 1 .. n |-> At(k)]
  BY DEF Ascending
<1> HIDE DEF A, At, n
<1>4. A \in [1 .. n -> D] /\ \A k \in 1 .. n : A[k] \in D /\ Rank(D, A[k]) = k
  BY <1>2, <1>3
<1>5. \A i \in D : \E k \in 1 .. n : A[k] = i
  <2> SUFFICES ASSUME NEW i \in D
               PROVE  \E k \in 1 .. n : A[k] = i
    OBVIOUS
  <2>1. Rank(D, i) \in 1 .. n
    BY Ranks DEF n
  <2>2. A[Rank(D, i)] \in D /\ Rank(D, A[Rank(D, i)]) = Rank(D, i)
    BY <1>4, <2>1
  <2>3. \A a, b \in D : Rank(D, a) = Rank(D, b) => a = b
    <3>1. \A a, b \in D : a < b => Rank(D, a) < Rank(D, b)
      BY Ranks
    <3>2. \A a \in D : Rank(D, a) \in Nat
      BY <1>1, Ranks DEF n
    <3>. QED
      BY <3>1, <3>2
  <2>. QED
    BY <2>1, <2>2, <2>3
<1>6. A \in Seq(D) /\ Len(A) = n /\ DOMAIN A = 1 .. n
  BY <1>1, <1>4, FunSeq
<1>. QED
  BY <1>1, <1>4, <1>5, <1>6 DEF A, n

\* A finite set of numbers that is not empty has a greatest element.
LEMMA Greatest ==
    ASSUME NEW D \in SUBSET Nat, IsFiniteSet(D), D # {}
    PROVE  \E i \in D : \A j \in D : j <= i
<1> DEFINE n == Cardinality(D)
<1>1. n \in Nat \ {0}
  BY FS_CardinalityType, FS_EmptySet
<1>2. PICK i \in D : Rank(D, i) = n
  BY <1>1, Ranks
<1>3. ASSUME NEW j \in D, i < j
      PROVE  FALSE
  <2>1. Rank(D, i) < Rank(D, j) /\ Rank(D, j) \in 1 .. n
    BY <1>3, Ranks
  <2>. QED
    BY <1>1, <1>2, <2>1
<1>4. \A j \in D : j \in Nat /\ i \in Nat
  OBVIOUS
<1>. QED
  BY <1>3, <1>4

\* What is left of a sequence that is cut behind its first n elements.
LEMMA Prefix ==
    ASSUME NEW S, NEW q \in Seq(S), NEW n \in 0 .. Len(q)
    PROVE  /\ SubSeq(q, 1, n) \in Seq(S)
           /\ Len(SubSeq(q, 1, n)) = n
           /\ DOMAIN SubSeq(q, 1, n) = 1 .. n
           /\ \A k \in 1 .. n : SubSeq(q, 1, n)[k] = q[k]
<1>1. Len(q) \in Nat /\ n \in Nat /\ \A k \in 1 .. n : q[k] \in S
  BY LenProperties, ElementOfSeq
<1>2. SubSeq(q, 1, n) \in Seq(S) /\ Len(SubSeq(q, 1, n)) = IF 1 <= n THEN n - 1 + 1 ELSE 0
  BY <1>1, SubSeqProperties
<1>3. \A k \in 1 .. n - 1 + 1 : SubSeq(q, 1, n)[k] = q[1 + k - 1]
  BY <1>1, SubSeqProperties
<1>4. \A k \in 1 .. n : k \in 1 .. n - 1 + 1 /\ 1 + k - 1 = k
  BY <1>1
<1>5. \A k \in 1 .. n : SubSeq(q, 1, n)[k] = q[k]
  BY <1>3, <1>4
<1>6. (IF 1 <= n THEN n - 1 + 1 ELSE 0) = n
  BY <1>1
<1>. QED
  BY <1>2, <1>5, <1>6, LenProperties

\* Two sequences in a row.
LEMMA Row ==
    ASSUME NEW S, NEW q \in Seq(S), NEW r \in Seq(S), NEW z, z = q \o r
    PROVE  /\ z \in Seq(S)
           /\ Len(z) = Len(q) + Len(r)
           /\ DOMAIN z = 1 .. Len(q) + Len(r)
           /\ \A i \in 1 .. Len(q) : z[i] = q[i]
           /\ \A i \in 1 .. Len(r) : z[Len(q) + i] = r[i]
<1>1. /\ z \in Seq(S)
      /\ Len(z) = Len(q) + Len(r)
      /\ \A i \in 1 .. Len(q) + Len(r) :
            z[i] = IF i <= Len(q) THEN q[i] ELSE r[i - Len(q)]
  BY ConcatProperties
<1>2. Len(q) \in Nat /\ Len(r) \in Nat
  BY LenProperties
<1>3. DOMAIN z = 1 .. Len(q) + Len(r)
  BY <1>1, LenProperties
<1>4. \A i \in 1 .. Len(q) : i \in 1 .. Len(q) + Len(r) /\ i <= Len(q)
  BY <1>2
<1>5. \A i \in 1 .. Len(r) : /\ Len(q) + i \in 1 .. Len(q) + Len(r)
                               /\ ~(Len(q) + i <= Len(q)) /\ Len(q) + i - Len(q) = i
  BY <1>2
<1>. QED
  BY <1>1, <1>3, <1>4, <1>5

----------------------------------------------------------------------------
(***************************************************************************)
(* The pool: its type, and what each operation of WorkerPool does to it.   *)
(***************************************************************************)
Lives == {"none", "boot", "up", "dead"}

Pool == [mode : {"process", "thread"}, maxRequests : Nat, faults : Nat,
         workers : Seq(Worker), idle_queue : Seq(Procs), forked : 0 .. MaxProcs,
         life : [Procs -> Lives], term : SUBSET Procs,
         cmds : [Procs -> Seq(Commands)], resps : [Procs -> Seq(Responses)],
         closed : SUBSET Procs]

\* Nothing is in the pool that was not forked.
Sound(s) == /\ s \in Pool /\ Len(s.workers) <= s.forked /\ N <= s.forked
            /\ \A i \in DOMAIN s.workers : s.workers[i].proc <= s.forked

InQueue(s, i) == \E k \in DOMAIN s.idle_queue : s.idle_queue[k] = i

\* The worker behind an index and its pipe ends stay the same.
SameWorkers(s, r) ==
    /\ r.mode = s.mode /\ r.maxRequests = s.maxRequests /\ r.forked = s.forked
    /\ DOMAIN r.workers = DOMAIN s.workers /\ Len(r.workers) = Len(s.workers)
    /\ \A i \in DOMAIN s.workers : r.workers[i].proc = s.workers[i].proc

\* The pipes and the processes stay the same, but for shutdown commands to
\* workers that live.
SamePipes(s, r) ==
    /\ r.life = s.life /\ r.resps = s.resps /\ r.closed = s.closed
    /\ \A p \in Procs : \/ r.cmds[p] = s.cmds[p]
                        \/ r.cmds[p] = Append(s.cmds[p], "Shutdown") /\ s.life[p] # "dead"

\* The quota of a worker is a number.
LEMMA StaggeredType ==
    ASSUME NEW base \in Nat, NEW i \in Nat
    PROVE  staggered_max_requests(base, i) \in Nat
<1> DEFINE d == 5 * (N - 1)
           num == 2 * base * (4 * (N - 1) + i) + d
           scaled == num \div (2 * d)
<1>1. CASE base = 0 \/ N = 1
  BY <1>1 DEF staggered_max_requests
<1>2. CASE ~(base = 0 \/ N = 1)
  <2>1. d \in Nat \ {0} /\ 2 * d \in Nat \ {0}
    BY <1>2
  <2>2. 4 * (N - 1) + i \in Nat
    OBVIOUS
  <2>3. \A x, y \in Nat : 2 * x * y \in Nat
    OBVIOUS
  <2>4. num \in Nat
    BY <2>1, <2>2, <2>3
  <2>5. \A x \in Nat, y \in Nat \ {0} : x \div y \in Int
    OBVIOUS
  <2>6. scaled \in Int
    BY <2>1, <2>4, <2>5
  <2>7. staggered_max_requests(base, i) = IF scaled < 1 THEN 1 ELSE scaled
    BY <1>2 DEF staggered_max_requests
  <2> HIDE DEF scaled
  <2>. QED
    BY <2>6, <2>7
<1>. QED
  BY <1>1, <1>2

LEMMA NewWorkerType ==
    ASSUME NEW s \in Pool, NEW p \in Procs, NEW i \in Nat \ {0}
    PROVE  /\ new_worker(s, p, i) \in Worker
           /\ new_worker(s, p, i).proc = p /\ new_worker(s, p, i).state = "Idle"
<1>1. s.maxRequests \in Nat /\ i - 1 \in Nat
  BY DEF Pool
<1>2. staggered_max_requests(s.maxRequests, i - 1) \in Nat
  BY <1>1, StaggeredType
<1>. QED
  BY <1>2 DEF new_worker, Worker, States

\* A change to one worker that keeps its process.
LEMMA WorkerChange ==
    ASSUME NEW q \in Seq(Worker), NEW i \in DOMAIN q, NEW x \in Worker
    PROVE  /\ [q EXCEPT ![i] = x] \in Seq(Worker)
           /\ Len([q EXCEPT ![i] = x]) = Len(q)
           /\ DOMAIN [q EXCEPT ![i] = x] = DOMAIN q
           /\ [q EXCEPT ![i] = x][i] = x
           /\ \A j \in DOMAIN q : j # i => [q EXCEPT ![i] = x][j] = q[j]
<1>1. DOMAIN q = 1 .. Len(q)
  BY LenProperties
<1>. QED
  BY <1>1, ExceptSeq

\* The fields that the pipes have no part in.
SameBooks(s, r) ==
    /\ r.mode = s.mode /\ r.maxRequests = s.maxRequests /\ r.forked = s.forked
    /\ r.workers = s.workers /\ r.idle_queue = s.idle_queue

LEMMA SendEffect ==
    ASSUME NEW s \in Pool, NEW p \in Procs, NEW c \in Commands
    PROVE  /\ send(s, p, c) \in Pool
           /\ SameBooks(s, send(s, p, c))
           /\ send(s, p, c).life = s.life /\ send(s, p, c).resps = s.resps
           /\ send(s, p, c).closed = s.closed
           /\ send(s, p, c).cmds = IF CanSend(s, p) /\ p \notin s.closed
                                   THEN [s.cmds EXCEPT ![p] = Append(@, c)] ELSE s.cmds
<1>1. s.cmds \in [Procs -> Seq(Commands)]
  BY DEF Pool
<1>2. Append(s.cmds[p], c) \in Seq(Commands)
  BY <1>1, AppendProperties
<1>3. [s.cmds EXCEPT ![p] = Append(@, c)] \in [Procs -> Seq(Commands)]
  BY <1>1, <1>2
<1>4. CASE CanSend(s, p) /\ p \notin s.closed
  <2>1. send(s, p, c) = [s EXCEPT !.cmds = [s.cmds EXCEPT ![p] = Append(@, c)]]
    BY <1>4 DEF send
  <2>2. PICK x \in [Procs -> Seq(Commands)] : x = [s.cmds EXCEPT ![p] = Append(@, c)]
    BY <1>3
  <2>3. send(s, p, c) = [s EXCEPT !.cmds = x]
    BY <2>1, <2>2
  <2>4. send(s, p, c) \in Pool /\ SameBooks(s, send(s, p, c))
        /\ send(s, p, c).life = s.life /\ send(s, p, c).resps = s.resps
        /\ send(s, p, c).closed = s.closed /\ send(s, p, c).cmds = x
    BY <2>3 DEF Pool, SameBooks
  <2>. QED
    BY <1>4, <2>2, <2>4
<1>5. CASE ~(CanSend(s, p) /\ p \notin s.closed)
  <2>1. send(s, p, c) = s
    BY <1>5 DEF send
  <2>. QED
    BY <1>5, <2>1 DEF SameBooks
<1>. QED
  BY <1>4, <1>5

\* A new state for one worker, whatever else is counted at it.
LEMMA StateChange ==
    ASSUME NEW s \in Pool, NEW i \in DOMAIN s.workers, NEW x \in Worker,
           x.proc = s.workers[i].proc
    PROVE  LET r == [s EXCEPT !.workers = [@ EXCEPT ![i] = x]]
           IN  /\ r \in Pool /\ SameWorkers(s, r) /\ SamePipes(s, r)
               /\ r.idle_queue = s.idle_queue /\ r.faults = s.faults /\ r.term = s.term
               /\ r.cmds = s.cmds
               /\ r.workers[i] = x
               /\ \A j \in DOMAIN s.workers : j # i => r.workers[j] = s.workers[j]
<1>1. s.workers \in Seq(Worker)
  BY DEF Pool
<1>2. PICK q : q = [s.workers EXCEPT ![i] = x]
  OBVIOUS
<1>3. /\ q \in Seq(Worker) /\ Len(q) = Len(s.workers) /\ DOMAIN q = DOMAIN s.workers
      /\ q[i] = x /\ \A j \in DOMAIN s.workers : j # i => q[j] = s.workers[j]
  BY <1>1, <1>2, WorkerChange
<1>4. PICK r : r = [s EXCEPT !.workers = q]
  OBVIOUS
<1>5. /\ r \in Pool /\ r.workers = q /\ r.mode = s.mode /\ r.maxRequests = s.maxRequests
      /\ r.forked = s.forked /\ r.life = s.life /\ r.resps = s.resps /\ r.closed = s.closed
      /\ r.cmds = s.cmds /\ r.idle_queue = s.idle_queue /\ r.faults = s.faults /\ r.term = s.term
  BY <1>3, <1>4 DEF Pool
<1>6. SameWorkers(s, r) /\ SamePipes(s, r)
  BY <1>3, <1>5 DEF SameWorkers, SamePipes
<1>. QED
  BY <1>2, <1>3, <1>4, <1>5, <1>6

LEMMA MarkBusyEffect ==
    ASSUME NEW s \in Pool, NEW i \in DOMAIN s.workers
    PROVE  /\ mark_busy(s, i) \in Pool
           /\ SameWorkers(s, mark_busy(s, i)) /\ SamePipes(s, mark_busy(s, i))
           /\ mark_busy(s, i).idle_queue = s.idle_queue /\ mark_busy(s, i).cmds = s.cmds
           /\ mark_busy(s, i).workers[i].state = "Busy"
           /\ \A j \in DOMAIN s.workers : j # i => mark_busy(s, i).workers[j] = s.workers[j]
<1>1. s.workers \in Seq(Worker) /\ DOMAIN s.workers = 1 .. Len(s.workers)
  BY LenProperties DEF Pool
<1>2. s.workers[i] \in Worker
  BY <1>1, ElementOfSeq
<1>3. PICK x \in Worker : x = [s.workers[i] EXCEPT !.state = "Busy"]
  BY <1>2 DEF Worker, States
<1>4. x.proc = s.workers[i].proc /\ x.state = "Busy"
  BY <1>2, <1>3 DEF Worker
<1>5. mark_busy(s, i) = [s EXCEPT !.workers = [@ EXCEPT ![i] = x]]
  BY <1>3 DEF mark_busy
<1>. QED
  BY <1>4, <1>5, StateChange

LEMMA WorkerOf ==
    ASSUME NEW s \in Pool
    PROVE  /\ s.workers \in Seq(Worker) /\ Len(s.workers) \in Nat
           /\ DOMAIN s.workers = 1 .. Len(s.workers)
           /\ \A i \in DOMAIN s.workers : s.workers[i] \in Worker /\ s.workers[i].proc \in Procs
           /\ s.idle_queue \in Seq(Procs) /\ Len(s.idle_queue) \in Nat
           /\ DOMAIN s.idle_queue = 1 .. Len(s.idle_queue)
           /\ \A k \in DOMAIN s.idle_queue : s.idle_queue[k] \in Procs
<1>1. s.workers \in Seq(Worker) /\ s.idle_queue \in Seq(Procs)
  BY DEF Pool
<1>2. /\ Len(s.workers) \in Nat /\ DOMAIN s.workers = 1 .. Len(s.workers)
      /\ Len(s.idle_queue) \in Nat /\ DOMAIN s.idle_queue = 1 .. Len(s.idle_queue)
  BY <1>1, LenProperties
<1>3. /\ \A i \in DOMAIN s.workers : s.workers[i] \in Worker
      /\ \A k \in DOMAIN s.idle_queue : s.idle_queue[k] \in Procs
  BY <1>1, <1>2, ElementOfSeq
<1>4. \A i \in DOMAIN s.workers : s.workers[i].proc \in Procs
  BY <1>3 DEF Worker
<1>. QED
  BY <1>1, <1>2, <1>3, <1>4

LEMMA TerminateEffect ==
    ASSUME NEW s \in Pool, NEW i \in DOMAIN s.workers
    PROVE  /\ terminate(s, i) \in Pool
           /\ SameWorkers(s, terminate(s, i)) /\ SamePipes(s, terminate(s, i))
           /\ terminate(s, i).idle_queue = s.idle_queue
           /\ terminate(s, i).workers[i].state = "Stopping"
           /\ \A j \in DOMAIN s.workers : j # i => terminate(s, i).workers[j] = s.workers[j]
<1>1. s.workers[i] \in Worker /\ s.workers[i].proc \in Procs
  BY WorkerOf
<1>2. PICK x \in Worker : x = [s.workers[i] EXCEPT !.state = "Stopping"]
  BY <1>1 DEF Worker, States
<1>3. x.proc = s.workers[i].proc /\ x.state = "Stopping"
  BY <1>1, <1>2 DEF Worker
<1>4. PICK r : r = [s EXCEPT !.workers = [@ EXCEPT ![i] = x]]
  OBVIOUS
<1>5. /\ r \in Pool /\ SameWorkers(s, r) /\ SamePipes(s, r) /\ r.cmds = s.cmds
      /\ r.idle_queue = s.idle_queue /\ r.workers[i] = x
      /\ \A j \in DOMAIN s.workers : j # i => r.workers[j] = s.workers[j]
  BY <1>3, <1>4, StateChange
<1>6. [s EXCEPT !.workers[i].state = "Stopping"] = r
  BY <1>2, <1>4
<1>7. CASE s.mode = "process"
  <2>1. PICK T \in SUBSET Procs : T = IF is_alive(s, i) THEN r.term \union {s.workers[i].proc} ELSE r.term
    BY <1>1, <1>5 DEF Pool
  <2>2. terminate(s, i) = [r EXCEPT !.term = T]
    BY <1>6, <1>7, <2>1 DEF terminate
  <2> HIDE DEF terminate
  <2>3. /\ terminate(s, i) \in Pool /\ SameBooks(r, terminate(s, i))
        /\ terminate(s, i).life = r.life /\ terminate(s, i).resps = r.resps
        /\ terminate(s, i).closed = r.closed /\ terminate(s, i).cmds = r.cmds
    BY <1>5, <2>2 DEF Pool, SameBooks
  <2>. QED
    BY <1>3, <1>5, <2>3 DEF SameWorkers, SamePipes, SameBooks
<1>8. CASE s.mode # "process"
  <2>1. terminate(s, i) = send(r, s.workers[i].proc, "Shutdown")
    BY <1>6, <1>8 DEF terminate
  <2>2. PICK p \in Procs : p = s.workers[i].proc
    BY <1>1
  <2>3. "Shutdown" \in Commands
    BY DEF Commands
  <2>4. PICK m : m = terminate(s, i)
    OBVIOUS
  <2>5. /\ m \in Pool /\ SameBooks(r, m)
        /\ m.life = r.life /\ m.resps = r.resps /\ m.closed = r.closed
        /\ m.cmds = IF CanSend(r, p) /\ p \notin r.closed
                    THEN [r.cmds EXCEPT ![p] = Append(@, "Shutdown")] ELSE r.cmds
    <3>1. m = send(r, p, "Shutdown")
      BY <2>1, <2>2, <2>4
    <3>2. r \in Pool
      BY <1>5
    <3>. QED
      BY <2>3, <3>1, <3>2, SendEffect, Zenon
  <2>6. r.cmds \in [Procs -> Seq(Commands)]
    BY <1>5 DEF Pool
  <2>7. \A q \in Procs : \/ m.cmds[q] = r.cmds[q]
                         \/ m.cmds[q] = Append(r.cmds[q], "Shutdown") /\ r.life[q] # "dead"
    BY <2>5, <2>6 DEF CanSend
  <2>8. SameWorkers(s, m) /\ SamePipes(s, m)
    BY <1>5, <2>5, <2>7 DEF SameWorkers, SamePipes, SameBooks
  <2>. QED
    BY <1>3, <1>5, <2>4, <2>5, <2>8 DEF SameBooks
<1>. QED
  BY <1>7, <1>8

\* A returned worker is terminated or queued.
LEMMA ReturnEffect ==
    ASSUME NEW s \in Pool, NEW i \in DOMAIN s.workers, i \in Procs
    PROVE  LET r == return_worker(s, i)
           IN  /\ r \in Pool /\ SameWorkers(s, r) /\ SamePipes(s, r)
               /\ \/ r.workers[i].state = "Stopping" /\ r.idle_queue = s.idle_queue
                  \/ r.workers[i].state = "Idle" /\ r.idle_queue = Append(s.idle_queue, i)
               /\ \A j \in DOMAIN s.workers : j # i => r.workers[j] = s.workers[j]
<1>1. s.workers[i] \in Worker
  BY WorkerOf
<1>0. s.workers[i].handled + 1 \in Nat
  BY <1>1 DEF Worker
<1>2. PICK x \in Worker : x = [s.workers[i] EXCEPT !.handled = @ + 1, !.state = "Idle"]
  BY <1>0, <1>1 DEF Worker, States
<1>3. x.proc = s.workers[i].proc /\ x.state = "Idle"
  BY <1>1, <1>2 DEF Worker
<1>4. PICK m : m = [s EXCEPT !.workers = [@ EXCEPT ![i] = x]]
  OBVIOUS
<1>5. /\ m \in Pool /\ SameWorkers(s, m) /\ SamePipes(s, m) /\ m.cmds = s.cmds
      /\ m.idle_queue = s.idle_queue /\ m.workers[i] = x
      /\ \A j \in DOMAIN s.workers : j # i => m.workers[j] = s.workers[j]
  BY <1>3, <1>4, StateChange
<1>6. [s EXCEPT !.workers[i].handled = @ + 1, !.workers[i].state = "Idle"] = m
  BY <1>1, <1>2, <1>4 DEF Pool, Worker
<1>7. return_worker(s, i) =
        IF x.max > 0 /\ x.handled >= x.max THEN terminate(m, i)
        ELSE [m EXCEPT !.idle_queue = Append(@, i)]
  <2>1. m.workers[i] = x
    BY <1>5
  <2>. QED
    <3> DEFINE z == [s EXCEPT !.workers[i].handled = @ + 1, !.workers[i].state = "Idle"]
    <3>1. return_worker(s, i) =
            IF z.workers[i].max > 0 /\ z.workers[i].handled >= z.workers[i].max
            THEN terminate(z, i) ELSE [z EXCEPT !.idle_queue = Append(@, i)]
      BY DEF return_worker
    <3>2. z = m
      BY <1>6
    <3> HIDE DEF z
    <3>. QED
      BY <2>1, <3>1, <3>2
<1>8. PICK r : r = return_worker(s, i)
  OBVIOUS
<1>9. CASE x.max > 0 /\ x.handled >= x.max
  <2>1. i \in DOMAIN m.workers
    BY <1>5 DEF SameWorkers
  <2>2. /\ r \in Pool /\ SameWorkers(m, r) /\ SamePipes(m, r) /\ r.idle_queue = m.idle_queue
        /\ r.workers[i].state = "Stopping"
        /\ \A j \in DOMAIN m.workers : j # i => r.workers[j] = m.workers[j]
    BY <1>5, <1>7, <1>8, <1>9, <2>1, TerminateEffect
  <2>3. SameWorkers(s, r) /\ DOMAIN m.workers = DOMAIN s.workers
    BY <1>5, <2>2 DEF SameWorkers
  <2>4. SamePipes(s, r)
    BY <1>5, <2>2 DEF SamePipes
  <2>. QED
    BY <1>5, <1>8, <2>2, <2>3, <2>4
<1>10. CASE ~(x.max > 0 /\ x.handled >= x.max)
  <2>1. Append(m.idle_queue, i) \in Seq(Procs)
    BY <1>5, AppendProperties DEF Pool
  <2>2. PICK q \in Seq(Procs) : q = Append(m.idle_queue, i)
    BY <2>1
  <2>3. r = [m EXCEPT !.idle_queue = q]
    BY <1>7, <1>8, <1>10, <2>2
  <2>4. /\ r \in Pool /\ r.workers = m.workers /\ r.idle_queue = q
        /\ r.mode = m.mode /\ r.maxRequests = m.maxRequests /\ r.forked = m.forked
        /\ r.life = m.life /\ r.resps = m.resps /\ r.closed = m.closed /\ r.cmds = m.cmds
    BY <1>5, <2>3 DEF Pool
  <2>5. SameWorkers(s, r) /\ SamePipes(s, r)
    BY <1>5, <2>4 DEF SameWorkers, SamePipes
  <2>. QED
    BY <1>3, <1>5, <1>8, <2>2, <2>4, <2>5
<1>. QED
  BY <1>9, <1>10

\* get_idle_worker: the last idle worker in the queue, 0 if there is none.
LEMMA IdleWorker ==
    ASSUME NEW s \in Pool
    PROVE  \/ /\ get_idle_worker(s) = 0
              /\ \A i \in DOMAIN s.workers : InQueue(s, i) => s.workers[i].state # "Idle"
           \/ /\ get_idle_worker(s) \in DOMAIN s.idle_queue
              /\ s.idle_queue[get_idle_worker(s)] \in DOMAIN s.workers
              /\ s.workers[s.idle_queue[get_idle_worker(s)]].state = "Idle"
              /\ \A j \in DOMAIN s.idle_queue : j > get_idle_worker(s) =>
                    \A i \in DOMAIN s.workers : s.idle_queue[j] = i => s.workers[i].state # "Idle"
<1> DEFINE good == {k \in DOMAIN s.idle_queue :
                      \E i \in DOMAIN s.workers : s.idle_queue[k] = i /\ s.workers[i].state = "Idle"}
           k == get_idle_worker(s)
<1>0. DOMAIN s.idle_queue = 1 .. Len(s.idle_queue) /\ Len(s.idle_queue) \in Nat
  BY WorkerOf
<1>1. CASE good = {}
  <2>1. k = 0
    BY <1>1 DEF get_idle_worker
  <2>. QED
    BY <1>1, <2>1 DEF InQueue
<1>2. CASE good # {}
  <2>1. good \in SUBSET Nat /\ good \in SUBSET (1 .. Len(s.idle_queue))
    BY <1>0
  <2>2. IsFiniteSet(good)
    <3>1. IsFiniteSet(1 .. Len(s.idle_queue))
      BY <1>0, FS_Interval
    <3> HIDE DEF good
    <3>. QED
      BY <2>1, <3>1, FS_Subset
  <2>3. \E m \in good : \A j \in good : j <= m
    BY <1>2, <2>1, <2>2, Greatest
  <2>4. k = CHOOSE m \in good : \A j \in good : j <= m
    BY <1>2 DEF get_idle_worker
  <2>5. k \in good /\ \A j \in good : j <= k
    BY <2>3, <2>4, Zenon
  <2> HIDE DEF k
  <2>6. k \in Nat /\ \A j \in DOMAIN s.idle_queue : j \in Nat /\ (j > k => j \notin good)
    BY <1>0, <2>1, <2>5
  <2>. QED
    BY <2>5, <2>6 DEF k
<1>. QED
  BY <1>1, <1>2

LEMMA PopToEffect ==
    ASSUME NEW s \in Pool, NEW k \in 0 .. Len(s.idle_queue)
    PROVE  LET r == PopTo(s, k)
               n == IF k = 0 THEN 0 ELSE k - 1
           IN  /\ r \in Pool /\ r.workers = s.workers /\ r.faults = s.faults
               /\ SameWorkers(s, r) /\ SamePipes(s, r) /\ r.cmds = s.cmds
               /\ r.idle_queue = SubSeq(s.idle_queue, 1, n)
               /\ n \in 0 .. Len(s.idle_queue) /\ Len(r.idle_queue) = n
               /\ DOMAIN r.idle_queue = 1 .. n
               /\ \A j \in 1 .. n : j \in DOMAIN s.idle_queue /\ r.idle_queue[j] = s.idle_queue[j]
<1> DEFINE n == IF k = 0 THEN 0 ELSE k - 1
<1>1. /\ s.idle_queue \in Seq(Procs) /\ Len(s.idle_queue) \in Nat
      /\ DOMAIN s.idle_queue = 1 .. Len(s.idle_queue)
  BY WorkerOf
<1>2. n \in 0 .. Len(s.idle_queue) /\ \A j \in 1 .. n : j \in 1 .. Len(s.idle_queue)
  BY <1>1
<1>3. PICK q : q = SubSeq(s.idle_queue, 1, n)
  OBVIOUS
<1>4. /\ q \in Seq(Procs) /\ Len(q) = n /\ DOMAIN q = 1 .. n
      /\ \A j \in 1 .. n : q[j] = s.idle_queue[j]
  BY <1>1, <1>2, <1>3, Prefix
<1>5. PICK r : r = PopTo(s, k)
  OBVIOUS
<1>6. r = [s EXCEPT !.idle_queue = q]
  BY <1>3, <1>5 DEF PopTo
<1>7. /\ r \in Pool /\ r.workers = s.workers /\ r.idle_queue = q /\ r.faults = s.faults
      /\ r.mode = s.mode /\ r.maxRequests = s.maxRequests /\ r.forked = s.forked
      /\ r.life = s.life /\ r.resps = s.resps /\ r.closed = s.closed /\ r.cmds = s.cmds
  BY <1>4, <1>6 DEF Pool
<1>8. SameWorkers(s, r) /\ SamePipes(s, r)
  BY <1>7 DEF SameWorkers, SamePipes
<1>. QED
  BY <1>1, <1>2, <1>3, <1>4, <1>5, <1>7, <1>8

----------------------------------------------------------------------------
(***************************************************************************)
(* Forks: what a reap, the scaler and a reload do to the pool.             *)
(***************************************************************************)

\* A worker that was there before: it may have been found dead.
Kept(s, r, i) ==
    /\ i \in DOMAIN s.workers /\ r.workers[i].proc = s.workers[i].proc
    /\ r.workers[i].state \in {s.workers[i].state, "Exited"}

\* A worker that was forked: it is idle, and in the queue.
Fresh(s, r, i) ==
    /\ r.workers[i].proc > s.forked /\ r.workers[i].proc <= r.forked
    /\ r.workers[i].state = "Idle" /\ InQueue(r, i)
    /\ i \in DOMAIN s.workers => s.mode = "thread"

\* Reap, spawn_additional and spawn_workers keep or replace what there is and
\* queue each worker they fork once.
Refilled(s, r) ==
    /\ r \in Pool /\ r.mode = s.mode /\ r.maxRequests = s.maxRequests
    /\ r.cmds = s.cmds /\ r.resps = s.resps /\ r.closed = s.closed
    /\ s.forked <= r.forked
    /\ Len(s.workers) <= Len(r.workers)
    /\ Len(r.workers) - Len(s.workers) <= r.forked - s.forked
    /\ \A p \in Procs : p <= s.forked => r.life[p] = s.life[p]
    /\ \A i \in DOMAIN r.workers : Kept(s, r, i) \/ Fresh(s, r, i)
    /\ \A i, j \in DOMAIN r.workers :
          /\ r.workers[i].proc > s.forked /\ r.workers[i].proc = r.workers[j].proc => i = j
    /\ Len(s.idle_queue) <= Len(r.idle_queue)
    /\ \A k \in DOMAIN s.idle_queue : r.idle_queue[k] = s.idle_queue[k]
    /\ \A k \in DOMAIN r.idle_queue \ DOMAIN s.idle_queue :
          r.idle_queue[k] \in DOMAIN r.workers /\ Fresh(s, r, r.idle_queue[k])
    /\ \A k, l \in DOMAIN r.idle_queue \ DOMAIN s.idle_queue :
          r.idle_queue[k] = r.idle_queue[l] => k = l

LEMMA ForksType ==
    ASSUME NEW s \in Pool, NEW n \in Nat, NEW fails \in BOOLEAN
    PROVE  Forks(s, n, fails) \in 0 .. n /\ Forks(s, n, fails) <= MaxProcs - s.forked
<1>1. s.forked \in 0 .. MaxProcs
  BY DEF Pool
<1>. QED
  BY <1>1 DEF Forks

\* The processes of k forks.
LEMMA BornEffect ==
    ASSUME NEW s \in Pool, NEW k \in Nat, k <= MaxProcs - s.forked, NEW fails \in BOOLEAN,
           fails => s.faults > 0
    PROVE  LET r == Born(s, k, fails)
           IN  /\ r \in Pool /\ r.forked = s.forked + k
               /\ r.mode = s.mode /\ r.maxRequests = s.maxRequests /\ r.workers = s.workers
               /\ r.idle_queue = s.idle_queue /\ r.cmds = s.cmds /\ r.resps = s.resps
               /\ r.closed = s.closed
               /\ \A p \in Procs : p <= s.forked => r.life[p] = s.life[p]
<1>1. s.forked \in 0 .. MaxProcs /\ s.faults \in Nat /\ s.life \in [Procs -> Lives]
  BY DEF Pool
<1>2. PICK f \in 0 .. MaxProcs : f = s.forked + k
  BY <1>1
<1>3. PICK b \in Nat : b = IF fails THEN s.faults - 1 ELSE s.faults
  BY <1>1
<1>4. PICK l \in [Procs -> Lives] :
        l = [p \in Procs |-> IF p - s.forked \in 1 .. k THEN "boot" ELSE s.life[p]]
  BY <1>1 DEF Lives
<1>5. PICK r : r = Born(s, k, fails)
  OBVIOUS
<1>6. r = [s EXCEPT !.forked = f, !.faults = b, !.life = l]
  BY <1>2, <1>3, <1>4, <1>5 DEF Born
<1>7. /\ r \in Pool /\ r.forked = f /\ r.life = l
      /\ r.mode = s.mode /\ r.maxRequests = s.maxRequests /\ r.workers = s.workers
      /\ r.idle_queue = s.idle_queue /\ r.cmds = s.cmds /\ r.resps = s.resps
      /\ r.closed = s.closed
  BY <1>6 DEF Pool
<1>8. \A p \in Procs : p <= s.forked => l[p] = s.life[p]
  BY <1>1, <1>4 DEF Procs
<1>. QED
  BY <1>2, <1>5, <1>7, <1>8

\* k forked workers behind the others, each of them queued.
Spawned(s, r, k) ==
    LET n == Len(s.workers)
    IN  /\ r \in Pool /\ r.forked = s.forked + k
        /\ r.mode = s.mode /\ r.maxRequests = s.maxRequests
        /\ r.cmds = s.cmds /\ r.resps = s.resps /\ r.closed = s.closed
        /\ \A p \in Procs : p <= s.forked => r.life[p] = s.life[p]
        /\ Len(r.workers) = n + k
        /\ \A i \in 1 .. n : r.workers[i] = s.workers[i]
        /\ \A j \in 1 .. k : r.workers[n + j].proc = s.forked + j /\ r.workers[n + j].state = "Idle"
        /\ Len(r.idle_queue) = Len(s.idle_queue) + k
        /\ \A j \in DOMAIN s.idle_queue : r.idle_queue[j] = s.idle_queue[j]
        /\ \A j \in 1 .. k : r.idle_queue[Len(s.idle_queue) + j] = n + j

LEMMA SpawnEffect ==
    ASSUME NEW s \in Pool, Len(s.workers) <= s.forked,
           NEW ix \in Seq(Nat \ {0}), NEW fails \in BOOLEAN, fails => s.faults > 0
    PROVE  Spawned(s, spawn(s, ix, fails), Forks(s, Len(ix), fails))
<1> DEFINE n == Len(s.workers)
           m == Len(s.idle_queue)
<1>1. /\ s.workers \in Seq(Worker) /\ n \in Nat /\ s.idle_queue \in Seq(Procs) /\ m \in Nat
      /\ DOMAIN s.idle_queue = 1 .. m
  BY WorkerOf
<1>2. Len(ix) \in Nat /\ \A j \in 1 .. Len(ix) : ix[j] \in Nat \ {0}
  BY LenProperties, ElementOfSeq
<1>3. PICK k : k = Forks(s, Len(ix), fails)
  OBVIOUS
<1>4. s.forked \in 0 .. MaxProcs
  BY DEF Pool
<1>5. k \in 0 .. Len(ix) /\ k <= MaxProcs - s.forked
  BY <1>2, <1>3, ForksType
<1>6. k \in Nat
  BY <1>2, <1>5
<1>7. PICK b : b = Born(s, k, fails)
  OBVIOUS
<1>8. /\ b \in Pool /\ b.forked = s.forked + k
      /\ b.mode = s.mode /\ b.maxRequests = s.maxRequests /\ b.workers = s.workers
      /\ b.idle_queue = s.idle_queue /\ b.cmds = s.cmds /\ b.resps = s.resps
      /\ b.closed = s.closed /\ \A p \in Procs : p <= s.forked => b.life[p] = s.life[p]
  BY <1>5, <1>6, <1>7, BornEffect
<1> DEFINE nw(j) == new_worker(s, s.forked + j, ix[j])
<1>9. \A j \in 1 .. k : nw(j) \in Worker /\ nw(j).proc = s.forked + j /\ nw(j).state = "Idle"
  <2> SUFFICES ASSUME NEW j \in 1 .. k
               PROVE  nw(j) \in Worker /\ nw(j).proc = s.forked + j /\ nw(j).state = "Idle"
    OBVIOUS
  <2>1. s.forked + j \in Procs /\ j \in 1 .. Len(ix)
    BY <1>2, <1>4, <1>5 DEF Procs
  <2>2. ix[j] \in Nat \ {0}
    BY <1>2, <2>1
  <2>. QED
    BY <2>1, <2>2, NewWorkerType
<1>10. PICK x : x = [j \in 1 .. k |-> nw(j)]
  OBVIOUS
<1> HIDE DEF nw
<1>11. /\ x \in [1 .. k -> Worker]
       /\ \A j \in 1 .. k : x[j].proc = s.forked + j /\ x[j].state = "Idle"
  BY <1>9, <1>10
<1>12. x \in Seq(Worker) /\ Len(x) = k
  BY <1>6, <1>11, FunSeq
<1>13. PICK y : y = [j \in 1 .. k |-> n + j]
  OBVIOUS
<1>14. y \in [1 .. k -> Procs] /\ \A j \in 1 .. k : y[j] = n + j
  <2>1. \A j \in 1 .. k : n + j \in Procs
    <3>1. \A a, c, d, e \in Nat : a <= c /\ d <= e - c => \A j \in 1 .. d : a + j \in 1 .. e
      OBVIOUS
    <3>2. n \in Nat /\ s.forked \in Nat /\ k \in Nat /\ MaxProcs \in Nat
      BY <1>1, <1>4, <1>6
    <3>. QED
      BY <1>5, <3>1, <3>2 DEF Procs
  <2>. QED
    BY <1>13, <2>1
<1>15. y \in Seq(Procs) /\ Len(y) = k
  BY <1>6, <1>14, FunSeq
<1>16. PICK u \in Seq(Worker) : u = s.workers \o x
  BY <1>1, <1>12, Row
<1>17. /\ Len(u) = n + k /\ \A i \in 1 .. n : u[i] = s.workers[i]
       /\ \A j \in 1 .. k : u[n + j] = x[j]
  <2>1. PICK a \in Seq(Worker) : a = s.workers
    BY <1>1
  <2>2. x \in Seq(Worker) /\ u = a \o x
    BY <1>12, <1>16, <2>1
  <2>3. Len(u) = Len(a) + Len(x)
    BY <2>2, Row
  <2>4. \A i \in 1 .. Len(a) : u[i] = a[i]
    BY <2>2, Row
  <2>5. \A i \in 1 .. Len(x) : u[Len(a) + i] = x[i]
    BY <2>2, Row
  <2>. QED
    BY <1>12, <2>1, <2>3, <2>4, <2>5
<1>18. PICK v \in Seq(Procs) : v = s.idle_queue \o y
  BY <1>1, <1>15, Row
<1>19. /\ Len(v) = m + k /\ \A i \in 1 .. m : v[i] = s.idle_queue[i]
       /\ \A j \in 1 .. k : v[m + j] = y[j]
  <2>1. PICK a \in Seq(Procs) : a = s.idle_queue
    BY <1>1
  <2>2. y \in Seq(Procs) /\ v = a \o y
    BY <1>15, <1>18, <2>1
  <2>3. Len(v) = Len(a) + Len(y)
    BY <2>2, Row
  <2>4. \A i \in 1 .. Len(a) : v[i] = a[i]
    BY <2>2, Row
  <2>5. \A i \in 1 .. Len(y) : v[Len(a) + i] = y[i]
    BY <2>2, Row
  <2>. QED
    BY <1>15, <2>1, <2>3, <2>4, <2>5
<1>20. PICK r : r = spawn(s, ix, fails)
  OBVIOUS
<1>21. r = [b EXCEPT !.workers = u, !.idle_queue = v]
  <2>1. r = [Born(s, k, fails) EXCEPT
               !.workers    = @ \o [j \in 1 .. k |-> new_worker(s, s.forked + j, ix[j])],
               !.idle_queue = @ \o [j \in 1 .. k |-> Len(s.workers) + j]]
    BY <1>3, <1>20 DEF spawn
  <2>. QED
    BY <1>7, <1>8, <1>10, <1>13, <1>16, <1>18, <2>1 DEF nw
<1>22. /\ r \in Pool /\ r.forked = b.forked /\ r.mode = b.mode /\ r.maxRequests = b.maxRequests
       /\ r.cmds = b.cmds /\ r.resps = b.resps /\ r.closed = b.closed /\ r.life = b.life
       /\ r.workers = u /\ r.idle_queue = v
  BY <1>8, <1>21 DEF Pool
<1>23. \A j \in 1 .. k : r.workers[n + j].proc = s.forked + j /\ r.workers[n + j].state = "Idle"
  BY <1>11, <1>17, <1>22
<1>24. \A j \in 1 .. k : r.idle_queue[m + j] = n + j
  BY <1>14, <1>19, <1>22
<1>25. /\ r \in Pool /\ r.forked = s.forked + k /\ r.mode = s.mode /\ r.maxRequests = s.maxRequests
       /\ r.cmds = s.cmds /\ r.resps = s.resps /\ r.closed = s.closed
       /\ \A p \in Procs : p <= s.forked => r.life[p] = s.life[p]
  BY <1>8, <1>22
<1>26. /\ Len(r.workers) = n + k /\ \A i \in 1 .. n : r.workers[i] = s.workers[i]
       /\ Len(r.idle_queue) = m + k
       /\ \A j \in DOMAIN s.idle_queue : r.idle_queue[j] = s.idle_queue[j]
  BY <1>1, <1>17, <1>19, <1>22
<1>27. Spawned(s, r, k)
  BY <1>23, <1>24, <1>25, <1>26, Zenon DEF Spawned
<1>. QED
  BY <1>3, <1>20, <1>27

\* The look at the workers that comes before the forks of a reap.
Looked(s, m) ==
    /\ m \in Pool /\ m.mode = s.mode /\ m.maxRequests = s.maxRequests /\ m.faults = s.faults
    /\ m.cmds = s.cmds /\ m.resps = s.resps /\ m.closed = s.closed
    /\ m.forked = s.forked /\ m.life = s.life /\ m.idle_queue = s.idle_queue
    /\ Len(m.workers) = Len(s.workers)
    /\ \A i \in DOMAIN s.workers : /\ m.workers[i].proc = s.workers[i].proc
                                   /\ m.workers[i].state \in {s.workers[i].state, "Exited"}

LEMMA NotedEffect ==
    ASSUME NEW s \in Pool
    PROVE  Looked(s, Noted(s))
<1> DEFINE n == Len(s.workers)
           seen(i) == IF is_alive(s, i) THEN s.workers[i] ELSE [s.workers[i] EXCEPT !.state = "Exited"]
<1>1. /\ s.workers \in Seq(Worker) /\ n \in Nat /\ DOMAIN s.workers = 1 .. n
      /\ \A i \in DOMAIN s.workers : s.workers[i] \in Worker
  BY WorkerOf
<1>2. \A i \in 1 .. n : /\ seen(i) \in Worker /\ seen(i).proc = s.workers[i].proc
                        /\ seen(i).state \in {s.workers[i].state, "Exited"}
  <2> SUFFICES ASSUME NEW i \in 1 .. n
               PROVE  /\ seen(i) \in Worker /\ seen(i).proc = s.workers[i].proc
                      /\ seen(i).state \in {s.workers[i].state, "Exited"}
    OBVIOUS
  <2>1. s.workers[i] \in Worker
    BY <1>1
  <2>. QED
    BY <2>1 DEF Worker, States
<1>3. PICK x : x = [i \in 1 .. n |-> seen(i)]
  OBVIOUS
<1> HIDE DEF seen
<1>4. /\ x \in [1 .. n -> Worker]
      /\ \A i \in 1 .. n : /\ x[i].proc = s.workers[i].proc
                           /\ x[i].state \in {s.workers[i].state, "Exited"}
  BY <1>2, <1>3
<1>5. x \in Seq(Worker) /\ Len(x) = n
  BY <1>1, <1>4, FunSeq
<1>6. PICK m : m = Noted(s)
  OBVIOUS
<1>7. m = [s EXCEPT !.workers = x]
  <2>1. m = [s EXCEPT !.workers = [i \in DOMAIN s.workers |->
               IF is_alive(s, i) THEN s.workers[i] ELSE [s.workers[i] EXCEPT !.state = "Exited"]]]
    BY <1>6 DEF Noted
  <2>. QED
    BY <1>1, <1>3, <2>1 DEF seen
<1>8. /\ m \in Pool /\ m.mode = s.mode /\ m.maxRequests = s.maxRequests /\ m.faults = s.faults
      /\ m.cmds = s.cmds /\ m.resps = s.resps /\ m.closed = s.closed
      /\ m.forked = s.forked /\ m.life = s.life /\ m.idle_queue = s.idle_queue /\ m.workers = x
  BY <1>5, <1>7 DEF Pool
<1>. QED
  BY <1>1, <1>4, <1>5, <1>6, <1>8 DEF Looked

\* The dead workers are listed, each once.
LEMMA DeadList ==
    ASSUME NEW s \in Pool
    PROVE  LET D == {i \in DOMAIN s.workers : ~is_alive(s, i)}
           IN  /\ Dead(s) \in Seq(Nat \ {0}) /\ Dead(s) \in Seq(Procs \union DOMAIN s.workers)
               /\ Len(Dead(s)) \in Nat /\ DOMAIN Dead(s) = 1 .. Len(Dead(s))
               /\ \A k \in 1 .. Len(Dead(s)) : Dead(s)[k] \in D
               /\ \A k, l \in 1 .. Len(Dead(s)) : Dead(s)[k] = Dead(s)[l] => k = l
               /\ \A i \in D : \E k \in 1 .. Len(Dead(s)) : Dead(s)[k] = i
<1> DEFINE D == {i \in DOMAIN s.workers : ~is_alive(s, i)}
<1>1. DOMAIN s.workers = 1 .. Len(s.workers) /\ Len(s.workers) \in Nat
  BY WorkerOf
<1>2. /\ D \in SUBSET Nat /\ D \in SUBSET (1 .. Len(s.workers))
      /\ D \subseteq Nat \ {0} /\ D \subseteq Procs \union DOMAIN s.workers
  BY <1>1
<1>3. IsFiniteSet(1 .. Len(s.workers))
  BY <1>1, FS_Interval
<1>4. PICK a : a = Dead(s)
  OBVIOUS
<1>5. a = Ascending(D)
  BY <1>4 DEF Dead
<1>6. \A i \in D : i \in DOMAIN s.workers /\ ~is_alive(s, i)
  OBVIOUS
<1> HIDE DEF D
<1>7. IsFiniteSet(D)
  BY <1>2, <1>3, FS_Subset
<1>8. /\ Cardinality(D) \in Nat /\ a \in Seq(D) /\ Len(a) = Cardinality(D)
      /\ DOMAIN a = 1 .. Cardinality(D)
  BY <1>2, <1>5, <1>7, AscendingLists
<1>9. /\ \A k, l \in 1 .. Cardinality(D) : a[k] = a[l] => k = l
      /\ \A i \in D : \E k \in 1 .. Cardinality(D) : a[k] = i
  BY <1>2, <1>5, <1>7, AscendingLists, Zenon
<1>10. a \in Seq(Nat \ {0}) /\ a \in Seq(Procs \union DOMAIN s.workers)
  BY <1>2, <1>8, SeqMonotonic
<1>11. \A k \in 1 .. Len(a) : a[k] \in D
  BY <1>8, ElementOfSeq
<1>. QED
  BY <1>4, <1>8, <1>9, <1>10, <1>11 DEF D

\* spawn refills a pool, after a look at its workers or without one.
LEMMA SpawnRefills ==
    ASSUME NEW s, Sound(s), NEW m, Looked(s, m),
           NEW ix \in Seq(Nat \ {0}), NEW fails \in BOOLEAN, fails => s.faults > 0
    PROVE  /\ Refilled(s, spawn(m, ix, fails))
           /\ \A i \in DOMAIN s.workers : spawn(m, ix, fails).workers[i] = m.workers[i]
<1> DEFINE n == Len(s.workers)
           q == Len(s.idle_queue)
<1>1. /\ s \in Pool /\ m \in Pool /\ n <= s.forked /\ m.forked = s.forked /\ m.life = s.life
      /\ m.mode = s.mode /\ m.maxRequests = s.maxRequests /\ m.faults = s.faults
      /\ m.cmds = s.cmds /\ m.resps = s.resps /\ m.closed = s.closed
      /\ m.idle_queue = s.idle_queue /\ Len(m.workers) = n
  BY DEF Sound, Looked
<1>2. /\ n \in Nat /\ DOMAIN s.workers = 1 .. n /\ q \in Nat /\ DOMAIN s.idle_queue = 1 .. q
  BY <1>1, WorkerOf
<1>3. PICK r : r = spawn(m, ix, fails)
  OBVIOUS
<1>4. PICK k : k = Forks(m, Len(ix), fails)
  OBVIOUS
<1>5. Len(ix) \in Nat
  BY LenProperties
<1>6. k \in Nat /\ k <= MaxProcs - s.forked /\ s.forked \in Nat
  <2>1. s.forked \in 0 .. MaxProcs
    BY <1>1 DEF Pool
  <2>2. k \in 0 .. Len(ix) /\ k <= MaxProcs - m.forked
    BY <1>1, <1>4, <1>5, ForksType
  <2>. QED
    BY <1>1, <1>5, <2>1, <2>2
<1>7. /\ r \in Pool /\ r.forked = m.forked + k
      /\ r.mode = m.mode /\ r.maxRequests = m.maxRequests
      /\ r.cmds = m.cmds /\ r.resps = m.resps /\ r.closed = m.closed
      /\ \A p \in Procs : p <= m.forked => r.life[p] = m.life[p]
      /\ Len(r.workers) = Len(m.workers) + k
      /\ \A i \in 1 .. Len(m.workers) : r.workers[i] = m.workers[i]
      /\ \A j \in 1 .. k : /\ r.workers[Len(m.workers) + j].proc = m.forked + j
                           /\ r.workers[Len(m.workers) + j].state = "Idle"
      /\ Len(r.idle_queue) = Len(m.idle_queue) + k
      /\ \A j \in DOMAIN m.idle_queue : r.idle_queue[j] = m.idle_queue[j]
      /\ \A j \in 1 .. k : r.idle_queue[Len(m.idle_queue) + j] = Len(m.workers) + j
  <2>1. Len(m.workers) <= m.forked /\ (fails => m.faults > 0)
    BY <1>1
  <2>2. Spawned(m, r, k)
    BY <1>1, <1>3, <1>4, <2>1, SpawnEffect
  <2>. QED
    BY <2>2 DEF Spawned
<1>8. /\ \A i \in 1 .. n : r.workers[i] = m.workers[i]
      /\ \A j \in 1 .. k : r.workers[n + j].proc = s.forked + j /\ r.workers[n + j].state = "Idle"
      /\ \A j \in 1 .. q : r.idle_queue[j] = s.idle_queue[j]
      /\ \A j \in 1 .. k : r.idle_queue[q + j] = n + j
  <2>1. Len(m.workers) = n /\ Len(m.idle_queue) = q /\ DOMAIN m.idle_queue = 1 .. q
    BY <1>1, <1>2
  <2>2. \A i \in 1 .. n : r.workers[i] = m.workers[i]
    BY <1>7, <2>1
  <2>3. \A j \in 1 .. k : r.workers[n + j].proc = s.forked + j /\ r.workers[n + j].state = "Idle"
    BY <1>1, <1>7, <2>1
  <2>4. /\ \A j \in 1 .. q : r.idle_queue[j] = s.idle_queue[j]
        /\ \A j \in 1 .. k : r.idle_queue[q + j] = n + j
    BY <1>1, <1>7, <2>1
  <2>. QED
    BY <2>2, <2>3, <2>4
<1>9. DOMAIN r.workers = 1 .. n + k /\ DOMAIN r.idle_queue = 1 .. q + k
  BY <1>1, <1>7, WorkerOf
<1>10. \A i \in 1 .. n : Kept(s, r, i) /\ r.workers[i].proc <= s.forked
  <2> SUFFICES ASSUME NEW i \in 1 .. n
               PROVE  Kept(s, r, i) /\ r.workers[i].proc <= s.forked
    OBVIOUS
  <2>1. i \in DOMAIN s.workers /\ r.workers[i] = m.workers[i] /\ s.workers[i].proc <= s.forked
    BY <1>2, <1>8 DEF Sound
  <2>2. m.workers[i].proc = s.workers[i].proc /\ m.workers[i].state \in {s.workers[i].state, "Exited"}
    BY <2>1 DEF Looked
  <2>. QED
    BY <2>1, <2>2 DEF Kept
<1>11. \A j \in 1 .. k : Fresh(s, r, n + j)
  <2> SUFFICES ASSUME NEW j \in 1 .. k
               PROVE  Fresh(s, r, n + j)
    OBVIOUS
  <2>1. q + j \in DOMAIN r.idle_queue /\ r.idle_queue[q + j] = n + j
    BY <1>2, <1>6, <1>8, <1>9
  <2>2. InQueue(r, n + j)
    BY <2>1 DEF InQueue
  <2>3. n + j \notin DOMAIN s.workers
    BY <1>2
  <2>4. r.workers[n + j].proc = s.forked + j /\ r.forked = s.forked + k /\ r.workers[n + j].state = "Idle"
    BY <1>1, <1>7, <1>8
  <2>5. s.forked + j > s.forked /\ s.forked + j <= s.forked + k
    BY <1>6
  <2>. QED
    BY <2>2, <2>3, <2>4, <2>5 DEF Fresh
<1>12. \A i \in DOMAIN r.workers : i \in 1 .. n \/ \E j \in 1 .. k : i = n + j
  <2>1. \A i \in 1 .. n + k : i \in 1 .. n \/ (i - n \in 1 .. k /\ i = n + (i - n))
    <3>1. n \in Nat /\ k \in Nat
      BY <1>2, <1>6
    <3>. QED
      BY <3>1, Behind
  <2>. QED
    BY <1>9, <2>1
<1>13. \A i \in DOMAIN r.idle_queue \ DOMAIN s.idle_queue : \E j \in 1 .. k : i = q + j
  <2>1. \A i \in (1 .. q + k) \ (1 .. q) : i - q \in 1 .. k /\ i = q + (i - q)
    <3>1. q \in Nat /\ k \in Nat
      BY <1>2, <1>6
    <3>. QED
      BY <3>1, Behind
  <2>. QED
    BY <1>2, <1>9, <2>1
<1>14. \A i \in DOMAIN r.workers : Kept(s, r, i) \/ Fresh(s, r, i)
  BY <1>10, <1>11, <1>12
<1>15. \A i, j \in DOMAIN r.workers :
         r.workers[i].proc > s.forked /\ r.workers[i].proc = r.workers[j].proc => i = j
  <2> SUFFICES ASSUME NEW i \in DOMAIN r.workers, NEW j \in DOMAIN r.workers,
                      r.workers[i].proc > s.forked, r.workers[i].proc = r.workers[j].proc
               PROVE  i = j
    OBVIOUS
  <2>0. \A h \in DOMAIN r.workers : r.workers[h].proc \in Nat
    BY <1>7, WorkerOf DEF Procs
  <2>1. i \notin 1 .. n /\ j \notin 1 .. n
    BY <1>6, <1>10, <2>0
  <2>2. PICK a \in 1 .. k, b \in 1 .. k : i = n + a /\ j = n + b
    BY <1>12, <2>1
  <2>3. r.workers[i].proc = s.forked + a /\ r.workers[j].proc = s.forked + b
    BY <1>8, <2>2
  <2>4. a \in Int /\ b \in Int
    BY <1>6, <2>2
  <2>5. s.forked + a = s.forked + b
    BY <2>3
  <2>6. a = b
    BY <1>6, <2>4, <2>5
  <2>. QED
    BY <2>2, <2>6
<1>16. \A i \in DOMAIN r.idle_queue \ DOMAIN s.idle_queue :
         r.idle_queue[i] \in DOMAIN r.workers /\ Fresh(s, r, r.idle_queue[i])
  <2>1. \A j \in 1 .. k : n + j \in 1 .. n + k
    BY <1>2, <1>6
  <2>. QED
    BY <1>8, <1>9, <1>11, <1>13, <2>1
<1>17. \A i, j \in DOMAIN r.idle_queue \ DOMAIN s.idle_queue :
         r.idle_queue[i] = r.idle_queue[j] => i = j
  <2> SUFFICES ASSUME NEW i \in DOMAIN r.idle_queue \ DOMAIN s.idle_queue,
                      NEW j \in DOMAIN r.idle_queue \ DOMAIN s.idle_queue,
                      r.idle_queue[i] = r.idle_queue[j]
               PROVE  i = j
    OBVIOUS
  <2>1. PICK a \in 1 .. k, b \in 1 .. k : i = q + a /\ j = q + b
    BY <1>13
  <2>2. n + a = n + b
    BY <1>8, <2>1
  <2>3. a \in Int /\ b \in Int
    BY <1>6, <2>1
  <2>4. a = b
    BY <1>2, <2>2, <2>3
  <2>. QED
    BY <2>1, <2>4
<1>18. /\ s.forked <= r.forked /\ n <= Len(r.workers) /\ Len(r.workers) - n <= r.forked - s.forked
       /\ q <= Len(r.idle_queue)
  <2>1. \A a, b \in Nat : b <= a + b /\ (a + b) - a <= b /\ a <= a + b
    OBVIOUS
  <2>2. \A a, b, c \in Nat : (a + b) - a <= (c + b) - c
    OBVIOUS
  <2>3. Len(r.workers) = n + k /\ Len(r.idle_queue) = q + k /\ r.forked = s.forked + k
    BY <1>1, <1>7
  <2>. QED
    BY <1>2, <1>6, <2>1, <2>2, <2>3
<1>19. \A j \in DOMAIN s.idle_queue : r.idle_queue[j] = s.idle_queue[j]
  BY <1>2, <1>8
<1>20. \A p \in Procs : p <= s.forked => r.life[p] = s.life[p]
  BY <1>1, <1>7
<1>21. Refilled(s, r)
  BY <1>1, <1>7, <1>14, <1>15, <1>16, <1>17, <1>18, <1>19, <1>20 DEF Refilled
<1>. QED
  BY <1>2, <1>3, <1>8, <1>21

\* Threads are replaced where they are.
LEMMA ThreadReapRefills ==
    ASSUME NEW s, Sound(s), s.mode = "thread", NEW fails \in BOOLEAN, fails => s.faults > 0
    PROVE  Refilled(s, reap_and_respawn_threaded(s, fails))
<1> DEFINE n == Len(s.workers)
           q == Len(s.idle_queue)
<1>1. s \in Pool /\ n <= s.forked /\ s.forked \in 0 .. MaxProcs
  BY DEF Sound, Pool
<1>2. /\ n \in Nat /\ DOMAIN s.workers = 1 .. n /\ q \in Nat /\ DOMAIN s.idle_queue = 1 .. q
      /\ s.idle_queue \in Seq(Procs)
  BY <1>1, WorkerOf
<1>3. PICK dead : dead = Dead(s)
  OBVIOUS
<1>4. /\ dead \in Seq(Procs \union DOMAIN s.workers) /\ Len(dead) \in Nat
      /\ DOMAIN dead = 1 .. Len(dead)
      /\ \A k \in 1 .. Len(dead) : dead[k] \in DOMAIN s.workers
      /\ \A k, l \in 1 .. Len(dead) : dead[k] = dead[l] => k = l
  BY <1>1, <1>3, DeadList, ZenonT(30)
<1>5. Procs \union DOMAIN s.workers = Procs
  BY <1>1, <1>2 DEF Procs
<1>6. dead \in Seq(Procs)
  BY <1>4, <1>5
<1>7. PICK k : k = Forks(s, Len(dead), fails)
  OBVIOUS
<1>8. k \in 0 .. Len(dead) /\ k <= MaxProcs - s.forked
  BY <1>1, <1>4, <1>7, ForksType
<1>9. k \in Nat
  BY <1>4, <1>8
<1>10. PICK m : m = Noted(s)
  OBVIOUS
<1>11. Looked(s, m)
  BY <1>1, <1>10, NotedEffect
<1>12. /\ m \in Pool /\ m.forked = s.forked /\ m.faults = s.faults /\ m.mode = s.mode
       /\ m.maxRequests = s.maxRequests /\ m.cmds = s.cmds /\ m.resps = s.resps
       /\ m.closed = s.closed /\ m.life = s.life /\ m.idle_queue = s.idle_queue
       /\ Len(m.workers) = n
  BY <1>11 DEF Looked
<1>13. DOMAIN m.workers = 1 .. n /\ \A i \in 1 .. n : m.workers[i] \in Worker
  BY <1>12, WorkerOf
<1>14. PICK b : b = Born(m, k, fails)
  OBVIOUS
<1>15. /\ b \in Pool /\ b.forked = s.forked + k /\ b.mode = s.mode
       /\ b.maxRequests = s.maxRequests /\ b.workers = m.workers
       /\ b.idle_queue = s.idle_queue /\ b.cmds = s.cmds /\ b.resps = s.resps
       /\ b.closed = s.closed
       /\ \A p \in Procs : p <= s.forked => b.life[p] = s.life[p]
  BY <1>8, <1>9, <1>12, <1>14, BornEffect
<1> DEFINE hit(i) == \E j \in 1 .. k : dead[j] = i
           nth(i) == CHOOSE j \in 1 .. k : dead[j] = i
           nw(i)  == IF hit(i) THEN new_worker(s, s.forked + nth(i), i) ELSE m.workers[i]
<1>16. \A i \in 1 .. n : hit(i) => nth(i) \in 1 .. k /\ dead[nth(i)] = i
  BY Zenon
<1>17. \A i \in 1 .. n : /\ nw(i) \in Worker
                         /\ hit(i) => nw(i).proc = s.forked + nth(i) /\ nw(i).state = "Idle"
                         /\ ~hit(i) => nw(i) = m.workers[i]
  <2> SUFFICES ASSUME NEW i \in 1 .. n
               PROVE  /\ nw(i) \in Worker
                      /\ hit(i) => nw(i).proc = s.forked + nth(i) /\ nw(i).state = "Idle"
                      /\ ~hit(i) => nw(i) = m.workers[i]
    OBVIOUS
  <2>1. CASE ~hit(i)
    BY <1>13, <2>1
  <2>2. CASE hit(i)
    <3>1. nth(i) \in 1 .. k
      BY <1>16, <2>2
    <3> HIDE DEF nth
    <3>2. s.forked + nth(i) \in Procs /\ i \in Nat \ {0}
      BY <1>1, <1>2, <1>8, <1>9, <3>1 DEF Procs
    <3>. QED
      BY <1>1, <2>2, <3>2, NewWorkerType
  <2>. QED
    BY <2>1, <2>2
<1>18. PICK x : x = [i \in 1 .. n |-> nw(i)]
  OBVIOUS
<1>19. PICK y : y = SubSeq(dead, 1, k)
  OBVIOUS
<1>20. y \in Seq(Procs) /\ Len(y) = k /\ \A j \in 1 .. k : y[j] = dead[j]
  BY <1>6, <1>8, <1>19, Prefix
<1>21. PICK v : v = s.idle_queue \o y
  OBVIOUS
<1>22. PICK r : r = reap_and_respawn_threaded(s, fails)
  OBVIOUS
<1>23. r = [b EXCEPT !.workers = x, !.idle_queue = v]
  <2>1. r = [Born(m, k, fails) EXCEPT
               !.workers = [i \in DOMAIN @ |->
                   IF \E j \in 1 .. k : dead[j] = i
                   THEN LET j == CHOOSE j \in 1 .. k : dead[j] = i
                        IN  new_worker(s, s.forked + j, i)
                   ELSE @[i]],
               !.idle_queue = @ \o SubSeq(dead, 1, k)]
    BY <1>3, <1>7, <1>10, <1>22 DEF reap_and_respawn_threaded
  <2>2. r = [b EXCEPT
               !.workers = [i \in DOMAIN b.workers |->
                   IF hit(i) THEN new_worker(s, s.forked + nth(i), i) ELSE b.workers[i]],
               !.idle_queue = b.idle_queue \o SubSeq(dead, 1, k)]
    BY <1>14, <2>1
  <2>3. [i \in DOMAIN b.workers |->
           IF hit(i) THEN new_worker(s, s.forked + nth(i), i) ELSE b.workers[i]] = x
    BY <1>13, <1>15, <1>18
  <2>. QED
    BY <1>15, <1>19, <1>21, <2>2, <2>3
<1> HIDE DEF nw, hit, nth
<1>24. x \in [1 .. n -> Worker] /\ \A i \in 1 .. n : x[i] = nw(i)
  BY <1>17, <1>18
<1>25. x \in Seq(Worker) /\ Len(x) = n
  BY <1>2, <1>24, FunSeq
<1>26. v \in Seq(Procs) /\ Len(v) = q + Len(y)
  <2>1. PICK a \in Seq(Procs) : a = s.idle_queue
    BY <1>2
  <2>2. y \in Seq(Procs) /\ v = a \o y
    BY <1>20, <1>21, <2>1
  <2>3. v \in Seq(Procs)
    BY <2>2, Row
  <2>4. Len(v) = Len(a) + Len(y)
    BY <2>2, Row
  <2>. QED
    BY <2>1, <2>3, <2>4
<1>27. \A j \in 1 .. q : v[j] = s.idle_queue[j]
  <2>1. PICK a \in Seq(Procs) : a = s.idle_queue
    BY <1>2
  <2>2. \A j \in 1 .. Len(a) : v[j] = a[j]
    BY <1>20, <1>21, <2>1, Row
  <2>. QED
    BY <2>1, <2>2
<1>28. \A j \in 1 .. k : v[q + j] = dead[j]
  <2>1. PICK a \in Seq(Procs) : a = s.idle_queue
    BY <1>2
  <2>2. \A j \in 1 .. Len(y) : v[Len(a) + j] = y[j]
    BY <1>20, <1>21, <2>1, Row
  <2>. QED
    BY <1>20, <2>1, <2>2
<1>29. /\ r \in Pool /\ r.workers = x /\ r.idle_queue = v /\ r.forked = b.forked /\ r.mode = b.mode
       /\ r.maxRequests = b.maxRequests /\ r.cmds = b.cmds /\ r.resps = b.resps
       /\ r.closed = b.closed /\ r.life = b.life
  BY <1>15, <1>23, <1>25, <1>26 DEF Pool
<1>30. DOMAIN r.workers = 1 .. n /\ DOMAIN r.idle_queue = 1 .. q + k /\ Len(r.idle_queue) = q + k
       /\ Len(r.workers) = n
  BY <1>20, <1>25, <1>26, <1>29, WorkerOf
<1>31. \A i \in 1 .. n : ~hit(i) => Kept(s, r, i) /\ r.workers[i].proc <= s.forked
  BY <1>2, <1>11, <1>17, <1>24, <1>29 DEF Kept, Looked, Sound
<1>32. \A i \in 1 .. n : hit(i) => nth(i) \in 1 .. k /\ r.workers[i].proc = s.forked + nth(i)
  BY <1>16, <1>17, <1>24, <1>29
<1>33. \A i \in 1 .. n : hit(i) => Fresh(s, r, i)
  <2> SUFFICES ASSUME NEW i \in 1 .. n, hit(i)
               PROVE  Fresh(s, r, i)
    OBVIOUS
  <2>1. PICK j \in 1 .. k : j = nth(i) /\ dead[j] = i
    BY <1>16
  <2>2. q + j \in DOMAIN r.idle_queue /\ r.idle_queue[q + j] = i
    <3>1. q + j \in 1 .. q + k
      BY <1>2, <1>9
    <3>. QED
      BY <1>28, <1>29, <1>30, <2>1, <3>1
  <2>3. InQueue(r, i)
    BY <2>2 DEF InQueue
  <2>4. r.workers[i].proc = s.forked + j /\ r.workers[i].state = "Idle" /\ r.forked = s.forked + k
    BY <1>15, <1>17, <1>24, <1>29, <2>1
  <2>5. s.forked + j > s.forked /\ s.forked + j <= s.forked + k
    BY <1>1, <1>9
  <2>. QED
    BY <2>3, <2>4, <2>5 DEF Fresh
<1>34. \A i, j \in 1 .. n :
         r.workers[i].proc > s.forked /\ r.workers[i].proc = r.workers[j].proc => i = j
  <2> SUFFICES ASSUME NEW i \in 1 .. n, NEW j \in 1 .. n,
                      r.workers[i].proc > s.forked, r.workers[i].proc = r.workers[j].proc
               PROVE  i = j
    OBVIOUS
  <2>0. \A h \in 1 .. n : r.workers[h].proc \in Nat
    <3>1. r \in Pool
      BY <1>29
    <3>2. \A h \in DOMAIN r.workers : r.workers[h].proc \in Procs
      BY <3>1, WorkerOf
    <3>. QED
      BY <1>30, <3>2 DEF Procs
  <2>1. hit(i) /\ hit(j)
    BY <1>1, <1>31, <2>0
  <2>2. nth(i) \in 1 .. k /\ nth(j) \in 1 .. k /\ s.forked + nth(i) = s.forked + nth(j)
    BY <1>32, <2>1
  <2>3. nth(i) = nth(j)
    BY <1>1, <1>9, <2>2
  <2>. QED
    BY <1>16, <2>1, <2>3
<1>35. \A j \in 1 .. k : dead[j] \in 1 .. n /\ hit(dead[j])
  BY <1>2, <1>4, <1>8, <1>9 DEF hit
<1>36. \A i \in DOMAIN r.idle_queue \ DOMAIN s.idle_queue : \E j \in 1 .. k : i = q + j
  <2>1. \A i \in (1 .. q + k) \ (1 .. q) : i - q \in 1 .. k /\ i = q + (i - q)
    BY <1>2, <1>9
  <2>. QED
    BY <1>2, <1>30, <2>1
<1>37. \A i \in DOMAIN r.idle_queue \ DOMAIN s.idle_queue :
         r.idle_queue[i] \in DOMAIN r.workers /\ Fresh(s, r, r.idle_queue[i])
  BY <1>28, <1>29, <1>30, <1>33, <1>35, <1>36
<1>38. \A i, j \in DOMAIN r.idle_queue \ DOMAIN s.idle_queue :
         r.idle_queue[i] = r.idle_queue[j] => i = j
  <2> SUFFICES ASSUME NEW i \in DOMAIN r.idle_queue \ DOMAIN s.idle_queue,
                      NEW j \in DOMAIN r.idle_queue \ DOMAIN s.idle_queue,
                      r.idle_queue[i] = r.idle_queue[j]
               PROVE  i = j
    OBVIOUS
  <2>1. PICK c \in 1 .. k, d \in 1 .. k : i = q + c /\ j = q + d
    BY <1>36
  <2>2. dead[c] = dead[d] /\ c \in 1 .. Len(dead) /\ d \in 1 .. Len(dead)
    BY <1>4, <1>8, <1>9, <1>28, <1>29, <2>1
  <2>3. c = d
    BY <1>4, <2>2
  <2>. QED
    BY <2>1, <2>3
<1>39. \A i \in DOMAIN r.workers : Kept(s, r, i) \/ Fresh(s, r, i)
  BY <1>30, <1>31, <1>33
<1>40. /\ s.forked <= r.forked /\ n <= Len(r.workers) /\ Len(r.workers) - n <= r.forked - s.forked
       /\ q <= Len(r.idle_queue)
  BY <1>1, <1>2, <1>9, <1>15, <1>29, <1>30
<1>41. \A j \in DOMAIN s.idle_queue : r.idle_queue[j] = s.idle_queue[j]
  BY <1>2, <1>27, <1>29
<1>42. /\ r \in Pool /\ r.mode = s.mode /\ r.maxRequests = s.maxRequests /\ r.cmds = s.cmds
       /\ r.resps = s.resps /\ r.closed = s.closed
       /\ \A p \in Procs : p <= s.forked => r.life[p] = s.life[p]
  BY <1>15, <1>29
<1>. QED
  BY <1>22, <1>30, <1>34, <1>37, <1>38, <1>39, <1>40, <1>41, <1>42 DEF Refilled

\* reap_and_respawn and its thread variant.
LEMMA ReapRefills ==
    ASSUME NEW s, Sound(s), NEW fails \in BOOLEAN, fails => s.faults > 0
    PROVE  Refilled(s, Reap(s, fails))
<1>1. CASE Dead(s) = <<>>
  <2>1. Reap(s, fails) = s
    BY <1>1 DEF Reap
  <2>2. s \in Pool /\ s.forked \in Nat /\ \A i \in DOMAIN s.workers : s.workers[i].proc <= s.forked
    BY DEF Sound, Pool
  <2>3. Len(s.workers) \in Nat /\ Len(s.idle_queue) \in Nat
        /\ \A i \in DOMAIN s.workers : s.workers[i].proc \in Nat
    BY <2>2, WorkerOf DEF Procs
  <2>4. \A i \in DOMAIN s.workers : Kept(s, s, i)
    BY DEF Kept
  <2>5. \A i \in DOMAIN s.workers : ~(s.workers[i].proc > s.forked)
    BY <2>2, <2>3
  <2>6. s.forked <= s.forked /\ Len(s.workers) <= Len(s.workers) /\ Len(s.idle_queue) <= Len(s.idle_queue)
        /\ Len(s.workers) - Len(s.workers) <= s.forked - s.forked
    BY <2>2, <2>3
  <2>7. Refilled(s, s)
    BY <2>2, <2>4, <2>5, <2>6 DEF Refilled
  <2>. QED
    BY <2>1, <2>7
<1>2. CASE Dead(s) # <<>> /\ s.mode = "thread"
  <2>1. Reap(s, fails) = reap_and_respawn_threaded(s, fails)
    BY <1>2 DEF Reap
  <2>. QED
    BY <1>2, <2>1, ThreadReapRefills
<1>3. CASE Dead(s) # <<>> /\ s.mode # "thread"
  <2>1. Reap(s, fails) = spawn(Noted(s), Dead(s), fails)
    BY <1>3 DEF Reap, reap_and_respawn
  <2>2. s \in Pool
    BY DEF Sound
  <2>3. Looked(s, Noted(s)) /\ Dead(s) \in Seq(Nat \ {0})
    BY <2>2, NotedEffect, DeadList
  <2>. QED
    BY <2>1, <2>3, SpawnRefills
<1>. QED
  BY <1>1, <1>2, <1>3

----------------------------------------------------------------------------
(***************************************************************************)
(* The other operations.                                                   *)
(***************************************************************************)
LEMMA SameKeepsSound ==
    ASSUME NEW s, Sound(s), NEW r \in Pool, SameWorkers(s, r)
    PROVE  Sound(r)
BY DEF Sound, SameWorkers

LEMMA BooksKeepSound ==
    ASSUME NEW s, Sound(s), NEW r \in Pool, SameBooks(s, r)
    PROVE  Sound(r) /\ SameWorkers(s, r)
BY DEF Sound, SameBooks, SameWorkers

LEMMA RefilledIsSound ==
    ASSUME NEW s, Sound(s), NEW r, Refilled(s, r)
    PROVE  Sound(r)
<1>1. /\ r \in Pool /\ s \in Pool /\ s.forked <= r.forked /\ Len(s.workers) <= s.forked
      /\ Len(r.workers) - Len(s.workers) <= r.forked - s.forked /\ N <= s.forked
  BY DEF Refilled, Sound
<1>2. s.forked \in Nat /\ r.forked \in Nat /\ Len(s.workers) \in Nat /\ Len(r.workers) \in Nat
  BY <1>1, WorkerOf DEF Pool
<1>3. Len(r.workers) <= r.forked /\ N <= r.forked
  <2>1. \A a, b, c, d \in Nat : a <= b /\ c - a <= d - b => c <= d
    OBVIOUS
  <2>2. \A a, b \in Nat : N <= a /\ a <= b => N <= b
    OBVIOUS
  <2>. QED
    BY <1>1, <1>2, <2>1, <2>2
<1>4. \A i \in DOMAIN r.workers : r.workers[i].proc <= r.forked
  <2> SUFFICES ASSUME NEW i \in DOMAIN r.workers
               PROVE  r.workers[i].proc <= r.forked
    OBVIOUS
  <2>1. r.workers[i].proc \in Nat
    BY <1>1, WorkerOf DEF Procs
  <2>2. r.workers[i].proc <= s.forked \/ r.workers[i].proc <= r.forked
    BY DEF Refilled, Kept, Fresh, Sound
  <2>. QED
    BY <1>1, <1>2, <2>1, <2>2
<1>. QED
  BY <1>1, <1>3, <1>4 DEF Sound

LEMMA ShrinkEffect ==
    ASSUME NEW s \in Pool
    PROVE  /\ shrink_one(s) \in Pool /\ SameWorkers(s, shrink_one(s)) /\ SamePipes(s, shrink_one(s))
<1>1. CASE s.idle_queue = <<>>
  <2>1. shrink_one(s) = s
    BY <1>1 DEF shrink_one
  <2>. QED
    BY <2>1 DEF SameWorkers, SamePipes
<1>2. CASE s.idle_queue # <<>>
  <2>1. /\ s.idle_queue \in Seq(Procs) /\ Len(s.idle_queue) \in Nat \ {0}
    BY <1>2, WorkerOf, EmptySeq
  <2>2. Len(s.idle_queue) - 1 \in 0 .. Len(s.idle_queue)
    BY <2>1
  <2>3. PICK q \in Seq(Procs) : q = SubSeq(s.idle_queue, 1, Len(s.idle_queue) - 1)
    BY <2>1, <2>2, Prefix
  <2>4. PICK m : m = [s EXCEPT !.idle_queue = q]
    OBVIOUS
  <2>5. /\ m \in Pool /\ m.workers = s.workers /\ m.mode = s.mode
        /\ m.maxRequests = s.maxRequests /\ m.forked = s.forked
        /\ m.life = s.life /\ m.resps = s.resps /\ m.closed = s.closed /\ m.cmds = s.cmds
    BY <2>4 DEF Pool
  <2>6. PICK i : i = s.idle_queue[Len(s.idle_queue)]
    OBVIOUS
  <2>7. shrink_one(s) = IF i \in DOMAIN s.workers /\ s.workers[i].state = "Idle"
                        THEN terminate(m, i) ELSE m
    BY <1>2, <2>3, <2>4, <2>6 DEF shrink_one
  <2>8. SameWorkers(s, m) /\ SamePipes(s, m)
    BY <2>5 DEF SameWorkers, SamePipes
  <2>9. CASE i \in DOMAIN s.workers /\ s.workers[i].state = "Idle"
    <3>1. i \in DOMAIN m.workers
      BY <2>5, <2>9
    <3>2. PICK r : r = terminate(m, i)
      OBVIOUS
    <3>3. r \in Pool /\ SameWorkers(m, r) /\ SamePipes(m, r)
      BY <2>5, <3>1, <3>2, TerminateEffect
    <3>4. SameWorkers(s, r)
      BY <2>8, <3>3 DEF SameWorkers
    <3>5. SamePipes(s, r)
      BY <2>8, <2>5, <3>3 DEF SamePipes
    <3>. QED
      BY <2>7, <2>9, <3>2, <3>3, <3>4, <3>5
  <2>10. CASE ~(i \in DOMAIN s.workers /\ s.workers[i].state = "Idle")
    BY <2>5, <2>7, <2>8, <2>10
  <2>. QED
    BY <2>9, <2>10
<1>. QED
  BY <1>1, <1>2

\* All workers are told to end: theirs is another state now, and threads have
\* a command.
LEMMA TerminatedEffect ==
    ASSUME NEW s \in Pool
    PROVE  LET r == Terminated(s)
           IN  /\ r \in Pool /\ SameWorkers(s, r) /\ SamePipes(s, r)
               /\ r.idle_queue = s.idle_queue /\ r.faults = s.faults
               /\ \A i \in DOMAIN s.workers : r.workers[i].state = "Stopping"
<1>1. /\ s.life \in [Procs -> Lives] /\ s.cmds \in [Procs -> Seq(Commands)]
      /\ s.term \in SUBSET Procs
  BY DEF Pool
<1>2. Members(s) \in SUBSET Procs
  BY WorkerOf DEF Members
<1>3. PICK told \in SUBSET Procs : told = {p \in Members(s) : s.life[p] # "dead"}
  BY <1>2
<1>4. \A p \in told : s.life[p] # "dead"
  BY <1>3
<1>5. PICK q : q = [i \in DOMAIN s.workers |-> [s.workers[i] EXCEPT !.state = "Stopping"]]
  OBVIOUS
<1>6. /\ DOMAIN s.workers = 1 .. Len(s.workers) /\ Len(s.workers) \in Nat
      /\ \A i \in DOMAIN s.workers : s.workers[i] \in Worker
  BY WorkerOf
<1>7. q \in [1 .. Len(s.workers) -> Worker]
  BY <1>5, <1>6 DEF Worker, States
<1>8. q \in Seq(Worker) /\ Len(q) = Len(s.workers) /\ DOMAIN q = DOMAIN s.workers
  BY <1>6, <1>7, FunSeq
<1>9. \A i \in DOMAIN s.workers : q[i].proc = s.workers[i].proc /\ q[i].state = "Stopping"
  BY <1>5, <1>6 DEF Worker
<1>10. PICK e \in SUBSET Procs : e = IF s.mode = "process" THEN s.term \union told ELSE s.term
  BY <1>1
<1>11. PICK c : c = IF s.mode = "process" THEN s.cmds
                    ELSE [p \in Procs |-> IF p \in told \ s.closed
                                          THEN Append(s.cmds[p], "Shutdown") ELSE s.cmds[p]]
  OBVIOUS
<1>12. /\ c \in [Procs -> Seq(Commands)]
       /\ \A p \in Procs : \/ c[p] = s.cmds[p]
                           \/ c[p] = Append(s.cmds[p], "Shutdown") /\ s.life[p] # "dead"
  <2>1. \A p \in Procs : s.cmds[p] \in Seq(Commands) /\ Append(s.cmds[p], "Shutdown") \in Seq(Commands)
    BY <1>1, AppendProperties DEF Commands
  <2>. QED
    BY <1>1, <1>4, <1>11, <2>1
<1>13. PICK r : r = Terminated(s)
  OBVIOUS
<1>14. r = [s EXCEPT !.workers = q, !.term = e, !.cmds = c]
  BY <1>3, <1>5, <1>10, <1>11, <1>13 DEF Terminated
<1>15. /\ r \in Pool /\ r.workers = q /\ r.cmds = c /\ r.life = s.life /\ r.resps = s.resps
       /\ r.closed = s.closed /\ r.mode = s.mode /\ r.maxRequests = s.maxRequests
       /\ r.forked = s.forked /\ r.idle_queue = s.idle_queue /\ r.faults = s.faults
  BY <1>8, <1>12, <1>14 DEF Pool
<1>16. SameWorkers(s, r)
  BY <1>8, <1>9, <1>15 DEF SameWorkers
<1>17. SamePipes(s, r)
  BY <1>12, <1>15 DEF SamePipes
<1>. QED
  BY <1>9, <1>13, <1>15, <1>16, <1>17

\* Then there are no workers, and their pipe ends are closed.
LEMMA ClearedEffect ==
    ASSUME NEW s \in Pool
    PROVE  LET r == Cleared(s)
           IN  /\ r \in Pool /\ r.workers = <<>> /\ r.idle_queue = <<>> /\ r.forked = s.forked
               /\ r.mode = s.mode /\ r.maxRequests = s.maxRequests /\ r.faults = s.faults
               /\ r.life = s.life /\ r.cmds = s.cmds /\ r.resps = s.resps
               /\ r.closed = s.closed \union Members(s)
<1>1. PICK d \in SUBSET Procs : d = s.closed \union Members(s)
  <2>1. Members(s) \in SUBSET Procs
    BY WorkerOf DEF Members
  <2>. QED
    BY <2>1 DEF Pool
<1>2. <<>> \in Seq(Worker) /\ <<>> \in Seq(Procs)
  BY EmptySeq
<1>3. PICK r : r = Cleared(s)
  OBVIOUS
<1>4. r = [s EXCEPT !.closed = d, !.workers = <<>>, !.idle_queue = <<>>]
  BY <1>1, <1>3 DEF Cleared
<1>5. /\ r \in Pool /\ r.workers = <<>> /\ r.idle_queue = <<>> /\ r.forked = s.forked
      /\ r.mode = s.mode /\ r.maxRequests = s.maxRequests /\ r.faults = s.faults
      /\ r.life = s.life /\ r.cmds = s.cmds /\ r.resps = s.resps /\ r.closed = d
  BY <1>2, <1>4 DEF Pool
<1>. QED
  BY <1>1, <1>3, <1>5

LEMMA ClearedIsSound ==
    ASSUME NEW s, Sound(s)
    PROVE  Sound(Cleared(s))
<1>1. s \in Pool /\ N <= s.forked /\ s.forked \in Nat
  BY DEF Sound, Pool
<1>2. PICK r : r = Cleared(s)
  OBVIOUS
<1>3. r \in Pool /\ r.workers = <<>> /\ r.forked = s.forked
  BY <1>1, <1>2, ClearedEffect
<1>4. Len(r.workers) = 0 /\ DOMAIN r.workers = {}
  BY <1>3, EmptySeq
<1>. QED
  BY <1>1, <1>2, <1>3, <1>4 DEF Sound

LEMMA ExitEffect ==
    ASSUME NEW s \in Pool, NEW p \in Procs
    PROVE  LET r == Exit(s, p)
           IN  /\ r \in Pool /\ SameBooks(s, r) /\ r.resps = s.resps /\ r.closed = s.closed
               /\ r.faults = s.faults
               /\ r.life = [s.life EXCEPT ![p] = "dead"] /\ r.cmds = [s.cmds EXCEPT ![p] = <<>>]
<1>1. s.life \in [Procs -> Lives] /\ s.cmds \in [Procs -> Seq(Commands)] /\ s.term \in SUBSET Procs
  BY DEF Pool
<1>2. PICK l \in [Procs -> Lives] : l = [s.life EXCEPT ![p] = "dead"]
  BY <1>1 DEF Lives
<1>3. PICK c \in [Procs -> Seq(Commands)] : c = [s.cmds EXCEPT ![p] = <<>>]
  BY <1>1, EmptySeq
<1>4. PICK e \in SUBSET Procs : e = s.term \ {p}
  BY <1>1
<1>5. PICK r : r = Exit(s, p)
  OBVIOUS
<1>6. r = [s EXCEPT !.life = l, !.cmds = c, !.term = e]
  BY <1>2, <1>3, <1>4, <1>5 DEF Exit
<1>7. /\ r \in Pool /\ SameBooks(s, r) /\ r.resps = s.resps /\ r.closed = s.closed
      /\ r.faults = s.faults /\ r.life = l /\ r.cmds = c
  BY <1>6 DEF Pool, SameBooks
<1>. QED
  BY <1>2, <1>3, <1>5, <1>7

LEMMA WriteEffect ==
    ASSUME NEW s \in Pool, NEW p \in Procs, NEW x \in Responses
    PROVE  LET r == Write(s, p, x)
           IN  /\ r \in Pool /\ SameBooks(s, r) /\ r.closed = s.closed
               /\ r.life = s.life /\ r.cmds = s.cmds
               /\ r.resps = IF p \in s.closed THEN s.resps ELSE [s.resps EXCEPT ![p] = Append(@, x)]
<1>1. s.resps \in [Procs -> Seq(Responses)]
  BY DEF Pool
<1>2. Append(s.resps[p], x) \in Seq(Responses)
  BY <1>1, AppendProperties
<1>3. PICK y \in [Procs -> Seq(Responses)] : y = [s.resps EXCEPT ![p] = Append(@, x)]
  BY <1>1, <1>2
<1>4. PICK r : r = Write(s, p, x)
  OBVIOUS
<1>5. r = IF p \in s.closed THEN s ELSE [s EXCEPT !.resps = y]
  BY <1>3, <1>4 DEF Write
<1>6. CASE p \in s.closed
  BY <1>4, <1>5, <1>6 DEF SameBooks
<1>7. CASE p \notin s.closed
  <2>1. /\ r \in Pool /\ SameBooks(s, r) /\ r.closed = s.closed
        /\ r.life = s.life /\ r.cmds = s.cmds /\ r.resps = y
    BY <1>5, <1>7 DEF Pool, SameBooks
  <2>. QED
    BY <1>3, <1>4, <1>7, <2>1
<1>. QED
  BY <1>6, <1>7

\* One turn of the event loop: it ends, or the command's response is written.
LEMMA RunsEffect ==
    ASSUME NEW s \in Pool, NEW p \in Procs, s.cmds[p] # <<>>
    PROVE  LET r == runs(s, p)
               c == Head(s.cmds[p])
           IN  /\ r \in Pool /\ SameBooks(s, r) /\ r.closed = s.closed /\ c \in Commands
               /\ c = "Shutdown" => /\ r.life = [s.life EXCEPT ![p] = "dead"]
                                    /\ r.cmds = [s.cmds EXCEPT ![p] = <<>>]
                                    /\ r.resps = s.resps
               /\ c # "Shutdown" => /\ r.life = s.life
                                    /\ r.cmds = [s.cmds EXCEPT ![p] = Tail(@)]
                                    /\ r.resps = IF p \in s.closed THEN s.resps
                                                 ELSE [s.resps EXCEPT ![p] = Append(@, c)]
<1>1. s.cmds \in [Procs -> Seq(Commands)]
  BY DEF Pool
<1>2. s.cmds[p] \in Seq(Commands)
  BY <1>1
<1>3. PICK c : c = Head(s.cmds[p])
  OBVIOUS
<1>4. c \in Commands /\ Tail(s.cmds[p]) \in Seq(Commands)
  BY <1>2, <1>3, HeadTailProperties
<1>5. PICK y \in [Procs -> Seq(Commands)] : y = [s.cmds EXCEPT ![p] = Tail(@)]
  BY <1>1, <1>4
<1>6. PICK m : m = [s EXCEPT !.cmds = y]
  OBVIOUS
<1>7. /\ m \in Pool /\ SameBooks(s, m) /\ m.closed = s.closed /\ m.resps = s.resps
      /\ m.life = s.life /\ m.cmds = y
  BY <1>6 DEF Pool, SameBooks
<1>8. PICK r : r = runs(s, p)
  OBVIOUS
<1>9. r = IF c = "Shutdown" THEN Exit(m, p) ELSE Write(m, p, c)
  BY <1>3, <1>5, <1>6, <1>8 DEF runs
<1>10. CASE c = "Shutdown"
  <2>1. r = Exit(m, p)
    BY <1>9, <1>10
  <2>2. /\ r \in Pool /\ SameBooks(m, r) /\ r.resps = m.resps /\ r.closed = m.closed
        /\ r.life = [m.life EXCEPT ![p] = "dead"] /\ r.cmds = [m.cmds EXCEPT ![p] = <<>>]
    BY <1>7, <2>1, ExitEffect
  <2>3. [y EXCEPT ![p] = <<>>] = [s.cmds EXCEPT ![p] = <<>>]
    BY <1>1, <1>5
  <2>4. SameBooks(s, r)
    BY <1>7, <2>2 DEF SameBooks
  <2>. QED
    BY <1>3, <1>4, <1>7, <1>8, <1>10, <2>2, <2>3, <2>4
<1>11. CASE c # "Shutdown"
  <2>1. r = Write(m, p, c) /\ c \in Responses
    BY <1>4, <1>9, <1>11 DEF Commands, Responses
  <2>2. /\ r \in Pool /\ SameBooks(m, r) /\ r.closed = m.closed
        /\ r.life = m.life /\ r.cmds = m.cmds
        /\ r.resps = IF p \in m.closed THEN m.resps ELSE [m.resps EXCEPT ![p] = Append(@, c)]
    <3>1. m \in Pool
      BY <1>7
    <3>. QED
      BY <2>1, <3>1, WriteEffect, ZenonT(40)
  <2>3. SameBooks(s, r)
    BY <1>7, <2>2 DEF SameBooks
  <2>. QED
    BY <1>3, <1>4, <1>5, <1>7, <1>8, <1>11, <2>2, <2>3
<1>. QED
  BY <1>10, <1>11

LEMMA BootsEffect ==
    ASSUME NEW s \in Pool, NEW p \in Procs
    PROVE  LET r == boots(s, p)
           IN  /\ r \in Pool /\ SameBooks(s, r) /\ r.closed = s.closed /\ r.cmds = s.cmds
               /\ \A q \in Procs : q # p => r.life[q] = s.life[q] /\ r.resps[q] = s.resps[q]
<1>1. s.life \in [Procs -> Lives] /\ s.resps \in [Procs -> Seq(Responses)]
  BY DEF Pool
<1>2. PICK l \in [Procs -> Lives] : l = [s.life EXCEPT ![p] = "up"]
  BY <1>1 DEF Lives
<1>3. PICK m : m = [s EXCEPT !.life = l]
  OBVIOUS
<1>4. /\ m \in Pool /\ SameBooks(s, m) /\ m.closed = s.closed /\ m.resps = s.resps
      /\ m.life = l /\ m.cmds = s.cmds
  BY <1>3 DEF Pool, SameBooks
<1>5. PICK r : r = boots(s, p)
  OBVIOUS
<1>6. r = Write(m, p, "Ready") /\ "Ready" \in Responses
  BY <1>2, <1>3, <1>5 DEF boots, Responses
<1>7. /\ r \in Pool /\ SameBooks(m, r) /\ r.closed = m.closed
      /\ r.life = m.life /\ r.cmds = m.cmds
      /\ r.resps = IF p \in m.closed THEN m.resps ELSE [m.resps EXCEPT ![p] = Append(@, "Ready")]
  BY <1>4, <1>6, WriteEffect
<1>8. SameBooks(s, r)
  BY <1>4, <1>7 DEF SameBooks
<1>9. \A q \in Procs : q # p => r.life[q] = s.life[q] /\ r.resps[q] = s.resps[q]
  BY <1>1, <1>2, <1>4, <1>7
<1>. QED
  BY <1>4, <1>5, <1>7, <1>8, <1>9

LEMMA BufferedEffect ==
    ASSUME NEW s \in Pool, NEW p \in Procs
    PROVE  LET r == Buffered(s, p)
           IN  /\ r \in Pool /\ SameBooks(s, r) /\ r.closed = s.closed /\ r.cmds = s.cmds
               /\ r.life = s.life /\ r.resps = [s.resps EXCEPT ![p] = <<>>]
<1>1. s.resps \in [Procs -> Seq(Responses)]
  BY DEF Pool
<1>2. PICK y \in [Procs -> Seq(Responses)] : y = [s.resps EXCEPT ![p] = <<>>]
  BY <1>1, EmptySeq
<1>3. PICK r : r = Buffered(s, p)
  OBVIOUS
<1>4. r = [s EXCEPT !.resps = y]
  BY <1>2, <1>3 DEF Buffered
<1>5. /\ r \in Pool /\ SameBooks(s, r) /\ r.closed = s.closed /\ r.cmds = s.cmds
      /\ r.life = s.life /\ r.resps = y
  BY <1>4 DEF Pool, SameBooks
<1>. QED
  BY <1>2, <1>3, <1>5

LEMMA KilledEffect ==
    ASSUME NEW s \in Pool, NEW p \in Procs
    PROVE  LET r == Killed(s, p)
           IN  /\ r \in Pool /\ SameBooks(s, r) /\ r.closed = s.closed /\ r.resps = s.resps
               /\ \/ r = s /\ s.life[p] \notin {"boot", "up"}
                  \/ r.life = [s.life EXCEPT ![p] = "dead"] /\ r.cmds = [s.cmds EXCEPT ![p] = <<>>]
<1>1. CASE s.life[p] \in {"boot", "up"}
  <2>1. Killed(s, p) = Exit(s, p)
    BY <1>1 DEF Killed
  <2>. QED
    BY <2>1, ExitEffect
<1>2. CASE s.life[p] \notin {"boot", "up"}
  <2>1. Killed(s, p) = s
    BY <1>2 DEF Killed
  <2>. QED
    BY <1>2, <2>1 DEF SameBooks
<1>. QED
  BY <1>1, <1>2

LEMMA RetireEffect ==
    ASSUME NEW s \in Pool
    PROVE  LET r == Retire(s)
           IN  r \in Pool /\ SameBooks(s, r) /\ SamePipes(s, r) /\ r.faults = s.faults
<1> DEFINE P == {s.workers[i].proc : i \in over_quota \intersect DOMAIN s.workers}
<1>1. s.cmds \in [Procs -> Seq(Commands)]
  BY DEF Pool
<1>2. PICK c : c = [q \in Procs |-> IF q \in P /\ CanSend(s, q) THEN Append(s.cmds[q], "Shutdown")
                                    ELSE s.cmds[q]]
  OBVIOUS
<1>3. \A p \in Procs : s.cmds[p] \in Seq(Commands) /\ Append(s.cmds[p], "Shutdown") \in Seq(Commands)
  BY <1>1, AppendProperties DEF Commands
<1>4. PICK r : r = Retire(s)
  OBVIOUS
<1>5. r = [s EXCEPT !.cmds = c]
  BY <1>2, <1>4 DEF Retire
<1> HIDE DEF P
<1>6. /\ c \in [Procs -> Seq(Commands)]
      /\ \A p \in Procs : \/ c[p] = s.cmds[p]
                          \/ c[p] = Append(s.cmds[p], "Shutdown") /\ s.life[p] # "dead"
  BY <1>2, <1>3 DEF CanSend
<1>7. /\ r \in Pool /\ SameBooks(s, r) /\ r.faults = s.faults
      /\ r.life = s.life /\ r.resps = s.resps /\ r.closed = s.closed /\ r.cmds = c
  BY <1>5, <1>6 DEF Pool, SameBooks
<1>8. SamePipes(s, r)
  BY <1>6, <1>7 DEF SamePipes
<1>. QED
  BY <1>4, <1>7, <1>8

----------------------------------------------------------------------------
(***************************************************************************)
(* Types.                                                                  *)
(***************************************************************************)
Conf == [route : {"named", "default"}, mode : {"process", "thread"},
         maxRequests : Nat, crashes : Nat, faults : Nat, leaves : Nat, reloads : Nat,
         autoScale : BOOLEAN, stops : BOOLEAN, tasks : SUBSET Tasks]

Dispatch == [permits : Nat, idle : Seq(1 .. N), fds : Seq(Procs),
             unhealthy : [1 .. N -> BOOLEAN], served : [1 .. N -> Nat]]

User(t) == pc[t] \in {"read", "return"}

\* The configuration stays what it is, and a named pool is neither scaled nor
\* reloaded.
ConfOK == /\ conf \in Conf /\ w.mode = conf.mode
          /\ conf.route = "default" => conf.mode = "process"
          /\ conf.autoScale \/ scaler.at # "check" => conf.route = "default"
          /\ holder = "watcher" => conf.route = "default"

Labels == {"permit", "claim", "read", "return", "kill", "done"}

\* A handler that reads has pipe ends, one that claims a slot has the slot,
\* and the guard of the default pool has a process to kill.
TaskOK ==
    /\ pc \in [Tasks -> Labels]
    /\ slot \in [Tasks -> 0 .. MaxProcs] /\ fd \in [Tasks -> 0 .. MaxProcs]
    /\ pid \in [Tasks -> 0 .. MaxProcs]
    /\ got \in [Tasks -> Responses \union {None, "eof"}]
    /\ out \in [Tasks -> {None, "ok", "gone", "reset", "502", "503", "504"}]
    /\ \A t \in Tasks : User(t) \/ pc[t] = "kill" => fd[t] \in Procs
    /\ ~Named => \A t \in Tasks : pc[t] \in {"claim", "read"} => slot[t] \in 1 .. N
    /\ ~Named => \A t \in Tasks : pc[t] \in {"read", "kill"} => pid[t] \in Procs
    /\ Named => \A t \in Tasks : pc[t] # "kill"

BackOK == /\ rpc \in {"tick", "refresh", "panicked"} /\ fds \in Seq(Procs)
          /\ scaler \in [at : {"check", "up", "down"}, idle_since : BOOLEAN]
          /\ server \in {"up", "drain1", "drain2", "stopped"} /\ permits \in Nat
          /\ holder \in {"none", "watcher", "server"}

Types == Sound(w) /\ ConfOK /\ TaskOK /\ BackOK /\ td \in Dispatch

\* The pool stays a pool with its mode and its quota.
PoolStep == Sound(w') /\ w'.mode = w.mode /\ w'.maxRequests = w.maxRequests

LEMMA TypesGiveTypeOK == Types => TypeOK
<1> SUFFICES ASSUME Types
             PROVE  TypeOK
  OBVIOUS
<1>1. w \in Pool /\ N <= w.forked
  BY DEF Types, Sound
<1>2. \A k \in DOMAIN w.idle_queue : w.idle_queue[k] \in 1 .. MaxProcs
  BY <1>1, WorkerOf DEF Procs
<1>3. /\ w.workers \in Seq(Worker) /\ w.forked \in N .. MaxProcs /\ w.closed \subseteq Procs
      /\ w.term \subseteq Procs
      /\ \A p \in Procs : /\ w.life[p] \in {"none", "boot", "up", "dead"}
                          /\ w.cmds[p] \in Seq(Commands) /\ w.resps[p] \in Seq(Responses)
  BY <1>1 DEF Pool, Lives
<1>4. td.permits \in Nat
  BY DEF Types, Dispatch
<1>. QED
  BY <1>2, <1>3, <1>4 DEF Types, TypeOK, TaskOK, BackOK, Labels

\* The pool a claim is made in: as it is, or after a reap.
Tried(s) == \/ s = w /\ get_idle_worker(w) # 0
            \/ /\ Refilled(PopTo(w, 0), s) /\ get_idle_worker(w) = 0
               /\ w.workers = <<>> => s.workers = <<>>

\* A pool that was shut down has nothing to reap.
LEMMA NothingToReap ==
    ASSUME NEW s \in Pool, s.workers = <<>>, NEW fails
    PROVE  Reap(s, fails) = s
<1>1. DOMAIN s.workers = {}
  BY EmptySeq
<1>2. PICK d : d = Dead(s)
  OBVIOUS
<1>3. /\ d \in Seq(Nat \ {0}) /\ Len(d) \in Nat
      /\ \A k \in 1 .. Len(d) : d[k] \in {i \in DOMAIN s.workers : ~is_alive(s, i)}
  BY <1>2, DeadList
<1>4. Len(d) = 0
  <2>1. ~(1 \in 1 .. Len(d))
    BY <1>1, <1>3
  <2>. QED
    BY <1>3, <2>1
<1>5. Dead(s) = <<>>
  BY <1>2, <1>3, <1>4, EmptySeq
<1>. QED
  BY <1>5 DEF Reap

LEMMA ClaimableEffect ==
    ASSUME Sound(w), NEW fails \in MayFail(w)
    PROVE  \E s : /\ Tried(s) /\ Sound(s) /\ s.mode = w.mode /\ s.maxRequests = w.maxRequests
                  /\ Claimable(fails) = [pool |-> PopTo(s, get_idle_worker(s)),
                                         idx |-> IF get_idle_worker(s) = 0 THEN 0
                                                 ELSE s.idle_queue[get_idle_worker(s)]]
<1>1. w \in Pool
  BY DEF Sound
<1>2. fails \in BOOLEAN /\ (fails => w.faults > 0)
  BY DEF MayFail
<1>3. CASE get_idle_worker(w) # 0
  BY <1>3 DEF Tried, Claimable
<1>4. CASE get_idle_worker(w) = 0
  <2>1. 0 \in 0 .. Len(w.idle_queue)
    BY <1>1, WorkerOf
  <2>2. PICK m : m = PopTo(w, 0)
    OBVIOUS
  <2>3. m \in Pool /\ SameWorkers(w, m) /\ m.faults = w.faults
    BY <1>1, <2>1, <2>2, PopToEffect
  <2>4. Sound(m)
    BY <2>3, SameKeepsSound
  <2>5. PICK s : s = Reap(m, fails)
    OBVIOUS
  <2>6. Refilled(m, s)
    BY <1>2, <2>3, <2>4, <2>5, ReapRefills
  <2>7. Sound(s)
    BY <2>4, <2>6, RefilledIsSound
  <2>8. s.mode = w.mode /\ s.maxRequests = w.maxRequests
    BY <2>3, <2>6 DEF Refilled, SameWorkers
  <2>9. Claimable(fails) = [pool |-> PopTo(s, get_idle_worker(s)),
                            idx |-> IF get_idle_worker(s) = 0 THEN 0
                                    ELSE s.idle_queue[get_idle_worker(s)]]
    BY <1>4, <2>2, <2>5 DEF Claimable
  <2>10. ASSUME w.workers = <<>>
         PROVE  s.workers = <<>>
    <3>1. m.workers = <<>>
      BY <1>1, <2>1, <2>2, <2>10, PopToEffect
    <3>. QED
      BY <2>3, <2>5, <3>1, NothingToReap
  <2>. QED
    BY <1>4, <2>2, <2>6, <2>7, <2>8, <2>9, <2>10 DEF Tried
<1>. QED
  BY <1>3, <1>4

\* What a claim makes of the pool: it finds no worker; or it finds worker i
\* behind pipe ends p, marks it, and gives it back or sends the request.
ClaimFrom(s, t) ==
    LET k == get_idle_worker(s)
        i == s.idle_queue[k]
        b == mark_busy(PopTo(s, k), i)
        p == s.workers[i].proc
    IN  \/ /\ k = 0 /\ w' = PopTo(s, 0) /\ permits' = permits + 1
           /\ short' = Short(PopTo(s, 0))
           /\ Goto(t, "done") /\ Answer(t, "503") /\ UNCHANGED <<slot, fd>>
        \/ /\ k # 0 /\ ~CanSend(b, p)
           /\ w' = return_worker(b, i) /\ permits' = permits + 1
           /\ Goto(t, "done") /\ Answer(t, "502") /\ UNCHANGED <<slot, fd, short>>
        \/ /\ k # 0 /\ CanSend(b, p)
           /\ w' = send(b, p, t)
           /\ slot' = [slot EXCEPT ![t] = i] /\ fd' = [fd EXCEPT ![t] = p]
           /\ Goto(t, "read") /\ UNCHANGED <<permits, out, short>>

ClaimWith(c, t) ==
    \/ /\ c.idx = 0
       /\ w' = c.pool /\ permits' = permits + 1
       /\ short' = Short(c.pool)
       /\ Goto(t, "done") /\ Answer(t, "503")
       /\ UNCHANGED <<slot, fd>>
    \/ /\ c.idx # 0
       /\ \E b \in {mark_busy(c.pool, c.idx)}, p \in {c.pool.workers[c.idx].proc} :
          \/ /\ ~CanSend(b, p)
             /\ w' = return_worker(b, c.idx) /\ permits' = permits + 1
             /\ Goto(t, "done") /\ Answer(t, "502")
             /\ UNCHANGED <<slot, fd, short>>
          \/ /\ CanSend(b, p)
             /\ w' = send(b, p, t)
             /\ slot' = [slot EXCEPT ![t] = c.idx] /\ fd' = [fd EXCEPT ![t] = p]
             /\ Goto(t, "read")
             /\ UNCHANGED <<permits, out, short>>

LEMMA ClaimCases ==
    ASSUME Sound(w), NEW t \in Tasks, NamedClaim(t)
    PROVE  \E s : /\ Tried(s) /\ Sound(s) /\ s.mode = w.mode /\ s.maxRequests = w.maxRequests
                  /\ ClaimFrom(s, t)
<1>0. PICK c \in {Claimable(fails) : fails \in MayFail(w)} : ClaimWith(c, t)
  BY Zenon DEF NamedClaim, ClaimWith
<1>1. PICK fails \in MayFail(w) : c = Claimable(fails)
  BY <1>0
<1>2. PICK s : /\ Tried(s) /\ Sound(s) /\ s.mode = w.mode /\ s.maxRequests = w.maxRequests
               /\ Claimable(fails) = [pool |-> PopTo(s, get_idle_worker(s)),
                                      idx |-> IF get_idle_worker(s) = 0 THEN 0
                                              ELSE s.idle_queue[get_idle_worker(s)]]
  BY ClaimableEffect
<1>3. PICK k : k = get_idle_worker(s)
  OBVIOUS
<1>5. c.pool = PopTo(s, k) /\ c.idx = IF k = 0 THEN 0 ELSE s.idle_queue[k]
  BY <1>1, <1>2, <1>3
<1>6. s \in Pool
  BY <1>2 DEF Sound
<1>7. k # 0 => k \in DOMAIN s.idle_queue
  BY <1>3, <1>6, IdleWorker
<1>8. k # 0 => s.idle_queue[k] \in Nat \ {0}
  BY <1>6, <1>7, WorkerOf DEF Procs
<1>9. k \in 0 .. Len(s.idle_queue)
  BY <1>6, <1>7, WorkerOf
<1>10. PopTo(s, k).workers = s.workers
  BY <1>6, <1>9, PopToEffect
<1>11. CASE k = 0
  <2>1. c.idx = 0 /\ c.pool = PopTo(s, 0)
    BY <1>5, <1>11
  <2>2. ClaimFrom(s, t)
    BY <1>0, <1>3, <1>11, <2>1, Zenon DEF ClaimFrom, ClaimWith
  <2>. QED
    BY <1>2, <2>2
<1>12. CASE k # 0
  <2>1. c.idx # 0 /\ c.idx = s.idle_queue[k] /\ c.pool = PopTo(s, k)
    BY <1>5, <1>8, <1>12
  <2>2. ClaimFrom(s, t)
    <3>1. PICK b, p :
            /\ b = mark_busy(PopTo(s, k), s.idle_queue[k]) /\ p = s.workers[s.idle_queue[k]].proc
            /\ \/ /\ ~CanSend(b, p)
                  /\ w' = return_worker(b, s.idle_queue[k]) /\ permits' = permits + 1
                  /\ Goto(t, "done") /\ Answer(t, "502") /\ UNCHANGED <<slot, fd, short>>
               \/ /\ CanSend(b, p)
                  /\ w' = send(b, p, t)
                  /\ slot' = [slot EXCEPT ![t] = s.idle_queue[k]] /\ fd' = [fd EXCEPT ![t] = p]
                  /\ Goto(t, "read") /\ UNCHANGED <<permits, out, short>>
      BY <1>0, <1>10, <2>1, Zenon DEF ClaimWith
    <3>. QED
      BY <1>3, <1>12, <3>1, Zenon DEF ClaimFrom
  <2>. QED
    BY <1>2, <2>2
<1>. QED
  BY <1>11, <1>12

\* The worker a claim has found, b: the pool with it marked.
LEMMA MarkedEffect ==
    ASSUME NEW s, Sound(s), NEW k, k = get_idle_worker(s), k # 0,
           NEW i, i = s.idle_queue[k], NEW b, b = mark_busy(PopTo(s, k), i)
    PROVE  /\ k \in DOMAIN s.idle_queue /\ i \in DOMAIN s.workers /\ i \in Procs
           /\ s.workers[i].state = "Idle" /\ s.workers[i].proc \in Procs
           /\ b \in Pool /\ SameWorkers(s, b) /\ SamePipes(s, b) /\ b.cmds = s.cmds
           /\ b.workers[i].state = "Busy"
           /\ \A j \in DOMAIN s.workers : j # i => b.workers[j] = s.workers[j]
           /\ DOMAIN b.idle_queue = 1 .. k - 1
           /\ \A j \in 1 .. k - 1 : j \in DOMAIN s.idle_queue /\ b.idle_queue[j] = s.idle_queue[j]
<1>1. s \in Pool
  BY DEF Sound
<1>2. k \in DOMAIN s.idle_queue /\ i \in DOMAIN s.workers /\ s.workers[i].state = "Idle"
  BY <1>1, IdleWorker
<1>3. /\ DOMAIN s.idle_queue = 1 .. Len(s.idle_queue) /\ Len(s.idle_queue) \in Nat
      /\ i \in Procs /\ s.workers[i].proc \in Procs
  BY <1>1, <1>2, WorkerOf
<1>4. k \in 0 .. Len(s.idle_queue)
  BY <1>2, <1>3
<1>5. PICK m : m = PopTo(s, k)
  OBVIOUS
<1>6. /\ m \in Pool /\ m.workers = s.workers /\ SameWorkers(s, m) /\ SamePipes(s, m)
      /\ m.cmds = s.cmds /\ DOMAIN m.idle_queue = 1 .. k - 1
      /\ \A j \in 1 .. k - 1 : j \in DOMAIN s.idle_queue /\ m.idle_queue[j] = s.idle_queue[j]
  BY <1>1, <1>4, <1>5, PopToEffect
<1>7. i \in DOMAIN m.workers
  BY <1>2, <1>6
<1>8. /\ b \in Pool /\ SameWorkers(m, b) /\ SamePipes(m, b)
      /\ b.idle_queue = m.idle_queue /\ b.cmds = m.cmds /\ b.workers[i].state = "Busy"
      /\ \A j \in DOMAIN m.workers : j # i => b.workers[j] = m.workers[j]
  BY <1>5, <1>6, <1>7, MarkBusyEffect
<1>9. SameWorkers(s, b)
  BY <1>6, <1>8 DEF SameWorkers
<1>10. SamePipes(s, b)
  BY <1>6, <1>8 DEF SamePipes
<1>. QED
  BY <1>2, <1>3, <1>6, <1>8, <1>9, <1>10

LEMMA ClaimPoolStep ==
    ASSUME NEW t \in Tasks, Sound(w), NamedClaim(t)
    PROVE  PoolStep
<1>1. PICK s : /\ Sound(s) /\ s.mode = w.mode /\ s.maxRequests = w.maxRequests
               /\ ClaimFrom(s, t)
  BY ClaimCases
<1>2. PICK k : k = get_idle_worker(s)
  OBVIOUS
<1>3. s \in Pool
  BY <1>1 DEF Sound
<1>4. CASE k = 0
  <2>1. w' = PopTo(s, 0)
    BY <1>1, <1>2, <1>4, Zenon DEF ClaimFrom
  <2>2. 0 \in 0 .. Len(s.idle_queue)
    BY <1>3, WorkerOf
  <2>3. PopTo(s, 0) \in Pool /\ SameWorkers(s, PopTo(s, 0))
    BY <1>3, <2>2, PopToEffect
  <2>. QED
    BY <1>1, <2>1, <2>3, SameKeepsSound DEF PoolStep, SameWorkers
<1>5. CASE k # 0
  <2>1. PICK i : i = s.idle_queue[k]
    OBVIOUS
  <2>2. PICK b : b = mark_busy(PopTo(s, k), i)
    OBVIOUS
  <2>3. PICK p : p = s.workers[i].proc
    OBVIOUS
  <2>4. /\ i \in DOMAIN s.workers /\ i \in Procs /\ p \in Procs
        /\ b \in Pool /\ SameWorkers(s, b)
    BY <1>1, <1>2, <1>5, <2>1, <2>2, <2>3, MarkedEffect
  <2>5. w' = return_worker(b, i) \/ w' = send(b, p, t)
    BY <1>1, <1>2, <1>5, <2>1, <2>2, <2>3, Zenon DEF ClaimFrom
  <2>6. i \in DOMAIN b.workers
    BY <2>4 DEF SameWorkers
  <2>7. t \in Commands
    BY DEF Commands
  <2>8. return_worker(b, i) \in Pool /\ SameWorkers(b, return_worker(b, i))
    BY <2>4, <2>6, ReturnEffect
  <2>9. send(b, p, t) \in Pool /\ SameBooks(b, send(b, p, t))
    BY <2>4, <2>7, SendEffect
  <2>10. Sound(b)
    BY <1>1, <2>4, SameKeepsSound
  <2>11. /\ Sound(send(b, p, t)) /\ SameWorkers(b, send(b, p, t))
         /\ Sound(return_worker(b, i))
    BY <2>8, <2>9, <2>10, BooksKeepSound, SameKeepsSound
  <2>. QED
    BY <1>1, <2>4, <2>5, <2>8, <2>11 DEF PoolStep, SameWorkers
<1>. QED
  BY <1>4, <1>5

LEMMA BooksPoolStep ==
    ASSUME Sound(w), w' \in Pool, SameBooks(w, w')
    PROVE  PoolStep
BY BooksKeepSound DEF PoolStep, SameWorkers

LEMMA ReturnPoolStep ==
    ASSUME NEW i, Sound(w), w' = return_worker(w, i)
    PROVE  PoolStep
<1>1. w \in Pool
  BY DEF Sound
<1>2. CASE i \notin DOMAIN w.workers
  <2>1. w' = w
    BY <1>2 DEF return_worker
  <2>. QED
    BY <2>1 DEF PoolStep
<1>3. CASE i \in DOMAIN w.workers
  <2>1. i \in Procs
    <3>1. DOMAIN w.workers = 1 .. Len(w.workers) /\ Len(w.workers) \in Nat
      BY <1>1, WorkerOf
    <3>2. Len(w.workers) <= w.forked /\ w.forked \in 0 .. MaxProcs
      BY DEF Sound, Pool
    <3>. QED
      BY <1>3, <3>1, <3>2 DEF Procs
  <2>2. w' \in Pool /\ SameWorkers(w, w')
    BY <1>1, <1>3, <2>1, ReturnEffect
  <2>. QED
    BY <2>2, SameKeepsSound DEF PoolStep, SameWorkers
<1>. QED
  BY <1>2, <1>3

LEMMA ReaperPoolStep ==
    ASSUME Sound(w), NEW fails \in MayFail(w), w' = Reap(Retire(w), fails)
    PROVE  PoolStep
<1>1. w \in Pool /\ fails \in BOOLEAN /\ (fails => w.faults > 0)
  BY DEF Sound, MayFail
<1>2. PICK m : m = Retire(w)
  OBVIOUS
<1>3. m \in Pool /\ SameBooks(w, m) /\ m.faults = w.faults
  BY <1>1, <1>2, RetireEffect
<1>4. Sound(m)
  BY <1>3, BooksKeepSound
<1>5. Refilled(m, w')
  BY <1>1, <1>2, <1>3, <1>4, ReapRefills
<1>6. Sound(w')
  BY <1>4, <1>5, RefilledIsSound
<1>. QED
  BY <1>3, <1>5, <1>6 DEF PoolStep, Refilled, SameBooks

LEMMA LookedSelf ==
    ASSUME NEW s \in Pool
    PROVE  Looked(s, s)
BY DEF Looked

\* The scaler adds one worker.
LEMMA AddPoolStep ==
    ASSUME Sound(w), NEW fails \in MayFail(w), w' = spawn_additional(w, fails)
    PROVE  PoolStep /\ Refilled(w, w')
<1>1. w \in Pool /\ fails \in BOOLEAN /\ (fails => w.faults > 0)
  BY DEF Sound, MayFail
<1>2. Len(w.workers) + 1 \in Nat \ {0}
  BY <1>1, WorkerOf
<1>3. <<Len(w.workers) + 1>> \in Seq(Nat \ {0})
  BY <1>2
<1>4. Refilled(w, w')
  BY <1>1, <1>3, LookedSelf, SpawnRefills DEF spawn_additional
<1>5. Sound(w')
  BY <1>4, RefilledIsSound
<1>. QED
  BY <1>4, <1>5 DEF PoolStep, Refilled

\* A reload forks the workers again after it has ended them.
LEMMA ReloadPoolStep ==
    ASSUME Sound(w), NEW fails \in MayFail(w), w' = spawn_workers(Cleared(w), fails)
    PROVE  PoolStep /\ Refilled(Cleared(w), w')
<1>1. w \in Pool /\ fails \in BOOLEAN /\ (fails => w.faults > 0)
  BY DEF Sound, MayFail
<1>2. PICK m : m = Cleared(w)
  OBVIOUS
<1>3. m \in Pool /\ m.faults = w.faults /\ m.mode = w.mode /\ m.maxRequests = w.maxRequests
  BY <1>1, <1>2, ClearedEffect
<1>4. Sound(m)
  BY <1>2, ClearedIsSound
<1>5. [i \in 1 .. N |-> i] \in [1 .. N -> Nat \ {0}]
  OBVIOUS
<1>6. [i \in 1 .. N |-> i] \in Seq(Nat \ {0})
  BY <1>5, FunSeq
<1>7. Refilled(m, w')
  BY <1>1, <1>2, <1>3, <1>4, <1>6, LookedSelf, SpawnRefills DEF spawn_workers
<1>8. Sound(w')
  BY <1>4, <1>7, RefilledIsSound
<1>9. w'.mode = m.mode /\ w'.maxRequests = m.maxRequests
  BY <1>7 DEF Refilled
<1>. QED
  BY <1>2, <1>3, <1>7, <1>8, <1>9 DEF PoolStep

\* The pool after startup.
LEMMA StartedEffect ==
    ASSUME NEW c, c.mode \in {"process", "thread"}, c.maxRequests \in Nat, c.faults \in Nat,
           NEW s, s = Started(c)
    PROVE  /\ s \in Pool /\ s.mode = c.mode /\ s.maxRequests = c.maxRequests /\ s.forked = N
           /\ Len(s.workers) = N /\ DOMAIN s.workers = 1 .. N
           /\ \A i \in 1 .. N : s.workers[i].proc = i /\ s.workers[i].state = "Idle"
           /\ DOMAIN s.idle_queue = 1 .. N /\ \A i \in 1 .. N : s.idle_queue[i] = i
           /\ s.life = [p \in Procs |-> IF p <= N THEN "up" ELSE "none"]
           /\ s.cmds = [p \in Procs |-> <<>>] /\ s.resps = [p \in Procs |-> <<>>]
           /\ s.closed = {}
<1>1. PICK e : e = EmptyPool(c.mode, c.maxRequests, c.faults)
  OBVIOUS
<1>2. <<>> \in Seq(Worker) /\ <<>> \in Seq(Procs) /\ <<>> \in Seq(Commands) /\ <<>> \in Seq(Responses)
  BY EmptySeq
<1>3. PICK l \in [Procs -> Lives] : l = [p \in Procs |-> "none"]
  BY DEF Lives
<1>4. PICK cm \in [Procs -> Seq(Commands)] : cm = [p \in Procs |-> <<>>]
  BY <1>2
<1>5. PICK rs \in [Procs -> Seq(Responses)] : rs = [p \in Procs |-> <<>>]
  BY <1>2
<1>6. e = [mode |-> c.mode, maxRequests |-> c.maxRequests, faults |-> c.faults,
           workers |-> <<>>, idle_queue |-> <<>>, forked |-> 0, life |-> l, term |-> {},
           cmds |-> cm, resps |-> rs, closed |-> {}]
  BY <1>1, <1>3, <1>4, <1>5 DEF EmptyPool
<1>7. /\ e \in Pool /\ e.mode = c.mode /\ e.maxRequests = c.maxRequests /\ e.workers = <<>>
      /\ e.idle_queue = <<>> /\ e.forked = 0 /\ e.cmds = cm /\ e.resps = rs /\ e.closed = {}
  BY <1>2, <1>6 DEF Pool
<1>8. PICK ix : ix = [i \in 1 .. N |-> i]
  OBVIOUS
<1>9. ix \in [1 .. N -> Nat \ {0}]
  BY <1>8
<1>10. ix \in Seq(Nat \ {0}) /\ Len(ix) = N
  BY <1>9, FunSeq
<1>11. Len(e.workers) = 0 /\ Len(e.idle_queue) = 0
  BY <1>7, EmptySeq
<1>12. Forks(e, Len(ix), FALSE) = N
  BY <1>7, <1>10 DEF Forks
<1>13. PICK m : m = spawn(e, ix, FALSE)
  OBVIOUS
<1>14. Spawned(e, m, N)
  <2>1. Len(e.workers) <= e.forked
    BY <1>7, <1>11
  <2>. QED
    BY <1>7, <1>10, <1>12, <1>13, <2>1, SpawnEffect
<1>15. /\ m \in Pool /\ m.forked = 0 + N /\ m.mode = c.mode /\ m.maxRequests = c.maxRequests
       /\ m.cmds = cm /\ m.resps = rs /\ m.closed = {} /\ Len(m.workers) = 0 + N
       /\ Len(m.idle_queue) = 0 + N
       /\ \A j \in 1 .. N : m.workers[0 + j].proc = 0 + j /\ m.workers[0 + j].state = "Idle"
       /\ \A j \in 1 .. N : m.idle_queue[0 + j] = 0 + j
  BY <1>7, <1>11, <1>14 DEF Spawned
<1>16. \A j \in 1 .. N : 0 + j = j /\ 0 + N = N
  OBVIOUS
<1>17. /\ m.forked = N /\ Len(m.workers) = N /\ Len(m.idle_queue) = N
       /\ \A j \in 1 .. N : m.workers[j].proc = j /\ m.workers[j].state = "Idle"
       /\ \A j \in 1 .. N : m.idle_queue[j] = j
  BY <1>15, <1>16
<1>18. PICK u \in [Procs -> Lives] : u = [p \in Procs |-> IF p <= N THEN "up" ELSE "none"]
  BY DEF Lives
<1>19. s = [m EXCEPT !.life = u]
  BY <1>1, <1>8, <1>13, <1>18 DEF Started, spawn_workers
<1>20. /\ s \in Pool /\ s.mode = m.mode /\ s.maxRequests = m.maxRequests /\ s.forked = m.forked
       /\ s.workers = m.workers /\ s.idle_queue = m.idle_queue /\ s.life = u
       /\ s.cmds = m.cmds /\ s.resps = m.resps /\ s.closed = m.closed
  BY <1>15, <1>19 DEF Pool
<1>21. DOMAIN m.workers = 1 .. N /\ DOMAIN m.idle_queue = 1 .. N
  BY <1>15, <1>17, WorkerOf
<1>. QED
  BY <1>4, <1>5, <1>15, <1>17, <1>18, <1>20, <1>21

\* What Init says of w, without Started.
LEMMA InitPool ==
    ASSUME Init
    PROVE  /\ conf \in Conf /\ w \in Pool /\ Sound(w) /\ w.mode = conf.mode /\ w.forked = N
           /\ conf.route = "default" => conf.mode = "process"
           /\ conf.autoScale => conf.route = "default"
           /\ Len(w.workers) = N /\ DOMAIN w.workers = 1 .. N
           /\ \A i \in 1 .. N : w.workers[i].proc = i /\ w.workers[i].state = "Idle"
           /\ DOMAIN w.idle_queue = 1 .. N /\ \A i \in 1 .. N : w.idle_queue[i] = i
           /\ \A p \in 1 .. N : w.life[p] = "up"
           /\ \A p \in Procs : w.cmds[p] = <<>> /\ w.resps[p] = <<>>
           /\ w.closed = {} /\ worker_fds(w) = [i \in 1 .. N |-> i]
<1>1. /\ conf \in Conf /\ (conf.route = "default" => conf.mode = "process")
      /\ (conf.autoScale => conf.route = "default") /\ w = Started(conf)
  BY ConfigurationsAssumption DEF Init, Conf
<1>2. conf.mode \in {"process", "thread"} /\ conf.maxRequests \in Nat /\ conf.faults \in Nat
  BY <1>1 DEF Conf
<1>3. /\ w \in Pool /\ w.mode = conf.mode /\ w.forked = N
      /\ Len(w.workers) = N /\ DOMAIN w.workers = 1 .. N
      /\ \A i \in 1 .. N : w.workers[i].proc = i /\ w.workers[i].state = "Idle"
      /\ DOMAIN w.idle_queue = 1 .. N /\ \A i \in 1 .. N : w.idle_queue[i] = i
      /\ w.life = [p \in Procs |-> IF p <= N THEN "up" ELSE "none"]
      /\ w.cmds = [p \in Procs |-> <<>>] /\ w.resps = [p \in Procs |-> <<>>]
      /\ w.closed = {}
  BY <1>1, <1>2, StartedEffect
<1>4. \A p \in 1 .. N : p \in Procs /\ p <= N
  BY DEF Procs
<1>5. worker_fds(w) = [i \in 1 .. N |-> i]
  BY <1>3 DEF worker_fds
<1>6. Sound(w)
  BY <1>3 DEF Sound
<1>. QED
  BY <1>1, <1>3, <1>4, <1>5, <1>6

LEMMA InitTypes ==
    ASSUME Init
    PROVE  Types
<1>1. Sound(w) /\ conf \in Conf /\ w.mode = conf.mode /\ (conf.route = "default" => conf.mode = "process")
      /\ (conf.autoScale => conf.route = "default") /\ worker_fds(w) = [i \in 1 .. N |-> i]
  BY InitPool
<1>2. ConfOK
  BY <1>1 DEF Init, ConfOK
<1>3. TaskOK
  BY DEF Init, TaskOK, Labels, None, User, Named
<1>4. BackOK
  BY EmptySeq DEF Init, BackOK
<1>5. td \in Dispatch
  <2>1. [i \in 1 .. N |-> i] \in [1 .. N -> 1 .. N] /\ [i \in 1 .. N |-> i] \in [1 .. N -> Procs]
    BY DEF Procs
  <2>2. PICK q : q = [i \in 1 .. N |-> i]
    OBVIOUS
  <2>3. q \in Seq(1 .. N) /\ q \in Seq(Procs)
    BY <2>1, <2>2, FunSeq
  <2>4. PICK a \in [1 .. N -> BOOLEAN] : a = [i \in 1 .. N |-> FALSE]
    OBVIOUS
  <2>5. PICK b \in [1 .. N -> Nat] : b = [i \in 1 .. N |-> 0]
    OBVIOUS
  <2>6. td = [permits |-> N, idle |-> q, fds |-> q, unhealthy |-> a, served |-> b]
    BY <1>1, <2>2, <2>4, <2>5 DEF Init
  <2>. QED
    BY <2>3, <2>6 DEF Dispatch
<1>. QED
  BY <1>1, <1>2, <1>3, <1>4, <1>5 DEF Types

\* Steps of the handlers' pipes and of the workers change nothing that the
\* pool keeps.
BooksStep == w' \in Pool /\ SameBooks(w, w') /\ w'.closed = w.closed

LEMMA EndsType ==
    ASSUME w \in Pool, NEW p \in Procs, NEW i, NEW q \in Ends(p, i)
    PROVE  q \in Procs
BY WorkerOf DEF Ends

LEMMA SendBooks ==
    ASSUME Types, NEW t \in Tasks, DefaultSend(t)
    PROVE  BooksStep
<1>1. w \in Pool /\ td.fds \in Seq(Procs) /\ t \in Commands
  BY DEF Types, Sound, Dispatch, Commands
<1>2. PICK i : i = slot[t]
  OBVIOUS
<1>3. PICK p : p = td.fds[i]
  OBVIOUS
<1>4. \/ UNCHANGED w
      \/ i \in DOMAIN td.fds /\ \E q \in Ends(p, i) : w' = send(w, q, t)
  BY <1>2, <1>3 DEF DefaultSend
<1>5. CASE UNCHANGED w
  BY <1>1, <1>5 DEF BooksStep, SameBooks
<1>6. CASE i \in DOMAIN td.fds /\ \E q \in Ends(p, i) : w' = send(w, q, t)
  <2>1. p \in Procs
    BY <1>1, <1>3, <1>6, ElementOfSeq, LenProperties
  <2>2. PICK q \in Ends(p, i) : w' = send(w, q, t)
    BY <1>6
  <2>3. q \in Procs
    BY <1>1, <2>1, EndsType
  <2>4. send(w, q, t) \in Pool /\ SameBooks(w, send(w, q, t)) /\ send(w, q, t).closed = w.closed
    BY <1>1, <2>3, SendEffect
  <2>. QED
    BY <2>2, <2>4 DEF BooksStep
<1>. QED
  BY <1>4, <1>5, <1>6

LEMMA KillBooks ==
    ASSUME Types, NEW t \in Tasks, DefaultKill(t)
    PROVE  BooksStep
<1>1. w \in Pool /\ fd[t] \in Procs /\ pid[t] \in Procs /\ "Shutdown" \in Commands
  BY DEF Types, Sound, TaskOK, DefaultKill, Commands
<1>2. PICK q \in Ends(fd[t], slot[t]) : w' = Killed(send(w, q, "Shutdown"), pid[t])
  BY DEF DefaultKill
<1>3. q \in Procs
  BY <1>1, <1>2, EndsType
<1>4. PICK m : m = send(w, q, "Shutdown")
  OBVIOUS
<1>5. m \in Pool /\ SameBooks(w, m) /\ m.closed = w.closed
  BY <1>1, <1>3, <1>4, SendEffect
<1>6. w' \in Pool /\ SameBooks(m, w') /\ w'.closed = m.closed
  BY <1>1, <1>2, <1>4, <1>5, KilledEffect
<1>. QED
  BY <1>5, <1>6 DEF BooksStep, SameBooks

LEMMA ReadBooks ==
    ASSUME Types, NEW t \in Tasks, NamedRead(t) \/ DefaultRead(t) \/ DefaultLeave(t)
    PROVE  BooksStep
<1>1. w \in Pool
  BY DEF Types, Sound
<1>2. CASE UNCHANGED w
  BY <1>1, <1>2 DEF BooksStep, SameBooks
<1>3. CASE pc[t] = "read" /\ w' = Buffered(w, fd[t])
  <2>1. fd[t] \in Procs
    BY <1>3 DEF Types, TaskOK, User
  <2>. QED
    BY <1>1, <1>3, <2>1, BufferedEffect DEF BooksStep
<1>. QED
  BY <1>2, <1>3 DEF NamedRead, DefaultRead, DefaultLeave

LEMMA WorkerBooks ==
    ASSUME Types, NEW p \in Procs, WorkerLoop(p) \/ BootFails(p) \/ Crash(p)
    PROVE  BooksStep
<1>1. w \in Pool
  BY DEF Types, Sound
<1>2. CASE BootFails(p)
  <2>1. w' = [Exit(w, p) EXCEPT !.faults = @ - 1] /\ w.faults > 0
    BY <1>2 DEF BootFails, WorkerStep
  <2>2. PICK e : e = Exit(w, p)
    OBVIOUS
  <2>3. e \in Pool /\ SameBooks(w, e) /\ e.faults = w.faults /\ e.closed = w.closed
    BY <1>1, <2>2, ExitEffect
  <2>4. e.faults - 1 \in Nat
    BY <2>1, <2>3 DEF Pool
  <2>5. w' = [e EXCEPT !.faults = e.faults - 1]
    BY <2>1, <2>2
  <2>. QED
    BY <2>3, <2>4, <2>5 DEF Pool, SameBooks, BooksStep
<1>3. CASE w' = Exit(w, p)
  BY <1>1, <1>3, ExitEffect DEF BooksStep
<1>4. CASE w' = boots(w, p)
  BY <1>1, <1>4, BootsEffect DEF BooksStep
<1>5. CASE w.cmds[p] # <<>> /\ w' = runs(w, p)
  BY <1>1, <1>5, RunsEffect DEF BooksStep
<1>. QED
  BY <1>2, <1>3, <1>4, <1>5 DEF WorkerLoop, Boot, Run, TermDies, Crash, WorkerStep

\* Every step leaves a pool behind.
LEMMA NextPool ==
    ASSUME Types, [Next]_vars
    PROVE  PoolStep
<1>1. Sound(w) /\ w \in Pool
  BY DEF Types, Sound
<1>2. CASE UNCHANGED w
  BY <1>1, <1>2 DEF PoolStep
<1>3. CASE BooksStep
  BY <1>1, <1>3, BooksPoolStep DEF BooksStep
<1>4. ASSUME NEW t \in Tasks, NamedClaim(t) \/ NamedReturn(t)
      PROVE  PoolStep
  <2>1. CASE NamedClaim(t)
    BY <1>1, <2>1, ClaimPoolStep
  <2>2. CASE NamedReturn(t)
    BY <1>1, <2>2, ReturnPoolStep DEF NamedReturn
  <2>. QED
    BY <1>4, <2>1, <2>2
<1>5. CASE ReaperTick
  BY <1>1, <1>5, ReaperPoolStep DEF ReaperTick
<1>6. CASE ScalerUp
  BY <1>1, <1>6, AddPoolStep DEF ScalerUp
<1>7. CASE ScalerDown
  BY <1>1, <1>7, ShrinkEffect, SameKeepsSound DEF ScalerDown, PoolStep, SameWorkers
<1>8. CASE WatcherReload
  BY <1>1, <1>8, TerminatedEffect, SameKeepsSound DEF WatcherReload, PoolStep, SameWorkers
<1>9. CASE DrainWorkers
  BY <1>1, <1>9, TerminatedEffect, SameKeepsSound DEF DrainWorkers, PoolStep, SameWorkers
<1>13. CASE WatcherRespawn
  BY <1>1, <1>13, ReloadPoolStep DEF WatcherRespawn
<1>14. CASE WorkersDrained
  BY <1>1, <1>14, ClearedIsSound, ClearedEffect DEF WorkersDrained, PoolStep
<1>10. ASSUME NEW t \in Tasks, Handler(t) \/ Unforced(t)
       PROVE  PoolStep
  <2>1. CASE DefaultSend(t)
    BY <1>3, <2>1, SendBooks
  <2>2. CASE NamedRead(t) \/ DefaultRead(t) \/ DefaultLeave(t)
    BY <1>3, <2>2, ReadBooks
  <2>4. CASE DefaultKill(t)
    BY <1>3, <2>4, KillBooks
  <2>3. CASE NamedAcquire(t) \/ NamedTimeout(t) \/ get_idle(t) \/ get_idleNone(t)
               \/ NamedLeave(t) \/ ClosedUnder(t)
    BY <1>2, <2>3 DEF NamedAcquire, NamedTimeout, get_idle, get_idleNone, NamedLeave, ClosedUnder
  <2>. QED
    BY <1>4, <1>10, <2>1, <2>2, <2>3, <2>4 DEF Handler, Unforced
<1>11. CASE \E p \in Procs : WorkerLoop(p) \/ BootFails(p) \/ Crash(p)
  BY <1>3, <1>11, WorkerBooks
<1>12. CASE refresh_fds \/ ScalerCheck \/ StopSignal \/ DrainConnections \/ Quiet \/ UNCHANGED vars
  BY <1>2, <1>12 DEF refresh_fds, ScalerCheck, StopSignal, DrainConnections, Quiet, vars
<1>. QED
  BY <1>5, <1>6, <1>7, <1>8, <1>9, <1>10, <1>11, <1>12, <1>13, <1>14
     DEF Next, Background, Draining

\* The dispatch of the default pool stays one.
LEMMA DispatchFields ==
    ASSUME td \in Dispatch
    PROVE  /\ td.permits \in Nat /\ td.idle \in Seq(1 .. N) /\ Len(td.idle) \in Nat
           /\ td.fds \in Seq(Procs) /\ Len(td.fds) \in Nat
           /\ DOMAIN td.idle = 1 .. Len(td.idle) /\ DOMAIN td.fds = 1 .. Len(td.fds)
           /\ td.unhealthy \in [1 .. N -> BOOLEAN] /\ td.served \in [1 .. N -> Nat]
           /\ \A k \in DOMAIN td.idle : td.idle[k] \in 1 .. N
           /\ \A k \in DOMAIN td.fds : td.fds[k] \in Procs
<1>1. /\ td.permits \in Nat /\ td.idle \in Seq(1 .. N) /\ td.fds \in Seq(Procs)
      /\ td.unhealthy \in [1 .. N -> BOOLEAN] /\ td.served \in [1 .. N -> Nat]
  BY DEF Dispatch
<1>2. PICK a \in Seq(1 .. N) : a = td.idle
  BY <1>1
<1>3. PICK b \in Seq(Procs) : b = td.fds
  BY <1>1
<1>4. Len(a) \in Nat /\ DOMAIN a = 1 .. Len(a) /\ \A k \in DOMAIN a : a[k] \in 1 .. N
  BY <1>2, LenProperties, ElementOfSeq
<1>5. Len(b) \in Nat /\ DOMAIN b = 1 .. Len(b) /\ \A k \in DOMAIN b : b[k] \in Procs
  BY <1>3, LenProperties, ElementOfSeq
<1>. QED
  BY <1>1, <1>2, <1>3, <1>4, <1>5

LEMMA ReturnedEffect ==
    ASSUME td \in Dispatch, NEW i \in 1 .. N
    PROVE  /\ Returned(i) \in Dispatch /\ Returned(i).idle = Append(td.idle, i)
           /\ Returned(i).permits = td.permits + 1 /\ Returned(i).fds = td.fds
           /\ Returned(i).unhealthy = td.unhealthy /\ Returned(i).served = td.served
<1>1. td.idle \in Seq(1 .. N) /\ td.permits + 1 \in Nat
  BY DispatchFields
<1>2. PICK q \in Seq(1 .. N) : q = Append(td.idle, i)
  BY <1>1, AppendProperties
<1>3. PICK n \in Nat : n = td.permits + 1
  BY <1>1
<1>4. PICK r : r = Returned(i)
  OBVIOUS
<1>5. r = [td EXCEPT !.idle = q, !.permits = n]
  BY <1>2, <1>3, <1>4 DEF Returned
<1>6. r \in Dispatch /\ r.idle = q /\ r.permits = n /\ r.fds = td.fds
      /\ r.unhealthy = td.unhealthy /\ r.served = td.served
  BY <1>5 DEF Dispatch
<1>. QED
  BY <1>2, <1>3, <1>4, <1>6

LEMMA PoisonedEffect ==
    ASSUME td \in Dispatch, NEW i \in 1 .. N
    PROVE  /\ Poisoned(i) \in Dispatch /\ Poisoned(i).idle = td.idle
           /\ Poisoned(i).permits = td.permits /\ Poisoned(i).fds = td.fds
           /\ Poisoned(i).unhealthy = [td.unhealthy EXCEPT ![i] = TRUE]
           /\ Poisoned(i).served = td.served
<1>1. td.unhealthy \in [1 .. N -> BOOLEAN]
  BY DispatchFields
<1>2. PICK u \in [1 .. N -> BOOLEAN] : u = [td.unhealthy EXCEPT ![i] = TRUE]
  BY <1>1
<1>3. PICK r : r = Poisoned(i)
  OBVIOUS
<1>4. r = [td EXCEPT !.unhealthy = u]
  BY <1>2, <1>3 DEF Poisoned
<1>5. r \in Dispatch /\ r.idle = td.idle /\ r.permits = td.permits /\ r.fds = td.fds
      /\ r.unhealthy = u /\ r.served = td.served
  BY <1>4 DEF Dispatch
<1>. QED
  BY <1>2, <1>3, <1>5

LEMMA ServedEffect ==
    ASSUME td \in Dispatch, NEW i \in 1 .. N
    PROVE  LET r == [Returned(i) EXCEPT !.served[i] = @ + 1]
           IN  /\ r \in Dispatch /\ r.idle = Append(td.idle, i) /\ r.fds = td.fds
               /\ r.unhealthy = td.unhealthy
<1>1. PICK m : m = Returned(i)
  OBVIOUS
<1>2. m \in Dispatch /\ m.idle = Append(td.idle, i) /\ m.fds = td.fds /\ m.unhealthy = td.unhealthy
  BY <1>1, ReturnedEffect
<1>3. PICK d \in [1 .. N -> Nat] : d = m.served
  BY <1>2 DEF Dispatch
<1>4. PICK v \in [1 .. N -> Nat] : v = [d EXCEPT ![i] = @ + 1]
  <2>1. d[i] + 1 \in Nat
    BY <1>3
  <2>. QED
    BY <1>3, <2>1
<1>5. PICK r : r = [Returned(i) EXCEPT !.served[i] = @ + 1]
  OBVIOUS
<1>6. r = [m EXCEPT !.served = v]
  BY <1>1, <1>3, <1>4, <1>5
<1>7. r \in Dispatch /\ r.idle = m.idle /\ r.fds = m.fds /\ r.unhealthy = m.unhealthy
  BY <1>2, <1>6 DEF Dispatch
<1>. QED
  BY <1>2, <1>5, <1>7

\* get_idle takes the index at the back of the queue.
LEMMA PoppedEffect ==
    ASSUME td \in Dispatch, td.permits > 0, td.idle # <<>>
    PROVE  LET r == [td EXCEPT !.permits = @ - 1, !.idle = SubSeq(@, 1, Len(@) - 1)]
               n == Len(td.idle)
           IN  /\ r \in Dispatch /\ r.fds = td.fds /\ r.unhealthy = td.unhealthy
               /\ r.served = td.served
               /\ n \in Nat \ {0} /\ n \in DOMAIN td.idle /\ td.idle[n] \in 1 .. N
               /\ DOMAIN r.idle = 1 .. n - 1
               /\ \A k \in 1 .. n - 1 : k \in DOMAIN td.idle /\ r.idle[k] = td.idle[k]
<1>1. PICK a \in Seq(1 .. N) : a = td.idle
  BY DispatchFields
<1>2. PICK n : n = Len(a)
  OBVIOUS
<1>3. n \in Nat \ {0} /\ DOMAIN a = 1 .. n /\ \A k \in 1 .. n : a[k] \in 1 .. N
  BY <1>1, <1>2, LenProperties, EmptySeq, ElementOfSeq
<1>4. n - 1 \in 0 .. Len(a)
  BY <1>2, <1>3
<1>5. PICK b : b = SubSeq(a, 1, n - 1)
  OBVIOUS
<1>6. b \in Seq(1 .. N) /\ Len(b) = n - 1 /\ \A k \in 1 .. n - 1 : b[k] = a[k]
  BY <1>4, <1>5, Prefix
<1>7. DOMAIN b = 1 .. n - 1
  BY <1>6, LenProperties
<1>8. PICK m \in Nat : m = td.permits - 1
  BY DispatchFields
<1>9. PICK r : r = [td EXCEPT !.permits = @ - 1, !.idle = SubSeq(@, 1, Len(@) - 1)]
  OBVIOUS
<1>10. r = [td EXCEPT !.permits = m, !.idle = b]
  BY <1>1, <1>2, <1>5, <1>8, <1>9
<1>11. /\ r \in Dispatch /\ r.idle = b /\ r.fds = td.fds /\ r.unhealthy = td.unhealthy
       /\ r.served = td.served
  BY <1>6, <1>10 DEF Dispatch
<1>12. \A k \in 1 .. n - 1 : k \in DOMAIN a
  BY <1>3
<1>13. n \in DOMAIN a /\ a[n] \in 1 .. N
  BY <1>3
<1>. QED
  BY <1>1, <1>2, <1>3, <1>6, <1>7, <1>9, <1>11, <1>12, <1>13

\* refresh_fds queues a slot again that was flagged or exhausted and is not
\* queued, each one once; while the copy of the pipe ends covers all slots it
\* queues nothing else.
Requeued(b) ==
    /\ td'.idle \in Seq(1 .. N)
    /\ \A k \in DOMAIN td.idle : k \in DOMAIN td'.idle /\ td'.idle[k] = td.idle[k]
    /\ \A k \in DOMAIN td'.idle \ DOMAIN td.idle :
          td'.idle[k] \in b /\ \A l \in DOMAIN td.idle : td.idle[l] # td'.idle[k]
    /\ \A k, l \in DOMAIN td'.idle \ DOMAIN td.idle : td'.idle[k] = td'.idle[l] => k = l

LEMMA RefreshEffect ==
    ASSUME td \in Dispatch, fds \in Seq(Procs), refresh_fds
    PROVE  /\ td' \in Dispatch /\ td'.fds = fds
           /\ td'.unhealthy = [i \in 1 .. N |-> i > Len(fds) /\ td.unhealthy[i]]
           /\ Len(td.fds) >= N => Requeued({i \in 1 .. N : td.unhealthy[i] \/ OverQuota(i)})
<1> DEFINE prev_len == Len(td.fds)
           new_len  == Len(fds)
           back     == {i \in 1 .. Cap(new_len) : i <= prev_len /\ (td.unhealthy[i] \/ OverQuota(i))}
           again    == {i \in back : \A k \in DOMAIN td.idle : td.idle[k] # i}
           grown    == IF new_len > prev_len /\ Cap(new_len) > prev_len
                       THEN [j \in 1 .. Cap(new_len) - prev_len |-> prev_len + j] ELSE <<>>
<1>1. /\ td' = [permits |-> td.permits + Cardinality(back) + Len(grown),
                idle |-> td.idle \o Ascending(again) \o grown,
                fds |-> fds,
                unhealthy |-> [i \in 1 .. N |-> i > new_len /\ td.unhealthy[i]],
                served |-> [i \in 1 .. N |-> IF i <= new_len THEN 0 ELSE td.served[i]]]
  BY DEF refresh_fds
<1>2. /\ td.permits \in Nat /\ td.idle \in Seq(1 .. N) /\ prev_len \in Nat
      /\ td.unhealthy \in [1 .. N -> BOOLEAN] /\ td.served \in [1 .. N -> Nat]
      /\ Len(td.idle) \in Nat /\ DOMAIN td.idle = 1 .. Len(td.idle)
  BY DispatchFields
<1>3. new_len \in Nat
  BY LenProperties
<1>4. Cap(new_len) \in 0 .. N /\ Cap(new_len) \in Nat
  BY <1>3 DEF Cap
<1>5. /\ back \in SUBSET (1 .. N) /\ again \in SUBSET (1 .. N)
      /\ back \in SUBSET Nat /\ again \in SUBSET Nat
  BY <1>4
<1>6. IsFiniteSet(back) /\ IsFiniteSet(again)
  <2>1. IsFiniteSet(1 .. N)
    BY FS_Interval
  <2>. QED
    BY <1>5, <2>1, FS_Subset
<1>7. Cardinality(back) \in Nat
  BY <1>6, FS_CardinalityType
<1>8. grown \in Seq(1 .. N) /\ Len(grown) \in Nat /\ (prev_len >= N => grown = <<>>)
  <2>1. CASE new_len > prev_len /\ Cap(new_len) > prev_len
    <3>1. PICK n \in Nat : n = Cap(new_len) - prev_len
      BY <1>2, <1>4, <2>1
    <3>2. PICK g : g = [j \in 1 .. n |-> prev_len + j]
      OBVIOUS
    <3>3. \A j \in 1 .. n : prev_len + j \in 1 .. N
      <4>1. \A a, b, c \in Nat : a = b - c /\ b <= N => \A j \in 1 .. a : c + j \in 1 .. N
        OBVIOUS
      <4>2. PICK b \in Nat : b = Cap(new_len) /\ b <= N
        BY <1>4
      <4>3. PICK c \in Nat : c = prev_len
        BY <1>2
      <4>. QED
        BY <3>1, <4>1, <4>2, <4>3
    <3>4. g \in [1 .. n -> 1 .. N]
      BY <3>2, <3>3
    <3>5. g \in Seq(1 .. N) /\ Len(g) = n
      BY <3>4, FunSeq
    <3>6. grown = g
      BY <2>1, <3>1, <3>2
    <3>7. ~(prev_len >= N)
      BY <1>2, <1>4, <2>1
    <3>. QED
      BY <3>5, <3>6, <3>7
  <2>2. CASE ~(new_len > prev_len /\ Cap(new_len) > prev_len)
    <3>1. grown = <<>>
      BY <2>2
    <3>. QED
      BY <3>1, EmptySeq
  <2>. QED
    BY <2>1, <2>2
<1>9. PICK a : a = Ascending(again)
  OBVIOUS
<1>10. PICK m \in Nat : m = Cardinality(again)
  BY <1>6, FS_CardinalityType
<1>11. /\ a \in Seq(again) /\ Len(a) = m
       /\ \A k, l \in 1 .. m : a[k] = a[l] => k = l
  BY <1>5, <1>6, <1>9, <1>10, AscendingLists
<1>12. \A k \in 1 .. m : a[k] \in again
  BY <1>11, ElementOfSeq
<1>13. PICK g \in Seq(1 .. N) : g = grown
  BY <1>8
<1>14. PICK b \in Nat : b = td.permits + Cardinality(back) + Len(grown)
  <2>1. \A x, y, c \in Nat : x + y + c \in Nat
    OBVIOUS
  <2>. QED
    BY <1>2, <1>7, <1>8, <2>1, Zenon
<1>15. PICK S \in SUBSET (1 .. N) : S = again
  BY <1>5
<1>16. PICK bk \in SUBSET (1 .. N) :
         bk = {i \in 1 .. N : td.unhealthy[i] \/ OverQuota(i)}
  OBVIOUS
<1>17. S \subseteq bk /\ \A i \in S : \A k \in DOMAIN td.idle : td.idle[k] # i
  BY <1>4, <1>15, <1>16
<1> HIDE DEF back, again, grown
<1>18. PICK u \in [1 .. N -> BOOLEAN] : u = [i \in 1 .. N |-> i > new_len /\ td.unhealthy[i]]
  BY <1>2
<1>19. PICK v \in [1 .. N -> Nat] : v = [i \in 1 .. N |-> IF i <= new_len THEN 0 ELSE td.served[i]]
  BY <1>2
<1>20. PICK q : q = td.idle \o a
  OBVIOUS
<1>21. PICK z : z = q \o g
  OBVIOUS
<1>22. td' = [permits |-> b, idle |-> z, fds |-> fds, unhealthy |-> u, served |-> v]
  BY <1>1, <1>9, <1>13, <1>14, <1>18, <1>19, <1>20, <1>21
<1>23. a \in Seq(1 .. N)
  BY <1>11, <1>15, SeqMonotonic
<1>24. PICK i0 \in Seq(1 .. N) : i0 = td.idle
  BY <1>2
<1>25. PICK n \in Nat : n = Len(i0) /\ DOMAIN i0 = 1 .. n
  BY <1>2, <1>24
<1>26. /\ q \in Seq(1 .. N) /\ Len(q) = n + m /\ DOMAIN q = 1 .. n + m
       /\ \A i \in 1 .. n : q[i] = i0[i]
       /\ \A i \in 1 .. m : q[n + i] = a[i]
  <2>1. PICK c \in Seq(1 .. N) : c = a
    BY <1>23
  <2>2. q = i0 \o c /\ Len(i0) = n /\ Len(c) = m
    BY <1>11, <1>20, <1>24, <1>25, <2>1
  <2>3. /\ q \in Seq(1 .. N) /\ Len(q) = Len(i0) + Len(c)
        /\ DOMAIN q = 1 .. Len(i0) + Len(c)
        /\ \A i \in 1 .. Len(i0) : q[i] = i0[i]
        /\ \A i \in 1 .. Len(c) : q[Len(i0) + i] = c[i]
    <3>1. q = i0 \o c /\ i0 \in Seq(1 .. N) /\ c \in Seq(1 .. N)
      BY <1>24, <2>1, <2>2
    <3>2. q \in Seq(1 .. N) /\ Len(q) = Len(i0) + Len(c) /\ DOMAIN q = 1 .. Len(i0) + Len(c)
      BY <3>1, Row
    <3>3. \A i \in 1 .. Len(i0) : q[i] = i0[i]
      BY <3>1, Row
    <3>4. \A i \in 1 .. Len(c) : q[Len(i0) + i] = c[i]
      BY <3>1, Row
    <3>. QED
      BY <3>2, <3>3, <3>4
  <2>. QED
    BY <2>1, <2>2, <2>3, Zenon
<1>27. z \in Seq(1 .. N)
  BY <1>21, <1>26, Row
<1>28. td' \in Dispatch /\ td'.fds = fds /\ td'.unhealthy = u /\ td'.idle = z
  BY <1>22, <1>27 DEF Dispatch
<1>29. ASSUME prev_len >= N
       PROVE  Requeued(bk)
  <2>1. g = <<>>
    BY <1>8, <1>13, <1>29
  <2>2. z = q
    BY <1>21, <1>26, <2>1, ConcatEmptySeq
  <2>3. \A k \in DOMAIN i0 : k \in DOMAIN q /\ q[k] = i0[k]
    BY <1>25, <1>26
  <2>4. ASSUME NEW k \in DOMAIN q \ DOMAIN i0
        PROVE  k \in Int /\ k - n \in 1 .. m /\ q[k] = a[k - n]
    <3>1. k \in Int /\ k - n \in 1 .. m /\ k = n + (k - n)
      <4>1. n \in Nat /\ m \in Nat /\ k \in 1 .. n + m /\ k \notin 1 .. n
        BY <1>25, <1>26
      <4>. QED
        BY <4>1, Behind
    <3>. QED
      BY <1>26, <3>1
  <2>5. ASSUME NEW k \in DOMAIN q \ DOMAIN i0
        PROVE  q[k] \in bk /\ \A l \in DOMAIN i0 : i0[l] # q[k]
    <3>1. q[k] \in S
      BY <1>12, <1>15, <2>4
    <3>. QED
      BY <1>17, <1>24, <3>1
  <2>6. ASSUME NEW k \in DOMAIN q \ DOMAIN i0, NEW l \in DOMAIN q \ DOMAIN i0, q[k] = q[l]
        PROVE  k = l
    <3>1. k - n = l - n
      BY <1>11, <2>4, <2>6
    <3>2. k \in Int /\ l \in Int
      BY <2>4
    <3>. QED
      BY <3>1, <3>2
  <2>. QED
    BY <1>24, <1>26, <1>28, <2>2, <2>3, <2>5, <2>6 DEF Requeued
<1>. QED
  BY <1>16, <1>18, <1>28, <1>29

LEMMA NextDispatch ==
    ASSUME Types, [Next]_vars
    PROVE  td' \in Dispatch
<1>1. td \in Dispatch /\ fds \in Seq(Procs)
  BY DEF Types, BackOK
<1>2. CASE UNCHANGED td
  BY <1>1, <1>2
<1>3. ASSUME NEW t \in Tasks, Handler(t) \/ Unforced(t)
      PROVE  td' \in Dispatch
  <2>1. CASE ~Named /\ pc[t] \in {"claim", "read"}
               /\ \/ td' = Returned(slot[t]) \/ td' = Poisoned(slot[t])
                  \/ td' = [Returned(slot[t]) EXCEPT !.served[slot[t]] = @ + 1]
    <3>1. slot[t] \in 1 .. N
      BY <2>1 DEF Types, TaskOK
    <3>2. /\ Returned(slot[t]) \in Dispatch /\ Poisoned(slot[t]) \in Dispatch
          /\ [Returned(slot[t]) EXCEPT !.served[slot[t]] = @ + 1] \in Dispatch
      BY <1>1, <3>1, ReturnedEffect, PoisonedEffect, ServedEffect
    <3>. QED
      BY <2>1, <3>2
  <2>2. CASE NamedAcquire(t) \/ NamedTimeout(t) \/ NamedClaim(t) \/ NamedRead(t) \/ NamedReturn(t)
               \/ get_idleNone(t) \/ NamedLeave(t) \/ DefaultKill(t)
    BY <1>2, <2>2 DEF NamedAcquire, NamedTimeout, NamedClaim, NamedRead, NamedReturn,
                      get_idleNone, NamedLeave, DefaultKill
  <2>3. CASE get_idle(t)
    BY <1>1, <2>3, PoppedEffect DEF get_idle
  <2>4. CASE DefaultSend(t)
    <3>1. UNCHANGED td \/ (~Named /\ pc[t] \in {"claim", "read"}
                           /\ (td' = Returned(slot[t]) \/ td' = Poisoned(slot[t])))
      BY <2>4 DEF DefaultSend, Fail
    <3>. QED
      BY <1>2, <2>1, <3>1
  <2>5. CASE DefaultRead(t)
    BY <2>1, <2>5, Zenon DEF DefaultRead, Fail
  <2>6. CASE DefaultLeave(t)
    <3>1. UNCHANGED td \/ (~Named /\ pc[t] \in {"claim", "read"} /\ td' = Poisoned(slot[t]))
      BY <2>6 DEF DefaultLeave, Fail
    <3>. QED
      BY <1>2, <2>1, <3>1
  <2>7. CASE ClosedUnder(t)
    <3>1. UNCHANGED td \/ (~Named /\ pc[t] \in {"claim", "read"} /\ td' = Poisoned(slot[t]))
      BY <2>7 DEF ClosedUnder, Fail
    <3>. QED
      BY <1>2, <2>1, <3>1
  <2>. QED
    BY <1>3, <2>2, <2>3, <2>4, <2>5, <2>6, <2>7 DEF Handler, Unforced
<1>4. CASE ReaperTick
  <2>1. td.unhealthy \in [1 .. N -> BOOLEAN]
    BY <1>1, DispatchFields
  <2>2. PICK u \in [1 .. N -> BOOLEAN] : u = [i \in 1 .. N |-> td.unhealthy[i] \/ i \in over_quota]
    BY <2>1
  <2>3. td' = [td EXCEPT !.unhealthy = u]
    BY <1>4, <2>2 DEF ReaperTick
  <2>. QED
    BY <1>1, <2>3 DEF Dispatch
<1>5. CASE refresh_fds
  BY <1>1, <1>5, RefreshEffect
<1>6. CASE ScalerCheck \/ ScalerUp \/ ScalerDown \/ WatcherReload \/ WatcherRespawn
  BY <1>2, <1>6 DEF ScalerCheck, ScalerUp, ScalerDown, WatcherReload, WatcherRespawn
<1>7. ASSUME NEW p \in Procs, WorkerLoop(p) \/ BootFails(p) \/ Crash(p)
      PROVE  td' \in Dispatch
  BY <1>2, <1>7 DEF WorkerLoop, Boot, Run, TermDies, BootFails, Crash, WorkerStep
<1>8. CASE StopSignal \/ Draining \/ Quiet \/ UNCHANGED vars
  BY <1>2, <1>8 DEF StopSignal, Draining, DrainWorkers, WorkersDrained, DrainConnections, Quiet,
                    vars
<1>. QED
  BY <1>3, <1>4, <1>5, <1>6, <1>7, <1>8 DEF Next, Background

\* What may still go wrong is used up; the rest of the configuration stays.
ConfStep == /\ conf' \in Conf /\ conf'.route = conf.route /\ conf'.mode = conf.mode
            /\ conf'.autoScale = conf.autoScale

LEMMA NextConf ==
    ASSUME Types, [Next]_vars
    PROVE  ConfStep
<1>1. conf \in Conf
  BY DEF Types, ConfOK
<1>2. CASE UNCHANGED conf
  BY <1>1, <1>2 DEF ConfStep
<1>3. CASE conf.leaves > 0 /\ conf' = [conf EXCEPT !.leaves = @ - 1]
  BY <1>1, <1>3 DEF Conf, ConfStep
<1>4. CASE conf.reloads > 0 /\ conf' = [conf EXCEPT !.reloads = @ - 1]
  BY <1>1, <1>4 DEF Conf, ConfStep
<1>5. CASE conf.crashes > 0 /\ conf' = [conf EXCEPT !.crashes = @ - 1]
  BY <1>1, <1>5 DEF Conf, ConfStep
<1>6. ASSUME NEW t \in Tasks, Handler(t) \/ Unforced(t)
      PROVE  ConfStep
  <2>1. CASE Handler(t)
    BY <1>2, <2>1 DEF Handler, NamedAcquire, NamedTimeout, NamedClaim, NamedRead, NamedReturn,
                      get_idle, get_idleNone, DefaultSend, DefaultRead, DefaultKill
  <2>2. CASE Unforced(t)
    BY <1>2, <1>3, <2>2, Zenon DEF Unforced, NamedLeave, DefaultLeave, ClosedUnder
  <2>. QED
    BY <1>6, <2>1, <2>2
<1>7. CASE Background
  BY <1>2, <1>4, <1>7 DEF Background, ReaperTick, refresh_fds, ScalerCheck, ScalerUp, ScalerDown,
                          WatcherReload, WatcherRespawn
<1>8. ASSUME NEW p \in Procs, WorkerLoop(p) \/ BootFails(p) \/ Crash(p)
      PROVE  ConfStep
  BY <1>2, <1>5, <1>8 DEF WorkerLoop, Boot, Run, TermDies, BootFails, Crash, WorkerStep
<1>9. CASE StopSignal \/ Draining \/ Quiet \/ UNCHANGED vars
  BY <1>2, <1>9 DEF StopSignal, Draining, DrainWorkers, WorkersDrained, DrainConnections, Quiet,
                    vars
<1>. QED
  BY <1>6, <1>7, <1>8, <1>9 DEF Next

\* A response that is read is a response.
LEMMA ReadType ==
    ASSUME NEW s \in Pool, NEW p \in Procs, s.resps[p] # <<>>
    PROVE  Head(s.resps[p]) \in Responses /\ Head(s.resps[p]) = s.resps[p][1] /\ 1 \in DOMAIN s.resps[p]
<1>1. PICK q \in Seq(Responses) : q = s.resps[p]
  BY DEF Pool
<1>2. q # <<>>
  BY <1>1
<1>3. Head(q) \in Responses /\ Head(q) = q[1] /\ 1 \in DOMAIN q
  BY <1>1, <1>2, HeadTailProperties, LenProperties, EmptySeq
<1>. QED
  BY <1>1, <1>3

\* A handler takes a step, and answers.
LEMMA TaskStep ==
    ASSUME TaskOK, NEW t \in Tasks, NEW l \in {"claim", "return", "kill", "done"},
           Goto(t, l), UNCHANGED <<slot, fd, pid>>, conf'.route = conf.route,
           UNCHANGED out \/ (\E o \in {"ok", "gone", "reset", "502", "503", "504"} : Answer(t, o)),
           UNCHANGED got \/ (\E g \in Responses \union {"eof"} : got' = [got EXCEPT ![t] = g]),
           l \in {"return", "kill"} => fd[t] \in Procs, l = "claim" => Named,
           l = "kill" => ~Named /\ pid[t] \in Procs
    PROVE  TaskOK'
<1>1. /\ pc \in [Tasks -> Labels]
      /\ out \in [Tasks -> {None, "ok", "gone", "reset", "502", "503", "504"}]
      /\ got \in [Tasks -> Responses \union {None, "eof"}]
      /\ slot \in [Tasks -> 0 .. MaxProcs] /\ fd \in [Tasks -> 0 .. MaxProcs]
      /\ \A u \in Tasks : User(u) \/ pc[u] = "kill" => fd[u] \in Procs
      /\ ~Named => \A u \in Tasks : pc[u] \in {"claim", "read"} => slot[u] \in 1 .. N
      /\ ~Named => \A u \in Tasks : pc[u] \in {"read", "kill"} => pid[u] \in Procs
      /\ Named => \A u \in Tasks : pc[u] # "kill"
  BY DEF TaskOK
<1>2. /\ pc' = [pc EXCEPT ![t] = l]
      /\ pc' \in [Tasks -> Labels]
  BY <1>1 DEF Goto, Labels
<1>3. out' \in [Tasks -> {None, "ok", "gone", "reset", "502", "503", "504"}]
  <2>1. CASE UNCHANGED out
    BY <1>1, <2>1
  <2>2. CASE \E o \in {"ok", "gone", "reset", "502", "503", "504"} : Answer(t, o)
    <3>1. PICK o \in {"ok", "gone", "reset", "502", "503", "504"} : Answer(t, o)
      BY <2>2
    <3>2. PICK x \in {None, "ok", "gone", "reset", "502", "503", "504"} :
            x = IF out[t] = "gone" THEN out[t] ELSE o
      BY <3>1
    <3>3. out' = [out EXCEPT ![t] = x]
      BY <3>1, <3>2 DEF Answer
    <3>. QED
      BY <1>1, <3>3
  <2>. QED
    BY <2>1, <2>2
<1>4. got' \in [Tasks -> Responses \union {None, "eof"}]
  BY <1>1
<1>5. \A u \in Tasks : User(u)' \/ pc'[u] = "kill" => fd'[u] \in Procs
  BY <1>1, <1>2 DEF User
<1>6. /\ ~Named' => \A u \in Tasks : pc'[u] \in {"claim", "read"} => slot'[u] \in 1 .. N
      /\ ~Named' => \A u \in Tasks : pc'[u] \in {"read", "kill"} => pid'[u] \in Procs
      /\ Named' => \A u \in Tasks : pc'[u] # "kill"
  BY <1>1, <1>2 DEF Named
<1>7. pid' \in [Tasks -> 0 .. MaxProcs]
  BY DEF TaskOK
<1>. QED
  BY <1>1, <1>2, <1>3, <1>4, <1>5, <1>6, <1>7 DEF TaskOK, None

LEMMA SameTasks ==
    ASSUME TaskOK, UNCHANGED taskVars, conf'.route = conf.route
    PROVE  TaskOK'
BY DEF TaskOK, taskVars, Named, User, None

LEMMA HandlerTasks ==
    ASSUME Types, NEW t \in Tasks, conf'.route = conf.route, Handler(t) \/ Unforced(t)
    PROVE  TaskOK'
<1>1. TaskOK /\ w \in Pool /\ td \in Dispatch
  BY DEF Types, Sound
<1>2. /\ pc \in [Tasks -> Labels]
      /\ out \in [Tasks -> {None, "ok", "gone", "reset", "502", "503", "504"}]
      /\ slot \in [Tasks -> 0 .. MaxProcs] /\ fd \in [Tasks -> 0 .. MaxProcs]
      /\ pc[t] = "read" => fd[t] \in Procs
  BY <1>1 DEF TaskOK, User
<1> DEFINE Outs == {"ok", "gone", "reset", "502", "503", "504"}
           Answered == UNCHANGED out \/ \E o \in Outs : Answer(t, o)
           Saw == UNCHANGED got \/ \E g \in Responses \union {"eof"} : got' = [got EXCEPT ![t] = g]
<1>3. ASSUME Goto(t, "done"), UNCHANGED <<slot, fd, pid>>, Answered, Saw
      PROVE  TaskOK'
  BY <1>1, <1>3, TaskStep
<1>4. CASE NamedAcquire(t)
  <2>1. /\ Goto(t, "claim") /\ UNCHANGED <<slot, fd, pid>> /\ Answered /\ Saw /\ Named
    BY <1>4 DEF NamedAcquire
  <2>. QED
    BY <1>1, <2>1, TaskStep
<1>5. CASE NamedTimeout(t) \/ get_idleNone(t)
  <2>1. Goto(t, "done") /\ UNCHANGED <<slot, fd, pid>> /\ Answered /\ Saw
    BY <1>5 DEF NamedTimeout, get_idleNone
  <2>. QED
    BY <1>3, <2>1
<1>6. CASE NamedClaim(t)
  <2>1. PICK s : Sound(s) /\ ClaimFrom(s, t)
    BY <1>6, ClaimCases DEF Types
  <2>2. UNCHANGED <<got, pid>>
    BY <1>6 DEF NamedClaim
  <2>3. PICK k : k = get_idle_worker(s)
    OBVIOUS
  <2>4. PICK i : i = s.idle_queue[k]
    OBVIOUS
  <2>5. PICK p : p = s.workers[i].proc
    OBVIOUS
  <2>6. \/ /\ Goto(t, "done") /\ UNCHANGED <<slot, fd>>
           /\ Answer(t, "503") \/ Answer(t, "502")
        \/ /\ k # 0 /\ Goto(t, "read") /\ UNCHANGED out
           /\ slot' = [slot EXCEPT ![t] = i] /\ fd' = [fd EXCEPT ![t] = p]
    BY <2>1, <2>3, <2>4, <2>5, Zenon DEF ClaimFrom
  <2>7. CASE k # 0 /\ Goto(t, "read") /\ slot' = [slot EXCEPT ![t] = i]
               /\ fd' = [fd EXCEPT ![t] = p] /\ UNCHANGED out
    <3>1. PICK b : b = mark_busy(PopTo(s, k), i)
      OBVIOUS
    <3>2. i \in Procs /\ p \in Procs
      BY <2>1, <2>3, <2>4, <2>5, <2>7, <3>1, MarkedEffect
    <3>3. i \in 0 .. MaxProcs /\ p \in 0 .. MaxProcs
      BY <3>2 DEF Procs
    <3>4. Named'
      BY <1>6 DEF NamedClaim, Named
    <3>5. pc' \in [Tasks -> Labels]
          /\ slot' \in [Tasks -> 0 .. MaxProcs] /\ fd' \in [Tasks -> 0 .. MaxProcs]
      BY <1>2, <2>7, <3>3 DEF Goto, Labels
    <3>6. \A u \in Tasks : User(u)' \/ pc'[u] = "kill" => fd'[u] \in Procs
      BY <1>1, <1>2, <2>7, <3>2 DEF TaskOK, User, Goto
    <3>7. \A u \in Tasks : pc'[u] # "kill"
      BY <1>1, <1>2, <1>6, <2>7 DEF TaskOK, Goto, NamedClaim
    <3>. QED
      BY <1>1, <2>2, <2>7, <3>4, <3>5, <3>6, <3>7 DEF TaskOK, None
  <2>8. CASE Goto(t, "done") /\ UNCHANGED <<slot, fd>>
               /\ (Answer(t, "503") \/ Answer(t, "502"))
    BY <1>3, <2>2, <2>8
  <2>. QED
    BY <2>6, <2>7, <2>8
<1>7. CASE NamedRead(t)
  <2>1. Goto(t, "return") /\ UNCHANGED <<slot, fd, pid>> /\ Answered /\ fd[t] \in Procs
    BY <1>2, <1>7 DEF NamedRead
  <2>2. Saw
    <3>1. CASE Readable(fd[t]) /\ got' = [got EXCEPT ![t] = Head(w.resps[fd[t]])]
      BY <1>1, <2>1, <3>1, ReadType DEF Readable
    <3>2. CASE got' = [got EXCEPT ![t] = "eof"]
      BY <3>2
    <3>. QED
      BY <1>7, <3>1, <3>2 DEF NamedRead
  <2>. QED
    BY <1>1, <2>1, <2>2, TaskStep
<1>8. CASE NamedReturn(t)
  <2>1. Goto(t, "done") /\ UNCHANGED <<slot, fd, pid>> /\ Answered /\ Saw
    BY <1>8 DEF NamedReturn
  <2>. QED
    BY <1>3, <2>1
<1>9. CASE get_idle(t)
  <2>1. PICK i : i = td.idle[Len(td.idle)]
    OBVIOUS
  <2>2. i \in 1 .. N /\ i \in 0 .. MaxProcs
    <3>1. i \in 1 .. N
      BY <1>1, <1>9, <2>1, PoppedEffect DEF get_idle
    <3>. QED
      BY <3>1
  <2>3. CASE UNCHANGED <<pc, slot>>
    <3>1. UNCHANGED taskVars
      BY <1>9, <2>3 DEF get_idle, taskVars
    <3>. QED
      BY <1>1, <3>1, SameTasks
  <2>4. CASE slot' = [slot EXCEPT ![t] = i] /\ Goto(t, "claim")
    <3>1. UNCHANGED <<fd, pid, got, out>> /\ ~Named
      BY <1>9 DEF get_idle
    <3>2. pc' \in [Tasks -> Labels]
          /\ slot' \in [Tasks -> 0 .. MaxProcs]
      BY <1>2, <2>2, <2>4 DEF Goto, Labels
    <3>3. \A u \in Tasks : User(u)' \/ pc'[u] = "kill" => fd'[u] \in Procs
      BY <1>1, <1>2, <2>4, <3>1 DEF TaskOK, User, Goto
    <3>4. /\ ~Named' => \A u \in Tasks : pc'[u] \in {"claim", "read"} => slot'[u] \in 1 .. N
          /\ ~Named' => \A u \in Tasks : pc'[u] \in {"read", "kill"} => pid'[u] \in Procs
          /\ ~Named'
      BY <1>1, <1>2, <2>2, <2>4, <3>1 DEF TaskOK, Named, Goto
    <3>. QED
      BY <1>1, <3>1, <3>2, <3>3, <3>4 DEF TaskOK, None
  <2>. QED
    BY <1>9, <2>1, <2>3, <2>4, Zenon DEF get_idle
<1>10. CASE DefaultSend(t)
  <2>1. UNCHANGED <<slot, got>> /\ pc[t] = "claim" /\ ~Named
    BY <1>10 DEF DefaultSend
  <2>2. PICK i : i = slot[t]
    OBVIOUS
  <2>3. PICK p : p = td.fds[i]
    OBVIOUS
  <2>4. \/ Goto(t, "done") /\ Answer(t, "reset") /\ UNCHANGED <<fd, pid>>
        \/ /\ i \in DOMAIN td.fds /\ pid' = [pid EXCEPT ![t] = p]
           /\ \E q \in Ends(p, i) :
                /\ fd' = [fd EXCEPT ![t] = q]
                /\ \/ Goto(t, "read") /\ UNCHANGED out
                   \/ Goto(t, "kill") /\ Answer(t, "502")
    BY <1>10, <2>2, <2>3 DEF DefaultSend, Fail
  <2>5. CASE /\ i \in DOMAIN td.fds /\ pid' = [pid EXCEPT ![t] = p]
             /\ \E q \in Ends(p, i) :
                  /\ fd' = [fd EXCEPT ![t] = q]
                  /\ \/ Goto(t, "read") /\ UNCHANGED out
                     \/ Goto(t, "kill") /\ Answer(t, "502")
    <3>1. PICK q \in Ends(p, i) : /\ fd' = [fd EXCEPT ![t] = q]
                                  /\ \/ Goto(t, "read") /\ UNCHANGED out
                                     \/ Goto(t, "kill") /\ Answer(t, "502")
      BY <2>5
    <3>2. p \in Procs
      BY <1>1, <2>3, <2>5, DispatchFields
    <3>3. q \in Procs
      BY <1>1, <3>1, <3>2, EndsType
    <3>4. q \in 0 .. MaxProcs /\ p \in 0 .. MaxProcs
      BY <3>2, <3>3 DEF Procs
    <3>5. PICK l \in {"read", "kill"} : pc' = [pc EXCEPT ![t] = l]
      BY <3>1 DEF Goto
    <3>6. pc' \in [Tasks -> Labels]
      BY <1>2, <3>5 DEF Labels
    <3>7. fd' \in [Tasks -> 0 .. MaxProcs] /\ pid' \in [Tasks -> 0 .. MaxProcs]
      BY <1>1, <1>2, <2>5, <3>1, <3>4 DEF TaskOK
    <3>8. \A u \in Tasks : User(u)' \/ pc'[u] = "kill" => fd'[u] \in Procs
      BY <1>1, <1>2, <3>1, <3>3, <3>5 DEF TaskOK, User
    <3>9. \A u \in Tasks : pc'[u] \in {"claim", "read"} => slot'[u] \in 1 .. N
      BY <1>1, <1>2, <2>1, <3>5 DEF TaskOK
    <3>10. \A u \in Tasks : pc'[u] \in {"read", "kill"} => pid'[u] \in Procs
      <4>1. pid \in [Tasks -> 0 .. MaxProcs]
        BY <1>1 DEF TaskOK
      <4>. QED
        BY <1>1, <1>2, <2>1, <2>5, <3>2, <3>5, <4>1 DEF TaskOK
    <3>11. out' \in [Tasks -> {None, "ok", "gone", "reset", "502", "503", "504"}]
      BY <1>2, <3>1 DEF Answer
    <3>12. ~Named'
      BY <2>1 DEF Named
    <3>. QED
      BY <1>1, <2>1, <3>6, <3>7, <3>8, <3>9, <3>10, <3>11, <3>12 DEF TaskOK, None
  <2>6. CASE Goto(t, "done") /\ Answer(t, "reset") /\ UNCHANGED <<fd, pid>>
    BY <1>3, <2>1, <2>6
  <2>. QED
    BY <2>4, <2>5, <2>6
<1>11. CASE DefaultRead(t)
  <2>1. /\ UNCHANGED <<slot, fd, pid>> /\ fd[t] \in Procs /\ ~Named /\ pid[t] \in Procs
        /\ \/ Goto(t, "done") /\ Answer(t, "ok")
           \/ Goto(t, "kill") /\ Answer(t, "502")
    BY <1>1, <1>2, <1>11 DEF DefaultRead, Fail, TaskOK
  <2>2. Saw
    <3>1. CASE Readable(fd[t]) /\ got' = [got EXCEPT ![t] = Head(w.resps[fd[t]])]
      BY <1>1, <2>1, <3>1, ReadType DEF Readable
    <3>2. CASE got' = [got EXCEPT ![t] = "eof"]
      BY <3>2
    <3>. QED
      BY <1>11, <3>1, <3>2, Zenon DEF DefaultRead
  <2>3. CASE Goto(t, "done") /\ Answer(t, "ok")
    BY <1>3, <2>1, <2>2, <2>3
  <2>4. CASE Goto(t, "kill") /\ Answer(t, "502")
    BY <1>1, <2>1, <2>2, <2>4, TaskStep
  <2>. QED
    BY <2>1, <2>3, <2>4
<1>15. CASE DefaultKill(t)
  <2>1. Goto(t, "done") /\ UNCHANGED <<slot, fd, pid>> /\ Answered /\ Saw
    BY <1>15 DEF DefaultKill
  <2>. QED
    BY <1>3, <2>1
<1>12. CASE NamedLeave(t)
  <2>1. UNCHANGED <<slot, fd, pid, got>> /\ out' = [out EXCEPT ![t] = "gone"]
        /\ (Goto(t, "done") \/ UNCHANGED pc)
    BY <1>12 DEF NamedLeave
  <2>2. pc' \in [Tasks -> Labels]
    BY <1>2, <2>1 DEF Goto, Labels
  <2>3. out' \in [Tasks -> {None, "ok", "gone", "reset", "502", "503", "504"}]
    BY <1>2, <2>1
  <2>4. \A u \in Tasks : pc'[u] \in {pc[u], "done"}
    BY <1>2, <2>1 DEF Goto
  <2>. QED
    BY <1>1, <2>1, <2>2, <2>3, <2>4 DEF TaskOK, User, Named, None
<1>13. CASE DefaultLeave(t)
  <2>1. CASE pc[t] = "read"
    <3>1. /\ Goto(t, "kill") /\ UNCHANGED <<slot, fd, pid>> /\ Answered /\ Saw
          /\ ~Named /\ fd[t] \in Procs /\ pid[t] \in Procs
      BY <1>1, <1>2, <1>13, <2>1 DEF DefaultLeave, Fail, TaskOK
    <3>. QED
      BY <1>1, <3>1, TaskStep
  <2>2. CASE pc[t] # "read"
    <3>1. Goto(t, "done") /\ UNCHANGED <<slot, fd, pid>> /\ Answered /\ Saw
      BY <1>13, <2>2 DEF DefaultLeave
    <3>. QED
      BY <1>3, <3>1
  <2>. QED
    BY <2>1, <2>2
<1>14. CASE ClosedUnder(t)
  <2>1. /\ UNCHANGED <<slot, fd, pid>> /\ Saw /\ fd[t] \in Procs
        /\ \/ Goto(t, "return") /\ UNCHANGED out
           \/ ~Named /\ pid[t] \in Procs /\ Goto(t, "kill") /\ Answer(t, "502")
    BY <1>1, <1>2, <1>14 DEF ClosedUnder, Fail, TaskOK
  <2>2. CASE Goto(t, "return") /\ UNCHANGED out
    BY <1>1, <2>1, <2>2, TaskStep
  <2>3. CASE ~Named /\ pid[t] \in Procs /\ Goto(t, "kill") /\ Answer(t, "502")
    BY <1>1, <2>1, <2>3, TaskStep
  <2>. QED
    BY <2>1, <2>2, <2>3
<1>. QED
  BY <1>4, <1>5, <1>6, <1>7, <1>8, <1>9, <1>10, <1>11, <1>12, <1>13, <1>14, <1>15
     DEF Handler, Unforced

LEMMA NextTasks ==
    ASSUME Types, [Next]_vars
    PROVE  TaskOK'
<1>1. TaskOK /\ conf'.route = conf.route
  BY NextConf DEF Types, ConfStep
<1>2. CASE UNCHANGED taskVars
  BY <1>1, <1>2, SameTasks
<1>3. CASE \E t \in Tasks : Handler(t) \/ Unforced(t)
  BY <1>1, <1>3, HandlerTasks
<1>4. CASE Background
  BY <1>2, <1>4 DEF Background, ReaperTick, refresh_fds, ScalerCheck, ScalerUp, ScalerDown,
                    WatcherReload, WatcherRespawn
<1>5. ASSUME NEW p \in Procs, WorkerLoop(p) \/ BootFails(p) \/ Crash(p)
      PROVE  TaskOK'
  BY <1>2, <1>5 DEF WorkerLoop, Boot, Run, TermDies, BootFails, Crash, WorkerStep
<1>6. CASE StopSignal \/ Draining \/ Quiet \/ UNCHANGED vars
  BY <1>2, <1>6 DEF StopSignal, Draining, DrainWorkers, WorkersDrained, DrainConnections, Quiet,
                    vars
<1>. QED
  BY <1>3, <1>4, <1>5, <1>6 DEF Next

\* The semaphore, the server and the background tasks.
LEMMA NextBack ==
    ASSUME Types, [Next]_vars, Sound(w')
    PROVE  /\ BackOK' /\ (scaler'.at # "check" => scaler.at # "check" \/ conf.autoScale)
           /\ holder' = "watcher" => holder = "watcher" \/ ~Named
<1> DEFINE Scaler == [at : {"check", "up", "down"}, idle_since : BOOLEAN]
           Goal == /\ BackOK' /\ (scaler'.at # "check" => scaler.at # "check" \/ conf.autoScale)
                   /\ holder' = "watcher" => holder = "watcher" \/ ~Named
<1>1. /\ rpc \in {"tick", "refresh", "panicked"} /\ fds \in Seq(Procs) /\ scaler \in Scaler
      /\ server \in {"up", "drain1", "drain2", "stopped"} /\ permits \in Nat
      /\ holder \in {"none", "watcher", "server"}
  BY DEF Types, BackOK
<1>2. CASE UNCHANGED <<bgVars, server>> /\ permits' \in Nat
  BY <1>1, <1>2 DEF BackOK, bgVars
<1>3. ASSUME NEW t \in Tasks, Handler(t) \/ Unforced(t)
      PROVE  Goal
  <2>1. CASE NamedClaim(t)
    <3>1. UNCHANGED <<bgVars, server>>
      BY <2>1 DEF NamedClaim
    <3>2. permits' \in {permits, permits + 1}
      BY <2>1 DEF NamedClaim
    <3>3. permits' \in Nat
      BY <1>1, <3>2
    <3>. QED
      BY <1>2, <3>1, <3>3
  <2>2. CASE NamedAcquire(t) \/ NamedReturn(t)
    <3>1. UNCHANGED <<bgVars, server>> /\ permits' \in Nat
      BY <1>1, <2>2 DEF NamedAcquire, NamedReturn
    <3>. QED
      BY <1>2, <3>1
  <2>3. CASE UNCHANGED <<bgVars, server, permits>>
    BY <1>1, <1>2, <2>3
  <2>. QED
    BY <1>3, <2>1, <2>2, <2>3, Zenon
       DEF Handler, Unforced, NamedTimeout, NamedRead, get_idle, get_idleNone,
           DefaultSend, DefaultRead, DefaultKill, NamedLeave, DefaultLeave, ClosedUnder, Fail
<1>4. CASE ReaperTick
  <2>1. w' \in Pool
    BY DEF Sound
  <2>2. PICK q \in Seq(Worker) : q = w'.workers
    BY <2>1 DEF Pool
  <2>3. Len(q) \in Nat /\ DOMAIN q = 1 .. Len(q) /\ \A i \in DOMAIN q : q[i] \in Worker
    BY <2>2, LenProperties, ElementOfSeq
  <2>4. [i \in DOMAIN q |-> q[i].proc] \in [1 .. Len(q) -> Procs]
    BY <2>3 DEF Worker
  <2>5. [i \in DOMAIN q |-> q[i].proc] \in Seq(Procs)
    BY <2>3, <2>4, FunSeq
  <2>6. fds' = [i \in DOMAIN q |-> q[i].proc]
    BY <1>4, <2>2 DEF ReaperTick, worker_fds
  <2>. QED
    BY <1>1, <1>4, <2>5, <2>6 DEF ReaperTick, BackOK
<1>5. CASE refresh_fds
  <2>1. rpc' \in {"tick", "panicked"} /\ fds' = <<>> /\ UNCHANGED <<scaler, holder, server, permits>>
    BY <1>5 DEF refresh_fds
  <2>. QED
    BY <1>1, <2>1, EmptySeq DEF BackOK
<1>6. CASE ScalerCheck
  <2>1. /\ conf.autoScale /\ UNCHANGED <<rpc, fds, holder, server, permits>>
        /\ \/ scaler' = [scaler EXCEPT !.at = "up"]
           \/ scaler' = [scaler EXCEPT !.at = "down"]
           \/ \E b \in BOOLEAN : scaler' = [scaler EXCEPT !.idle_since = b]
    <3>1. PICK up \in BOOLEAN : up <=> idle_count(w) = 0 /\ alive_count(w) < MaxWorkers
      OBVIOUS
    <3>2. PICK down \in BOOLEAN : down <=> idle_count(w) > 0 /\ alive_count(w) > MinWorkers
      OBVIOUS
    <3>3. /\ conf.autoScale /\ UNCHANGED <<rpc, fds, holder, server, permits>>
          /\ scaler' = CASE up -> [scaler EXCEPT !.at = "up"]
                         [] down /\ scaler.idle_since -> [scaler EXCEPT !.at = "down"]
                         [] OTHER -> [scaler EXCEPT !.idle_since = ~up /\ down]
      BY <1>6, <3>1, <3>2, Zenon DEF ScalerCheck
    <3>. QED
      BY <3>1, <3>2, <3>3
  <2>2. scaler' \in Scaler
    BY <1>1, <2>1
  <2>. QED
    BY <1>1, <2>1, <2>2 DEF BackOK
<1>7. CASE ScalerUp \/ ScalerDown
  <2>1. /\ UNCHANGED <<rpc, fds, holder, server, permits>>
        /\ \E b \in BOOLEAN : scaler' = [at |-> "check", idle_since |-> b]
    <3>1. scaler.idle_since \in BOOLEAN
      BY <1>1
    <3>. QED
      BY <1>7, <3>1 DEF ScalerUp, ScalerDown
  <2>2. scaler' \in Scaler /\ scaler'.at = "check"
    BY <2>1
  <2>. QED
    BY <1>1, <2>1, <2>2 DEF BackOK
<1>8. CASE WatcherReload \/ WatcherRespawn
  BY <1>1, <1>8 DEF WatcherReload, WatcherRespawn, BackOK
<1>9. ASSUME NEW p \in Procs, WorkerLoop(p) \/ BootFails(p) \/ Crash(p)
      PROVE  Goal
  BY <1>1, <1>2, <1>9 DEF WorkerLoop, Boot, Run, TermDies, BootFails, Crash, WorkerStep
<1>10. CASE StopSignal \/ Draining
  BY <1>1, <1>10 DEF StopSignal, Draining, DrainWorkers, WorkersDrained, DrainConnections, BackOK,
                     bgVars
<1>11. CASE Quiet \/ UNCHANGED vars
  BY <1>1, <1>2, <1>11 DEF Quiet, vars
<1>. QED
  BY <1>3, <1>4, <1>5, <1>6, <1>7, <1>8, <1>9, <1>10, <1>11 DEF Next, Background

LEMMA NextTypes ==
    ASSUME Types, [Next]_vars
    PROVE  Types'
<1>1. Sound(w') /\ w'.mode = w.mode
  BY NextPool DEF PoolStep
<1>2. td' \in Dispatch /\ TaskOK'
  BY NextDispatch, NextTasks
<1>3. /\ BackOK' /\ (scaler'.at # "check" => scaler.at # "check" \/ conf.autoScale)
      /\ holder' = "watcher" => holder = "watcher" \/ ~Named
  BY <1>1, NextBack
<1>4. ConfOK'
  <2>1. ConfStep /\ ConfOK
    BY NextConf DEF Types
  <2>2. ~Named => conf.route = "default"
    BY <2>1 DEF ConfOK, Conf, Named
  <2>3. w'.mode = conf'.mode /\ (conf'.route = "default" => conf'.mode = "process")
    BY <1>1, <2>1 DEF ConfOK, ConfStep
  <2>4. conf'.autoScale \/ scaler'.at # "check" => conf'.route = "default"
    BY <1>3, <2>1 DEF ConfOK, ConfStep
  <2>5. holder' = "watcher" => conf'.route = "default"
    BY <1>3, <2>1, <2>2 DEF ConfOK, ConfStep
  <2>. QED
    BY <2>1, <2>3, <2>4, <2>5 DEF ConfOK, ConfStep
<1>5. (Sound(w))'
  BY <1>1 DEF Sound
<1>. QED
  BY <1>2, <1>3, <1>4, <1>5 DEF Types, Dispatch

\* The pool, the dispatch's copy of it, the handlers and the background tasks
\* of main.rs keep their types, and the parent never forks more than the
\* system has room for.
THEOREM PoolTypes == Spec => []TypeOK
<1>1. Init => Types
  BY InitTypes
<1>2. Types /\ [Next]_vars => Types'
  BY NextTypes
<1>3. Types => TypeOK
  BY TypesGiveTypeOK
<1>. QED
  BY <1>1, <1>2, <1>3, PTL DEF Spec

----------------------------------------------------------------------------
(***************************************************************************)
(* Leases: in a named pool a worker's index is in the idle queue once, or  *)
(* with the one task that will return it.                                  *)
(***************************************************************************)

\* A process is behind one index; those of the first generation are behind
\* their own.
Indexed(s) ==
    /\ \A i \in DOMAIN s.workers : s.workers[i].proc = i \/ s.workers[i].proc > N
    /\ \A i, j \in DOMAIN s.workers : s.workers[i].proc = s.workers[j].proc => i = j

\* The worker behind the index is not exchanged: only a dead thread is.
Fixed(s, i) == s.mode = "process" \/ s.workers[i].proc <= N

QueuedOnce(s) ==
    /\ \A k \in DOMAIN s.idle_queue : s.idle_queue[k] \in DOMAIN s.workers
    /\ \A k, l \in DOMAIN s.idle_queue :
          s.idle_queue[k] = s.idle_queue[l] /\ Fixed(s, s.idle_queue[k]) => k = l

\* Index i with pipe ends p is with a task.
Leased(s, i, p) ==
    s.workers # <<>> =>
        /\ i \in DOMAIN s.workers
        /\ Fixed(s, i) => p = s.workers[i].proc /\ ~InQueue(s, i)
        /\ p <= N => i = p

\* The tasks U have what sl and f say.
LeaseIn(s, U, sl, f) ==
    /\ Indexed(s) /\ QueuedOnce(s)
    /\ \A t \in U : Leased(s, sl[t], f[t])
    /\ s.workers # <<>> => \A t, u \in U : sl[t] = sl[u] /\ Fixed(s, sl[t]) => t = u
    /\ \A t, u \in U : f[t] = f[u] /\ (s.mode = "process" \/ f[t] <= N) => t = u

LEMMA PoolNumbers ==
    ASSUME NEW s \in Pool
    PROVE  /\ DOMAIN s.workers = 1 .. Len(s.workers) /\ Len(s.workers) \in Nat
           /\ \A i \in DOMAIN s.workers : s.workers[i].proc \in Nat
           /\ s.forked \in Nat
<1>1. /\ DOMAIN s.workers = 1 .. Len(s.workers) /\ Len(s.workers) \in Nat
      /\ \A i \in DOMAIN s.workers : s.workers[i].proc \in Procs
  BY WorkerOf
<1>2. s.forked \in 0 .. MaxProcs
  BY DEF Pool
<1>. QED
  BY <1>1, <1>2 DEF Procs

\* A reap keeps the leases.
LEMMA RefilledKeepsLease ==
    ASSUME NEW s, Sound(s), NEW r, Refilled(s, r), s.workers # <<>>,
           NEW U, NEW sl, NEW f, LeaseIn(s, U, sl, f)
    PROVE  LeaseIn(r, U, sl, f)
<1>1. s \in Pool /\ r \in Pool /\ N <= s.forked /\ r.mode = s.mode
  BY DEF Sound, Refilled
<1>2. /\ DOMAIN s.workers = 1 .. Len(s.workers) /\ Len(s.workers) \in Nat
      /\ DOMAIN r.workers = 1 .. Len(r.workers) /\ Len(r.workers) \in Nat
      /\ \A i \in DOMAIN s.workers : s.workers[i].proc \in Nat
      /\ \A i \in DOMAIN r.workers : r.workers[i].proc \in Nat
      /\ s.forked \in Nat
  BY <1>1, PoolNumbers
<1>3. DOMAIN s.workers \subseteq DOMAIN r.workers
  <2>1. Len(s.workers) <= Len(r.workers)
    BY DEF Refilled
  <2>. QED
    BY <1>2, <2>1
<1>4. ASSUME NEW i \in DOMAIN r.workers, ~Kept(s, r, i)
      PROVE  r.workers[i].proc > s.forked /\ r.workers[i].proc > N
             /\ (i \in DOMAIN s.workers => ~Fixed(r, i))
  <2>1. Fresh(s, r, i)
    BY <1>4 DEF Refilled
  <2>2. r.workers[i].proc > s.forked /\ (i \in DOMAIN s.workers => s.mode = "thread")
    BY <2>1 DEF Fresh
  <2>3. r.workers[i].proc > N
    BY <1>1, <1>2, <2>2
  <2>4. ~(r.workers[i].proc <= N)
    BY <1>2, <2>3
  <2>. QED
    BY <1>1, <2>2, <2>3, <2>4 DEF Fixed
<1>5. ASSUME NEW i \in DOMAIN s.workers, Fixed(r, i)
      PROVE  r.workers[i].proc = s.workers[i].proc /\ Fixed(s, i)
  BY <1>1, <1>3, <1>4, <1>5 DEF Kept, Fixed
<1>6. ASSUME NEW k \in DOMAIN r.idle_queue, k \notin DOMAIN s.idle_queue
      PROVE  /\ r.idle_queue[k] \in DOMAIN r.workers
             /\ r.idle_queue[k] \in DOMAIN s.workers => ~Fixed(r, r.idle_queue[k])
  <2>1. r.idle_queue[k] \in DOMAIN r.workers /\ Fresh(s, r, r.idle_queue[k])
    BY <1>6 DEF Refilled
  <2>2. PICK i \in DOMAIN r.workers : i = r.idle_queue[k]
    BY <2>1
  <2>3. r.workers[i].proc > s.forked /\ (i \in DOMAIN s.workers => s.mode = "thread")
    BY <2>1, <2>2 DEF Fresh
  <2>4. ~(r.workers[i].proc <= N)
    BY <1>1, <1>2, <2>3
  <2>. QED
    BY <1>1, <2>1, <2>2, <2>3, <2>4 DEF Fixed
<1>7. \A k \in DOMAIN s.idle_queue :
         r.idle_queue[k] = s.idle_queue[k] /\ s.idle_queue[k] \in DOMAIN s.workers
  BY DEF Refilled, LeaseIn, QueuedOnce
<1>8. Indexed(r)
  <2>1. ASSUME NEW i \in DOMAIN r.workers
        PROVE  r.workers[i].proc = i \/ r.workers[i].proc > N
    BY <1>4 DEF Kept, LeaseIn, Indexed
  <2>2. ASSUME NEW i \in DOMAIN r.workers, NEW j \in DOMAIN r.workers,
               r.workers[i].proc = r.workers[j].proc
        PROVE  i = j
    <3>1. CASE r.workers[i].proc > s.forked
      BY <2>2, <3>1 DEF Refilled
    <3>2. CASE ~(r.workers[i].proc > s.forked)
      <4>1. Kept(s, r, i) /\ Kept(s, r, j)
        BY <1>4, <2>2, <3>2
      <4>. QED
        BY <2>2, <4>1 DEF Kept, LeaseIn, Indexed
    <3>. QED
      BY <3>1, <3>2
  <2>. QED
    BY <2>1, <2>2 DEF Indexed
<1>9. QueuedOnce(r)
  <2>1. ASSUME NEW k \in DOMAIN r.idle_queue
        PROVE  r.idle_queue[k] \in DOMAIN r.workers
    BY <1>3, <1>6, <1>7
  <2>2. ASSUME NEW k \in DOMAIN r.idle_queue, NEW l \in DOMAIN r.idle_queue,
               r.idle_queue[k] = r.idle_queue[l], Fixed(r, r.idle_queue[k])
        PROVE  k = l
    <3>1. CASE k \in DOMAIN s.idle_queue /\ l \in DOMAIN s.idle_queue
      <4>1. s.idle_queue[k] = s.idle_queue[l] /\ Fixed(s, s.idle_queue[k])
        BY <1>5, <1>7, <2>2, <3>1
      <4>. QED
        BY <3>1, <4>1 DEF LeaseIn, QueuedOnce
    <3>2. CASE k \notin DOMAIN s.idle_queue /\ l \notin DOMAIN s.idle_queue
      BY <2>2, <3>2 DEF Refilled
    <3>3. CASE k \in DOMAIN s.idle_queue /\ l \notin DOMAIN s.idle_queue
      BY <1>6, <1>7, <2>2, <3>3
    <3>4. CASE k \notin DOMAIN s.idle_queue /\ l \in DOMAIN s.idle_queue
      BY <1>6, <1>7, <2>2, <3>4
    <3>. QED
      BY <3>1, <3>2, <3>3, <3>4
  <2>. QED
    BY <2>1, <2>2 DEF QueuedOnce
<1>10. ASSUME NEW t \in U
       PROVE  Leased(r, sl[t], f[t]) /\ sl[t] \in DOMAIN s.workers
  <2>1. PICK i : i = sl[t]
    OBVIOUS
  <2>2. PICK p : p = f[t]
    OBVIOUS
  <2>3. /\ i \in DOMAIN s.workers /\ (p <= N => i = p)
        /\ Fixed(s, i) => p = s.workers[i].proc /\ ~InQueue(s, i)
    BY <2>1, <2>2 DEF LeaseIn, Leased
  <2>4. ASSUME Fixed(r, i)
        PROVE  p = r.workers[i].proc /\ ~InQueue(r, i)
    <3>1. r.workers[i].proc = s.workers[i].proc /\ Fixed(s, i)
      BY <1>5, <2>3, <2>4
    <3>2. ASSUME NEW k \in DOMAIN r.idle_queue, r.idle_queue[k] = i
          PROVE  FALSE
      BY <1>6, <1>7, <2>3, <2>4, <3>1, <3>2 DEF InQueue
    <3>. QED
      BY <2>3, <3>1, <3>2 DEF InQueue
  <2>. QED
    BY <1>3, <2>1, <2>2, <2>3, <2>4 DEF Leased
<1>11. ASSUME NEW t \in U, NEW u \in U, sl[t] = sl[u], Fixed(r, sl[t])
       PROVE  t = u
  <2>1. Fixed(s, sl[t])
    BY <1>5, <1>10, <1>11
  <2>. QED
    BY <1>11, <2>1 DEF LeaseIn
<1>12. \A t, u \in U : f[t] = f[u] /\ (r.mode = "process" \/ f[t] <= N) => t = u
  BY <1>1 DEF LeaseIn
<1>. QED
  BY <1>8, <1>9, <1>10, <1>11, <1>12 DEF LeaseIn

\* So does whatever leaves the workers where they are and takes from the queue.
LEMMA ShorterKeepsLease ==
    ASSUME NEW s, NEW r, SameWorkers(s, r), s.workers = <<>> => r.workers = <<>>,
           \A k \in DOMAIN r.idle_queue :
              k \in DOMAIN s.idle_queue /\ r.idle_queue[k] = s.idle_queue[k],
           NEW U, NEW sl, NEW f, LeaseIn(s, U, sl, f)
    PROVE  LeaseIn(r, U, sl, f)
<1>1. /\ r.mode = s.mode /\ DOMAIN r.workers = DOMAIN s.workers
      /\ \A i \in DOMAIN s.workers : r.workers[i].proc = s.workers[i].proc
  BY DEF SameWorkers
<1>2. \A i \in DOMAIN s.workers : Fixed(r, i) <=> Fixed(s, i)
  BY <1>1 DEF Fixed
<1>3. \A i : InQueue(r, i) => InQueue(s, i)
  BY DEF InQueue
<1>4. Indexed(r)
  BY <1>1 DEF LeaseIn, Indexed
<1>5. QueuedOnce(r)
  BY <1>1, <1>2 DEF LeaseIn, QueuedOnce
<1>6. ASSUME NEW t \in U
      PROVE  Leased(r, sl[t], f[t])
  BY <1>1, <1>2, <1>3 DEF LeaseIn, Leased
<1>7. ASSUME r.workers # <<>>, NEW t \in U, NEW u \in U, sl[t] = sl[u], Fixed(r, sl[t])
      PROVE  t = u
  <2>1. sl[t] \in DOMAIN s.workers
    BY <1>7 DEF LeaseIn, Leased
  <2>2. Fixed(s, sl[t])
    BY <1>2, <1>7, <2>1
  <2>. QED
    BY <1>7, <2>2 DEF LeaseIn
<1>8. \A t, u \in U : f[t] = f[u] /\ (r.mode = "process" \/ f[t] <= N) => t = u
  BY <1>1 DEF LeaseIn
<1>. QED
  BY <1>4, <1>5, <1>6, <1>7, <1>8 DEF LeaseIn

\* A pool that was shut down leases nothing.
LEMMA EmptyLease ==
    ASSUME NEW r, r.workers = <<>>, DOMAIN r.idle_queue = {},
           NEW U, NEW sl, NEW f,
           \A t, u \in U : f[t] = f[u] /\ (r.mode = "process" \/ f[t] <= N) => t = u
    PROVE  LeaseIn(r, U, sl, f)
<1>1. DOMAIN r.workers = {}
  BY EmptySeq
<1>. QED
  BY <1>1 DEF LeaseIn, Indexed, QueuedOnce, Leased

\* Index i with pipe ends p is popped and marked, at position k of the queue.
Claimed(s, k, i, p, b) ==
    /\ k = get_idle_worker(s) /\ k # 0 /\ i = s.idle_queue[k]
    /\ b = mark_busy(PopTo(s, k), i) /\ p = s.workers[i].proc

\* sm and g are sl and f, with i and p for task t.
Gives(sm, g, U, sl, f, t, i, p) ==
    /\ t \notin U /\ sm[t] = i /\ g[t] = p
    /\ \A u \in U : sm[u] = sl[u] /\ g[u] = f[u]

\* The worker that is popped and marked goes to the task.
LEMMA ClaimLease ==
    ASSUME NEW s, Sound(s), NEW k, NEW i, NEW p, NEW b, Claimed(s, k, i, p, b),
           NEW U, NEW sl, NEW f, LeaseIn(s, U, sl, f),
           NEW t, NEW sm, NEW g, Gives(sm, g, U, sl, f, t, i, p)
    PROVE  LeaseIn(b, U \union {t}, sm, g)
<1> USE DEF Claimed, Gives
<1>1. /\ k \in DOMAIN s.idle_queue /\ i \in DOMAIN s.workers
      /\ b \in Pool /\ SameWorkers(s, b)
      /\ DOMAIN b.idle_queue = 1 .. k - 1
      /\ \A j \in 1 .. k - 1 : j \in DOMAIN s.idle_queue /\ b.idle_queue[j] = s.idle_queue[j]
  BY MarkedEffect
<1>2. s \in Pool /\ s.workers # <<>>
  BY <1>1, EmptySeq DEF Sound
<1>3. b.workers # <<>>
  BY <1>1, EmptySeq DEF SameWorkers
<1>4. LeaseIn(b, U, sl, f)
  BY <1>1, <1>2, ShorterKeepsLease
<1>5. \A j \in DOMAIN s.workers : Fixed(b, j) <=> Fixed(s, j)
  BY <1>1 DEF SameWorkers, Fixed
<1>6. i \in DOMAIN b.workers /\ b.workers[i].proc = p /\ b.mode = s.mode
  BY <1>1 DEF SameWorkers
<1>7. ASSUME Fixed(s, i)
      PROVE  ~InQueue(b, i)
  <2>1. ASSUME NEW j \in DOMAIN b.idle_queue, b.idle_queue[j] = i
        PROVE  FALSE
    <3>1. j \in DOMAIN s.idle_queue /\ s.idle_queue[j] = i
      BY <1>1, <2>1
    <3>2. j = k
      BY <1>1, <1>7, <3>1 DEF LeaseIn, QueuedOnce
    <3>3. k \in Int
      BY <1>1, <1>2, WorkerOf
    <3>. QED
      BY <1>1, <2>1, <3>2, <3>3
  <2>. QED
    BY <2>1 DEF InQueue
<1>8. p = i \/ p > N
  BY <1>1 DEF LeaseIn, Indexed
<1>9. p \in Nat
  BY <1>1, <1>2, PoolNumbers
<1>10. Leased(b, i, p)
  BY <1>5, <1>6, <1>7, <1>8, <1>9, <1>1 DEF Leased
<1>11. InQueue(s, i)
  BY <1>1 DEF InQueue
<1>12. ASSUME NEW u \in U, sl[u] = i, Fixed(s, i)
       PROVE  FALSE
  BY <1>2, <1>11, <1>12 DEF LeaseIn, Leased
<1>13. ASSUME NEW u \in U, f[u] = p, s.mode = "process" \/ p <= N
       PROVE  FALSE
  <2>1. sl[u] \in DOMAIN s.workers /\ (p <= N => sl[u] = p)
    BY <1>2, <1>13 DEF LeaseIn, Leased
  <2>2. CASE s.mode = "process"
    <3>1. Fixed(s, sl[u]) /\ Fixed(s, i)
      BY <2>2 DEF Fixed
    <3>2. s.workers[sl[u]].proc = p
      BY <1>2, <1>13, <3>1 DEF LeaseIn, Leased
    <3>3. sl[u] = i
      BY <1>1, <2>1, <3>2 DEF LeaseIn, Indexed
    <3>. QED
      BY <1>12, <3>1, <3>3
  <2>3. CASE p <= N
    <3>1. p = i
      BY <1>8, <1>9, <2>3
    <3>2. sl[u] = i /\ Fixed(s, i)
      BY <2>1, <2>3, <3>1 DEF Fixed
    <3>. QED
      BY <1>12, <3>2
  <2>. QED
    BY <1>13, <2>2, <2>3
<1>14. Indexed(b) /\ QueuedOnce(b)
  BY <1>4 DEF LeaseIn
<1>15. \A u \in U \union {t} : Leased(b, sm[u], g[u])
  BY <1>4, <1>10 DEF LeaseIn
<1>16. \A u, v \in U \union {t} : sm[u] = sm[v] /\ Fixed(b, sm[u]) => u = v
  <2>1. \A u, v \in U : sm[u] = sm[v] /\ Fixed(b, sm[u]) => u = v
    BY <1>3, <1>4 DEF LeaseIn
  <2>2. \A u \in U : sm[u] = i /\ Fixed(b, i) => FALSE
    BY <1>1, <1>5, <1>12
  <2>. QED
    BY <2>1, <2>2
<1>17. \A u, v \in U \union {t} : g[u] = g[v] /\ (b.mode = "process" \/ g[u] <= N) => u = v
  <2>1. \A u, v \in U : g[u] = g[v] /\ (b.mode = "process" \/ g[u] <= N) => u = v
    BY <1>4 DEF LeaseIn
  <2>2. \A u \in U : g[u] = p /\ (b.mode = "process" \/ p <= N) => FALSE
    BY <1>6, <1>13
  <2>. QED
    BY <2>1, <2>2
<1>. QED
  BY <1>14, <1>15, <1>16, <1>17 DEF LeaseIn

\* A worker that is returned is terminated, or queued.
LEMMA ReturnLease ==
    ASSUME NEW s, Sound(s), NEW U, NEW t \in U, NEW sl, NEW f, LeaseIn(s, U, sl, f),
           NEW i, i = sl[t], i \in DOMAIN s.workers, i \in Procs,
           NEW r, r = return_worker(s, i)
    PROVE  LeaseIn(r, U \ {t}, sl, f)
<1>1. s \in Pool /\ s.workers # <<>>
  BY EmptySeq DEF Sound
<1>2. /\ r \in Pool /\ SameWorkers(s, r)
      /\ r.idle_queue = s.idle_queue \/ r.idle_queue = Append(s.idle_queue, i)
  BY <1>1, ReturnEffect
<1>3. /\ r.mode = s.mode /\ DOMAIN r.workers = DOMAIN s.workers /\ r.workers # <<>>
      /\ \A j \in DOMAIN s.workers : r.workers[j].proc = s.workers[j].proc
  BY <1>2, EmptySeq DEF SameWorkers
<1>4. \A j \in DOMAIN s.workers : Fixed(r, j) <=> Fixed(s, j)
  BY <1>3 DEF Fixed
<1>5. Fixed(s, i) => ~InQueue(s, i)
  BY <1>1 DEF LeaseIn, Leased
<1>6. \A u \in U \ {t} : ~(sl[u] = i /\ Fixed(s, i))
  BY <1>1 DEF LeaseIn
<1>7. PICK n \in Nat : n = Len(s.idle_queue) /\ DOMAIN s.idle_queue = 1 .. n
  BY <1>1, WorkerOf
<1>8. ASSUME NEW k \in DOMAIN r.idle_queue, k \notin DOMAIN s.idle_queue
      PROVE  k = n + 1 /\ r.idle_queue[k] = i
  <2>1. CASE r.idle_queue = s.idle_queue
    BY <1>8, <2>1
  <2>2. CASE r.idle_queue = Append(s.idle_queue, i)
    <3>1. PICK a \in Seq(Procs) : a = s.idle_queue
      BY <1>1 DEF Pool
    <3>2. DOMAIN Append(a, i) = 1 .. n + 1 /\ Append(a, i)[n + 1] = i
      BY <1>7, <3>1, AppendProperties, LenProperties
    <3>3. k = n + 1
      BY <1>7, <1>8, <2>2, <3>1, <3>2
    <3>. QED
      BY <2>2, <3>1, <3>2, <3>3
  <2>. QED
    BY <1>2, <2>1, <2>2
<1>9. ASSUME NEW k \in DOMAIN s.idle_queue
      PROVE  r.idle_queue[k] = s.idle_queue[k]
  <2>1. PICK a \in Seq(Procs) : a = s.idle_queue
    BY <1>1 DEF Pool
  <2>2. Append(a, i)[k] = a[k]
    BY <1>7, <1>9, <2>1, AppendProperties
  <2>. QED
    BY <1>2, <2>1, <2>2
<1>10. QueuedOnce(r)
  <2>1. \A k \in DOMAIN r.idle_queue : r.idle_queue[k] \in DOMAIN r.workers
    BY <1>3, <1>8, <1>9 DEF LeaseIn, QueuedOnce
  <2>2. ASSUME NEW k \in DOMAIN r.idle_queue, NEW l \in DOMAIN r.idle_queue,
               r.idle_queue[k] = r.idle_queue[l], Fixed(r, r.idle_queue[k])
        PROVE  k = l
    <3>1. Fixed(s, r.idle_queue[k])
      BY <1>3, <1>4, <2>1, <2>2
    <3>2. CASE k \in DOMAIN s.idle_queue /\ l \in DOMAIN s.idle_queue
      BY <1>9, <2>2, <3>1, <3>2 DEF LeaseIn, QueuedOnce
    <3>3. CASE k \notin DOMAIN s.idle_queue /\ l \notin DOMAIN s.idle_queue
      BY <1>8, <3>3
    <3>4. CASE k \in DOMAIN s.idle_queue /\ l \notin DOMAIN s.idle_queue
      BY <1>5, <1>8, <1>9, <2>2, <3>1, <3>4 DEF InQueue
    <3>5. CASE k \notin DOMAIN s.idle_queue /\ l \in DOMAIN s.idle_queue
      BY <1>5, <1>8, <1>9, <2>2, <3>1, <3>5 DEF InQueue
    <3>. QED
      BY <3>2, <3>3, <3>4, <3>5
  <2>. QED
    BY <2>1, <2>2 DEF QueuedOnce
<1>11. Indexed(r)
  BY <1>3 DEF LeaseIn, Indexed
<1>12. ASSUME NEW u \in U \ {t}
       PROVE  Leased(r, sl[u], f[u])
  <2>1. /\ sl[u] \in DOMAIN s.workers /\ (f[u] <= N => sl[u] = f[u])
        /\ Fixed(s, sl[u]) => f[u] = s.workers[sl[u]].proc /\ ~InQueue(s, sl[u])
    BY <1>1 DEF LeaseIn, Leased
  <2>2. ASSUME Fixed(s, sl[u])
        PROVE  ~InQueue(r, sl[u])
    BY <1>6, <1>8, <1>9, <2>1, <2>2 DEF InQueue
  <2>. QED
    BY <1>3, <1>4, <2>1, <2>2 DEF Leased
<1>13. \A u, v \in U \ {t} : sl[u] = sl[v] /\ Fixed(r, sl[u]) => u = v
  BY <1>1, <1>4 DEF LeaseIn, Leased
<1>14. \A u, v \in U \ {t} : f[u] = f[v] /\ (r.mode = "process" \/ f[u] <= N) => u = v
  BY <1>3 DEF LeaseIn
<1>. QED
  BY <1>10, <1>11, <1>12, <1>13, <1>14 DEF LeaseIn

Users == {t \in Tasks : User(t)}

Lease == Named => LeaseIn(w, Users, slot, fd)

\* No background task works on a named pool.
LEMMA NamedIsQuiet ==
    ASSUME Types, Named
    PROVE  ~Background
<1>1. scaler.at = "check" /\ ~conf.autoScale /\ holder # "watcher"
  BY DEF Types, ConfOK, Named
<1>. QED
  BY <1>1 DEF Background, ReaperTick, refresh_fds, ScalerCheck, ScalerUp, ScalerDown, WatcherReload,
              WatcherRespawn

\* What the steps of a named pool do to the pool and to the tasks that use
\* its workers.
LEMMA NamedSteps ==
    ASSUME Types, Named, [Next]_vars
    PROVE  \/ BooksStep /\ UNCHANGED <<slot, fd>> /\ Users' = Users
           \/ \E t \in Tasks : NamedClaim(t)
           \/ \E t \in Tasks : NamedReturn(t)
           \/ w' \in {Terminated(w), Cleared(w)} /\ UNCHANGED <<slot, fd>> /\ Users' = Users
<1> DEFINE Goal == \/ BooksStep /\ UNCHANGED <<slot, fd>> /\ Users' = Users
                   \/ \E t \in Tasks : NamedClaim(t)
                   \/ \E t \in Tasks : NamedReturn(t)
                   \/ w' \in {Terminated(w), Cleared(w)} /\ UNCHANGED <<slot, fd>> /\ Users' = Users
<1>1. /\ w \in Pool /\ scaler.at = "check" /\ ~conf.autoScale /\ holder # "watcher"
      /\ pc \in [Tasks -> Labels] /\ \A t \in Tasks : pc[t] # "kill"
  BY DEF Types, Sound, ConfOK, TaskOK, Named
<1>2. w' = w => BooksStep
  BY <1>1 DEF BooksStep, SameBooks
<1>3. UNCHANGED pc => Users' = Users
  BY DEF Users, User
<1>4. ASSUME NEW t \in Tasks, Handler(t) \/ Unforced(t)
      PROVE  Goal
  <2>1. CASE NamedAcquire(t) \/ NamedTimeout(t) \/ NamedLeave(t)
    <3>1. /\ w' = w /\ UNCHANGED <<slot, fd>>
          /\ \/ UNCHANGED pc
             \/ pc[t] = "permit" /\ (Goto(t, "claim") \/ Goto(t, "done"))
      BY <2>1 DEF NamedAcquire, NamedTimeout, NamedLeave
    <3>2. Users' = Users
      BY <1>1, <1>3, <3>1 DEF Users, User, Goto
    <3>. QED
      BY <1>2, <3>1, <3>2
  <2>2. CASE NamedRead(t)
    <3>1. BooksStep
      BY <2>2, ReadBooks
    <3>2. UNCHANGED <<slot, fd>> /\ pc[t] = "read" /\ Goto(t, "return")
      BY <2>2 DEF NamedRead
    <3>3. Users' = Users
      BY <1>1, <3>2 DEF Users, User, Goto
    <3>. QED
      BY <3>1, <3>2, <3>3
  <2>3. CASE ClosedUnder(t)
    <3>1. w' = w /\ UNCHANGED <<slot, fd>> /\ pc[t] = "read" /\ Goto(t, "return")
      BY <2>3 DEF ClosedUnder
    <3>2. Users' = Users
      BY <1>1, <3>1 DEF Users, User, Goto
    <3>. QED
      BY <1>2, <3>1, <3>2
  <2>4. CASE NamedClaim(t) \/ NamedReturn(t)
    BY <2>4
  <2>5. /\ ~get_idle(t) /\ ~get_idleNone(t) /\ ~DefaultSend(t) /\ ~DefaultRead(t)
        /\ ~DefaultLeave(t) /\ ~DefaultKill(t)
    BY <1>1 DEF get_idle, get_idleNone, DefaultSend, DefaultRead, DefaultLeave, DefaultKill
  <2>. QED
    BY <1>4, <2>1, <2>2, <2>3, <2>4, <2>5 DEF Handler, Unforced
<1>5. ~Background
  BY NamedIsQuiet
<1>6. ASSUME NEW p \in Procs, WorkerLoop(p) \/ BootFails(p) \/ Crash(p)
      PROVE  Goal
  <2>1. UNCHANGED <<pc, slot, fd>>
    BY <1>6 DEF WorkerLoop, Boot, Run, TermDies, BootFails, Crash, WorkerStep, taskVars
  <2>. QED
    BY <1>3, <1>6, <2>1, WorkerBooks
<1>7. CASE StopSignal \/ DrainConnections \/ Quiet \/ UNCHANGED vars
  <2>1. w' = w /\ UNCHANGED <<pc, slot, fd>>
    BY <1>7 DEF StopSignal, DrainConnections, Quiet, vars, taskVars
  <2>. QED
    BY <1>2, <1>3, <2>1
<1>8. CASE DrainWorkers \/ WorkersDrained
  <2>1. w' \in {Terminated(w), Cleared(w)} /\ UNCHANGED <<pc, slot, fd>>
    BY <1>8 DEF DrainWorkers, WorkersDrained, taskVars
  <2>. QED
    BY <1>3, <2>1
<1>. QED
  BY <1>4, <1>5, <1>6, <1>7, <1>8 DEF Next, Draining

LEMMA InitLease ==
    ASSUME Init
    PROVE  Lease
<1>1. /\ DOMAIN w.workers = 1 .. N /\ \A i \in 1 .. N : w.workers[i].proc = i
      /\ DOMAIN w.idle_queue = 1 .. N /\ \A i \in 1 .. N : w.idle_queue[i] = i
  BY InitPool
<1>2. Users = {}
  BY DEF Init, Users, User
<1>3. Indexed(w) /\ QueuedOnce(w)
  BY <1>1 DEF Indexed, QueuedOnce
<1>. QED
  BY <1>2, <1>3 DEF Lease, LeaseIn

\* The pool the claim is made in has the leases that were given.
LEMMA TriedLease ==
    ASSUME Types, Named, Lease, NEW s, Tried(s), Sound(s), w.workers # <<>>
    PROVE  LeaseIn(s, Users, slot, fd)
<1>1. LeaseIn(w, Users, slot, fd) /\ Sound(w) /\ w \in Pool
  BY DEF Lease, Types, Sound
<1>2. CASE s = w
  BY <1>1, <1>2
<1>3. CASE Refilled(PopTo(w, 0), s)
  <2>1. 0 \in 0 .. Len(w.idle_queue)
    BY <1>1, WorkerOf
  <2>2. PICK m : m = PopTo(w, 0)
    OBVIOUS
  <2>3. /\ m \in Pool /\ SameWorkers(w, m) /\ m.workers = w.workers
        /\ DOMAIN m.idle_queue = 1 .. 0
    BY <1>1, <2>1, <2>2, PopToEffect
  <2>4. \A k \in DOMAIN m.idle_queue : k \in DOMAIN w.idle_queue /\ m.idle_queue[k] = w.idle_queue[k]
    BY <2>3
  <2>5. LeaseIn(m, Users, slot, fd)
    BY <1>1, <2>3, <2>4, ShorterKeepsLease
  <2>6. Sound(m)
    BY <1>1, <2>3, SameKeepsSound
  <2>. QED
    BY <1>3, <2>2, <2>3, <2>5, <2>6, RefilledKeepsLease
<1>. QED
  BY <1>2, <1>3 DEF Tried

\* A task that claims is not one that reads.
LEMMA ClaimUsers ==
    ASSUME TaskOK, NEW t \in Tasks, pc[t] \in {"claim", "return"}
    PROVE  /\ Goto(t, "done") => Users' = Users \ {t}
           /\ Goto(t, "read") => Users' = Users \union {t}
           /\ pc[t] = "claim" => t \notin Users
           /\ pc[t] = "return" => t \in Users
<1>1. pc \in [Tasks -> Labels]
  BY DEF TaskOK
<1>. QED
  BY <1>1 DEF Users, User, Goto

LEMMA NextLease ==
    ASSUME Types, Lease, [Next]_vars
    PROVE  Lease'
<1> SUFFICES ASSUME Named'
             PROVE  (LeaseIn(w, Users, slot, fd))'
  BY DEF Lease
<1>1. Named
  BY NextConf DEF ConfStep, Named
<1>2. LeaseIn(w, Users, slot, fd) /\ Sound(w) /\ w \in Pool /\ TaskOK
  BY <1>1 DEF Lease, Types, Sound
<1>3. slot \in [Tasks -> 0 .. MaxProcs] /\ fd \in [Tasks -> 0 .. MaxProcs]
  BY <1>2 DEF TaskOK
<1>4. CASE BooksStep /\ UNCHANGED <<slot, fd>> /\ Users' = Users
  <2>1. SameWorkers(w, w') /\ w'.workers = w.workers /\ w'.idle_queue = w.idle_queue
    BY <1>2, <1>4, BooksKeepSound DEF BooksStep, SameBooks
  <2>2. LeaseIn(w', Users, slot, fd)
    BY <1>2, <2>1, ShorterKeepsLease
  <2>. QED
    BY <1>4, <2>2
<1>5. ASSUME NEW t \in Tasks, NamedClaim(t)
      PROVE  (LeaseIn(w, Users, slot, fd))'
  <2>1. PICK s : Tried(s) /\ Sound(s) /\ ClaimFrom(s, t) /\ s.mode = w.mode
    BY <1>2, <1>5, ClaimCases
  <2>2. s \in Pool /\ pc[t] = "claim"
    BY <1>5, <2>1 DEF Sound, NamedClaim
  <2>3. t \notin Users
    BY <1>2, <2>2, ClaimUsers
  <2>4. PICK k : k = get_idle_worker(s)
    OBVIOUS
  <2>5. CASE k = 0
    <3>1. w' = PopTo(s, 0) /\ Goto(t, "done") /\ UNCHANGED <<slot, fd>>
      BY <2>1, <2>4, <2>5, Zenon DEF ClaimFrom
    <3>2. Users' = Users
      BY <1>2, <2>2, <2>3, <3>1, ClaimUsers
    <3>3. 0 \in 0 .. Len(s.idle_queue)
      BY <2>2, WorkerOf
    <3>4. /\ SameWorkers(s, w') /\ w'.workers = s.workers /\ DOMAIN w'.idle_queue = 1 .. 0
      BY <2>2, <3>1, <3>3, PopToEffect
    <3>5. CASE w.workers # <<>>
      <4>1. LeaseIn(s, Users, slot, fd)
        BY <1>1, <2>1, <3>5, TriedLease
      <4>2. \A j \in DOMAIN w'.idle_queue : j \in DOMAIN s.idle_queue /\ w'.idle_queue[j] = s.idle_queue[j]
        BY <3>4
      <4>3. LeaseIn(w', Users, slot, fd)
        BY <3>4, <4>1, <4>2, ShorterKeepsLease
      <4>. QED
        BY <3>1, <3>2, <4>3
    <3>6. CASE w.workers = <<>>
      <4>1. s.workers = <<>>
        BY <2>1, <3>6 DEF Tried
      <4>2. w'.workers = <<>> /\ w'.mode = w.mode /\ DOMAIN w'.idle_queue = {}
        BY <2>1, <3>4, <4>1 DEF SameWorkers
      <4>3. \A v, u \in Users : fd[v] = fd[u] /\ (w'.mode = "process" \/ fd[v] <= N) => v = u
        BY <1>2, <4>2 DEF LeaseIn
      <4>4. LeaseIn(w', Users, slot, fd)
        BY <4>2, <4>3, EmptyLease
      <4>. QED
        BY <3>1, <3>2, <4>4
    <3>. QED
      BY <3>5, <3>6
  <2>6. CASE k # 0
    <3>1. PICK i : i = s.idle_queue[k]
      OBVIOUS
    <3>2. PICK b : b = mark_busy(PopTo(s, k), i)
      OBVIOUS
    <3>3. PICK p : p = s.workers[i].proc
      OBVIOUS
    <3>4. /\ i \in DOMAIN s.workers /\ i \in Procs /\ p \in Procs
          /\ b \in Pool /\ SameWorkers(s, b)
      BY <2>1, <2>4, <2>6, <3>1, <3>2, <3>3, MarkedEffect
    <3>5. w.workers # <<>>
      BY <2>1, <3>4, EmptySeq DEF Tried
    <3>6. LeaseIn(s, Users, slot, fd)
      BY <1>1, <2>1, <3>5, TriedLease
    <3>7. PICK sm : sm = [slot EXCEPT ![t] = i]
      OBVIOUS
    <3>8. PICK g : g = [fd EXCEPT ![t] = p]
      OBVIOUS
    <3>9. sm[t] = i /\ g[t] = p /\ \A u \in Users : sm[u] = slot[u] /\ g[u] = fd[u]
      BY <1>3, <2>3, <3>7, <3>8 DEF Users
    <3>10. LeaseIn(b, Users \union {t}, sm, g)
      <4>1. Sound(s)
        BY <2>1
      <4>2. Claimed(s, k, i, p, b)
        BY <2>4, <2>6, <3>1, <3>2, <3>3 DEF Claimed
      <4>3. Gives(sm, g, Users, slot, fd, t, i, p)
        BY <2>3, <3>9 DEF Gives
      <4>. QED
        BY <3>6, <4>1, <4>2, <4>3, ClaimLease
    <3>12. \/ w' = return_worker(b, i) /\ Goto(t, "done") /\ UNCHANGED <<slot, fd>>
           \/ w' = send(b, p, t) /\ Goto(t, "read") /\ slot' = sm /\ fd' = g
      BY <2>1, <2>4, <2>6, <3>1, <3>2, <3>3, <3>7, <3>8, Zenon DEF ClaimFrom
    <3>13. Sound(b) /\ i \in DOMAIN b.workers
      BY <2>1, <3>4, SameKeepsSound DEF SameWorkers
    <3>14. CASE w' = return_worker(b, i) /\ Goto(t, "done") /\ UNCHANGED <<slot, fd>>
      <4>1. LeaseIn(w', (Users \union {t}) \ {t}, sm, g)
        BY <3>4, <3>9, <3>10, <3>13, <3>14, ReturnLease
      <4>2. (Users \union {t}) \ {t} = Users
        BY <2>3
      <4>3. LeaseIn(w', Users, slot, fd)
        BY <3>9, <4>1, <4>2 DEF LeaseIn
      <4>4. Users' = Users
        BY <1>2, <2>2, <2>3, <3>14, ClaimUsers
      <4>. QED
        BY <3>14, <4>3, <4>4
    <3>15. CASE w' = send(b, p, t) /\ Goto(t, "read") /\ slot' = sm /\ fd' = g
      <4>1. t \in Commands
        BY DEF Commands
      <4>2. w' \in Pool /\ SameBooks(b, w')
        BY <3>4, <3>15, <4>1, SendEffect
      <4>3. SameWorkers(b, w') /\ w'.workers = b.workers /\ w'.idle_queue = b.idle_queue
        BY <3>13, <4>2, BooksKeepSound DEF SameBooks
      <4>4. LeaseIn(w', Users \union {t}, sm, g)
        BY <3>10, <4>3, ShorterKeepsLease
      <4>5. Users' = Users \union {t}
        BY <1>2, <2>2, <3>15, ClaimUsers
      <4>. QED
        BY <3>15, <4>4, <4>5
    <3>. QED
      BY <3>12, <3>14, <3>15
  <2>. QED
    BY <2>5, <2>6
<1>6. ASSUME NEW t \in Tasks, NamedReturn(t)
      PROVE  (LeaseIn(w, Users, slot, fd))'
  <2>1. /\ pc[t] = "return" /\ w' = return_worker(w, slot[t]) /\ Goto(t, "done")
        /\ UNCHANGED <<slot, fd>>
    BY <1>6 DEF NamedReturn
  <2>2. t \in Users /\ Users' = Users \ {t}
    BY <1>2, <2>1, ClaimUsers
  <2>3. CASE slot[t] \in DOMAIN w.workers
    <3>1. slot[t] \in Procs
      <4>1. DOMAIN w.workers = 1 .. Len(w.workers) /\ Len(w.workers) \in Nat
        BY <1>2, PoolNumbers
      <4>2. Len(w.workers) <= w.forked /\ w.forked \in 0 .. MaxProcs
        BY <1>2 DEF Sound, Pool
      <4>. QED
        BY <2>3, <4>1, <4>2 DEF Procs
    <3>2. LeaseIn(w', Users \ {t}, slot, fd)
      BY <1>2, <2>1, <2>2, <2>3, <3>1, ReturnLease
    <3>. QED
      BY <2>1, <2>2, <3>2
  <2>4. CASE slot[t] \notin DOMAIN w.workers
    <3>1. w' = w
      BY <2>1, <2>4 DEF return_worker
    <3>2. LeaseIn(w, Users \ {t}, slot, fd)
      BY <1>2 DEF LeaseIn
    <3>. QED
      BY <2>1, <2>2, <3>1, <3>2
  <2>. QED
    BY <2>3, <2>4
<1>8. CASE w' = Terminated(w) /\ UNCHANGED <<slot, fd>> /\ Users' = Users
  <2>1. w' \in Pool /\ SameWorkers(w, w') /\ w'.idle_queue = w.idle_queue
    BY <1>2, <1>8, TerminatedEffect
  <2>2. w.workers = <<>> => w'.workers = <<>>
    <3>1. w.workers = <<>> => Len(w'.workers) = 0
      BY <2>1, EmptySeq DEF SameWorkers
    <3>. QED
      BY <2>1, <3>1, EmptySeq DEF Pool
  <2>3. LeaseIn(w', Users, slot, fd)
    BY <1>2, <2>1, <2>2, ShorterKeepsLease
  <2>. QED
    BY <1>8, <2>3
<1>7. CASE w' = Cleared(w) /\ UNCHANGED <<slot, fd>> /\ Users' = Users
  <2>1. w'.workers = <<>> /\ w'.idle_queue = <<>> /\ w'.mode = w.mode
    BY <1>2, <1>7, ClearedEffect
  <2>2. DOMAIN w'.idle_queue = {}
    BY <2>1, EmptySeq
  <2>3. \A v, u \in Users : fd[v] = fd[u] /\ (w'.mode = "process" \/ fd[v] <= N) => v = u
    BY <1>2, <2>1 DEF LeaseIn
  <2>4. LeaseIn(w', Users, slot, fd)
    BY <2>1, <2>2, <2>3, EmptyLease
  <2>. QED
    BY <1>7, <2>4
<1>. QED
  BY <1>1, <1>4, <1>5, <1>6, <1>7, <1>8, NamedSteps

LEMMA LeaseGivesUsedByOne == Lease /\ Types => UsedByOne
<1> SUFFICES ASSUME Lease, Named, w.mode = "process", NEW t \in Tasks, NEW u \in Tasks, t # u,
                    {pc[t], pc[u]} \subseteq {"read", "return"}, fd[t] = fd[u]
             PROVE  FALSE
  BY DEF UsedByOne
<1>1. t \in Users /\ u \in Users
  BY DEF Users, User
<1>. QED
  BY <1>1 DEF Lease, LeaseIn

\* handle_request_inner: with whatever crashes, recycling, reaps, departing
\* clients and a shutdown in between, no two requests of a named pool of
\* processes ever read from the same worker.
THEOREM WorkersUsedByOne == Spec => []UsedByOne
<1>1. Init => Types /\ Lease
  BY InitTypes, InitLease
<1>2. (Types /\ Lease) /\ [Next]_vars => (Types /\ Lease)'
  BY NextTypes, NextLease
<1>3. Types /\ Lease => UsedByOne
  BY LeaseGivesUsedByOne
<1>. QED
  BY <1>1, <1>2, <1>3, PTL DEF Spec

----------------------------------------------------------------------------
(***************************************************************************)
(* Permits: an idle worker is queued and a busy one is with a task, so a   *)
(* request with a permit finds a worker, or the pool is short of one.      *)
(***************************************************************************)
PlacesIn(s, U, sl) ==
    /\ s.workers # <<>> => Len(s.workers) >= N
    /\ \A i \in DOMAIN s.workers : s.workers[i].state = "Idle" => InQueue(s, i)
    /\ \A i \in DOMAIN s.workers : s.workers[i].state = "Busy" => \E t \in U : sl[t] = i

LEMMA RefilledKeepsPlaces ==
    ASSUME NEW s, Sound(s), NEW r, Refilled(s, r), s.workers # <<>>,
           NEW U, NEW sl, PlacesIn(s, U, sl)
    PROVE  PlacesIn(r, U, sl)
<1>1. s \in Pool /\ r \in Pool
  BY DEF Sound, Refilled
<1>2. Len(r.workers) >= N
  <2>1. Len(s.workers) \in Nat /\ Len(r.workers) \in Nat
    BY <1>1, PoolNumbers
  <2>2. Len(s.workers) <= Len(r.workers) /\ Len(s.workers) >= N
    BY DEF Refilled, PlacesIn
  <2>3. \A a, b \in Nat : a <= b /\ a >= N => b >= N
    OBVIOUS
  <2>. QED
    BY <2>1, <2>2, <2>3
<1>3. DOMAIN s.idle_queue \subseteq DOMAIN r.idle_queue
  <2>1. /\ DOMAIN s.idle_queue = 1 .. Len(s.idle_queue) /\ Len(s.idle_queue) \in Nat
        /\ DOMAIN r.idle_queue = 1 .. Len(r.idle_queue) /\ Len(r.idle_queue) \in Nat
    BY <1>1, WorkerOf
  <2>2. Len(s.idle_queue) <= Len(r.idle_queue)
    BY DEF Refilled
  <2>3. \A a, b \in Nat : a <= b => 1 .. a \subseteq 1 .. b
    OBVIOUS
  <2>. QED
    BY <2>1, <2>2, <2>3
<1>4. \A i : InQueue(s, i) => InQueue(r, i)
  BY <1>3 DEF InQueue, Refilled
<1>5. ASSUME NEW i \in DOMAIN r.workers
      PROVE  /\ r.workers[i].state = "Idle" => InQueue(r, i)
             /\ r.workers[i].state = "Busy" => \E t \in U : sl[t] = i
  <2>1. CASE Kept(s, r, i)
    BY <1>4, <2>1 DEF Kept, PlacesIn
  <2>2. CASE Fresh(s, r, i)
    BY <2>2 DEF Fresh
  <2>. QED
    BY <2>1, <2>2 DEF Refilled
<1>. QED
  BY <1>2, <1>5 DEF PlacesIn

\* Where no idle worker is found there is none, and the queue can go.
LEMMA NoneIdle ==
    ASSUME NEW s \in Pool, get_idle_worker(s) = 0, NEW U, NEW sl, PlacesIn(s, U, sl)
    PROVE  /\ \A i \in DOMAIN s.workers : s.workers[i].state # "Idle"
           /\ PlacesIn(PopTo(s, 0), U, sl)
<1>1. DOMAIN s.idle_queue = 1 .. Len(s.idle_queue) /\ Len(s.idle_queue) \in Nat
  BY WorkerOf
<1>2. \A i \in DOMAIN s.workers : InQueue(s, i) => s.workers[i].state # "Idle"
  BY <1>1, IdleWorker
<1>3. \A i \in DOMAIN s.workers : s.workers[i].state # "Idle"
  BY <1>2 DEF PlacesIn
<1>4. 0 \in 0 .. Len(s.idle_queue)
  BY <1>1
<1>5. PopTo(s, 0).workers = s.workers
  BY <1>4, PopToEffect
<1>. QED
  BY <1>3, <1>5 DEF PlacesIn

LEMMA ClaimPlaces ==
    ASSUME NEW s, Sound(s), NEW k, NEW i, NEW p, NEW b, Claimed(s, k, i, p, b),
           NEW U, NEW sl, NEW f, PlacesIn(s, U, sl),
           NEW t, NEW sm, NEW g, Gives(sm, g, U, sl, f, t, i, p)
    PROVE  PlacesIn(b, U \union {t}, sm)
<1> USE DEF Claimed, Gives
<1>1. /\ k \in DOMAIN s.idle_queue /\ i \in DOMAIN s.workers
      /\ b \in Pool /\ SameWorkers(s, b) /\ b.workers[i].state = "Busy"
      /\ \A j \in DOMAIN s.workers : j # i => b.workers[j] = s.workers[j]
      /\ DOMAIN b.idle_queue = 1 .. k - 1
      /\ \A j \in 1 .. k - 1 : j \in DOMAIN s.idle_queue /\ b.idle_queue[j] = s.idle_queue[j]
  BY MarkedEffect
<1>2. s \in Pool
  BY DEF Sound
<1>3. DOMAIN s.idle_queue = 1 .. Len(s.idle_queue) /\ Len(s.idle_queue) \in Nat
  BY <1>2, WorkerOf
<1>4. \A l \in DOMAIN s.idle_queue : l > k =>
         \A j \in DOMAIN s.workers : s.idle_queue[l] = j => s.workers[j].state # "Idle"
  BY <1>2, IdleWorker
<1>5. ASSUME NEW j \in DOMAIN s.workers, j # i, s.workers[j].state = "Idle"
      PROVE  InQueue(b, j)
  <2>1. PICK l \in DOMAIN s.idle_queue : s.idle_queue[l] = j
    BY <1>5 DEF PlacesIn, InQueue
  <2>2. l # k /\ ~(l > k)
    BY <1>4, <1>5, <2>1
  <2>3. l \in 1 .. k - 1
    BY <1>1, <1>3, <2>1, <2>2
  <2>. QED
    BY <1>1, <2>1, <2>3 DEF InQueue
<1>6. DOMAIN b.workers = DOMAIN s.workers /\ Len(b.workers) = Len(s.workers)
  BY <1>1 DEF SameWorkers
<1>7. s.workers # <<>>
  BY <1>1, EmptySeq
<1>8. \A j \in DOMAIN b.workers : b.workers[j].state = "Idle" => InQueue(b, j)
  BY <1>1, <1>5, <1>6
<1>9. \A j \in DOMAIN b.workers : b.workers[j].state = "Busy" => \E u \in U \union {t} : sm[u] = j
  BY <1>1, <1>6 DEF PlacesIn
<1>. QED
  BY <1>6, <1>7, <1>8, <1>9 DEF PlacesIn

LEMMA ReturnPlaces ==
    ASSUME NEW s, Sound(s), NEW U, NEW t \in U, NEW sl, PlacesIn(s, U, sl),
           NEW i, i = sl[t], i \in DOMAIN s.workers, i \in Procs,
           NEW r, r = return_worker(s, i)
    PROVE  PlacesIn(r, U \ {t}, sl)
<1>1. s \in Pool /\ s.workers # <<>>
  BY EmptySeq DEF Sound
<1>2. /\ r \in Pool /\ SameWorkers(s, r)
      /\ \/ r.workers[i].state = "Stopping" /\ r.idle_queue = s.idle_queue
         \/ r.workers[i].state = "Idle" /\ r.idle_queue = Append(s.idle_queue, i)
      /\ \A j \in DOMAIN s.workers : j # i => r.workers[j] = s.workers[j]
  BY <1>1, ReturnEffect
<1>3. DOMAIN r.workers = DOMAIN s.workers /\ Len(r.workers) = Len(s.workers)
  BY <1>2 DEF SameWorkers
<1>4. PICK a \in Seq(Procs) : a = s.idle_queue
  BY <1>1 DEF Pool
<1>5. /\ DOMAIN a \subseteq DOMAIN Append(a, i) /\ \A k \in DOMAIN a : Append(a, i)[k] = a[k]
      /\ \E k \in DOMAIN Append(a, i) : Append(a, i)[k] = i
  BY <1>4, AppendProperties, LenProperties
<1>6. \A j : InQueue(s, j) => InQueue(r, j)
  BY <1>2, <1>4, <1>5 DEF InQueue
<1>7. r.workers[i].state = "Idle" => InQueue(r, i)
  BY <1>2, <1>4, <1>5 DEF InQueue
<1>8. \A j \in DOMAIN r.workers : r.workers[j].state = "Idle" => InQueue(r, j)
  BY <1>2, <1>3, <1>6, <1>7 DEF PlacesIn
<1>9. \A j \in DOMAIN r.workers : r.workers[j].state = "Busy" => \E u \in U \ {t} : sl[u] = j
  BY <1>2, <1>3 DEF PlacesIn
<1>. QED
  BY <1>1, <1>3, <1>8, <1>9 DEF PlacesIn

LEMMA EmptyPlaces ==
    ASSUME NEW r, r.workers = <<>>, NEW U, NEW sl
    PROVE  PlacesIn(r, U, sl)
<1>1. DOMAIN r.workers = {}
  BY EmptySeq
<1>. QED
  BY <1>1 DEF PlacesIn

Places == Named => PlacesIn(w, Users, slot)

LEMMA InitPlaces ==
    ASSUME Init
    PROVE  Places
<1>1. /\ DOMAIN w.workers = 1 .. N /\ Len(w.workers) = N
      /\ \A i \in 1 .. N : w.workers[i].state = "Idle"
      /\ DOMAIN w.idle_queue = 1 .. N /\ \A i \in 1 .. N : w.idle_queue[i] = i
  BY InitPool
<1>. QED
  BY <1>1 DEF Places, PlacesIn, InQueue

LEMMA TriedPlaces ==
    ASSUME Types, Named, Places, NEW s, Tried(s), Sound(s), w.workers # <<>>
    PROVE  PlacesIn(s, Users, slot)
<1>1. PlacesIn(w, Users, slot) /\ Sound(w) /\ w \in Pool
  BY DEF Places, Types, Sound
<1>2. CASE s = w
  BY <1>1, <1>2
<1>3. CASE Refilled(PopTo(w, 0), s) /\ get_idle_worker(w) = 0
  <2>1. 0 \in 0 .. Len(w.idle_queue)
    BY <1>1, WorkerOf
  <2>2. PICK m : m = PopTo(w, 0)
    OBVIOUS
  <2>3. m \in Pool /\ SameWorkers(w, m) /\ m.workers = w.workers
    BY <1>1, <2>1, <2>2, PopToEffect
  <2>4. PlacesIn(m, Users, slot)
    BY <1>1, <1>3, <2>2, NoneIdle
  <2>5. Sound(m)
    BY <1>1, <2>3, SameKeepsSound
  <2>. QED
    BY <1>3, <2>2, <2>3, <2>4, <2>5, RefilledKeepsPlaces
<1>. QED
  BY <1>2, <1>3 DEF Tried

LEMMA NextPlaces ==
    ASSUME Types, Places, [Next]_vars
    PROVE  Places'
<1> SUFFICES ASSUME Named'
             PROVE  (PlacesIn(w, Users, slot))'
  BY DEF Places
<1>1. Named
  BY NextConf DEF ConfStep, Named
<1>2. PlacesIn(w, Users, slot) /\ Sound(w) /\ w \in Pool /\ TaskOK
  BY <1>1 DEF Places, Types, Sound
<1>3. slot \in [Tasks -> 0 .. MaxProcs] /\ fd \in [Tasks -> 0 .. MaxProcs]
  BY <1>2 DEF TaskOK
<1>4. CASE BooksStep /\ UNCHANGED <<slot, fd>> /\ Users' = Users
  <2>1. w'.workers = w.workers /\ w'.idle_queue = w.idle_queue
    BY <1>4 DEF BooksStep, SameBooks
  <2>2. PlacesIn(w', Users, slot)
    BY <1>2, <2>1 DEF PlacesIn, InQueue
  <2>. QED
    BY <1>4, <2>2
<1>5. ASSUME NEW t \in Tasks, NamedClaim(t)
      PROVE  (PlacesIn(w, Users, slot))'
  <2>1. PICK s : Tried(s) /\ Sound(s) /\ ClaimFrom(s, t)
    BY <1>2, <1>5, ClaimCases
  <2>2. s \in Pool /\ Sound(s) /\ pc[t] = "claim"
    BY <1>5, <2>1 DEF Sound, NamedClaim
  <2>3. t \notin Users
    BY <1>2, <2>2, ClaimUsers
  <2>4. PICK k : k = get_idle_worker(s)
    OBVIOUS
  <2>5. CASE k = 0
    <3>1. w' = PopTo(s, 0) /\ Goto(t, "done") /\ UNCHANGED <<slot, fd>>
      BY <2>1, <2>4, <2>5, Zenon DEF ClaimFrom
    <3>2. Users' = Users
      BY <1>2, <2>2, <2>3, <3>1, ClaimUsers
    <3>3. CASE w.workers # <<>>
      <4>1. PlacesIn(s, Users, slot)
        BY <1>1, <2>1, <3>3, TriedPlaces
      <4>2. PlacesIn(w', Users, slot)
        BY <2>2, <2>4, <2>5, <3>1, <4>1, NoneIdle
      <4>. QED
        BY <3>1, <3>2, <4>2
    <3>4. CASE w.workers = <<>>
      <4>1. s.workers = <<>>
        BY <2>1, <3>4 DEF Tried
      <4>2. 0 \in 0 .. Len(s.idle_queue)
        BY <2>2, WorkerOf
      <4>3. w'.workers = <<>>
        BY <2>2, <3>1, <4>1, <4>2, PopToEffect
      <4>4. PlacesIn(w', Users, slot)
        BY <4>3, EmptyPlaces
      <4>. QED
        BY <3>1, <3>2, <4>4
    <3>. QED
      BY <3>3, <3>4
  <2>6. CASE k # 0
    <3>1. PICK i : i = s.idle_queue[k]
      OBVIOUS
    <3>2. PICK b : b = mark_busy(PopTo(s, k), i)
      OBVIOUS
    <3>3. PICK p : p = s.workers[i].proc
      OBVIOUS
    <3>4. /\ i \in DOMAIN s.workers /\ i \in Procs /\ p \in Procs
          /\ b \in Pool /\ SameWorkers(s, b)
      BY <2>2, <2>4, <2>6, <3>1, <3>2, <3>3, MarkedEffect
    <3>5. w.workers # <<>>
      BY <2>1, <3>4, EmptySeq DEF Tried
    <3>6. PlacesIn(s, Users, slot)
      BY <1>1, <2>1, <3>5, TriedPlaces
    <3>7. PICK sm : sm = [slot EXCEPT ![t] = i]
      OBVIOUS
    <3>8. PICK g : g = [fd EXCEPT ![t] = p]
      OBVIOUS
    <3>9. sm[t] = i /\ g[t] = p /\ \A u \in Users : sm[u] = slot[u] /\ g[u] = fd[u]
      BY <1>3, <2>3, <3>7, <3>8 DEF Users
    <3>10. PlacesIn(b, Users \union {t}, sm)
      <4>1. Claimed(s, k, i, p, b)
        BY <2>4, <2>6, <3>1, <3>2, <3>3 DEF Claimed
      <4>2. Gives(sm, g, Users, slot, fd, t, i, p)
        BY <2>3, <3>9 DEF Gives
      <4>. QED
        BY <2>2, <3>6, <4>1, <4>2, ClaimPlaces
    <3>11. \/ w' = return_worker(b, i) /\ Goto(t, "done") /\ UNCHANGED <<slot, fd>>
           \/ w' = send(b, p, t) /\ Goto(t, "read") /\ slot' = sm /\ fd' = g
      BY <2>1, <2>4, <2>6, <3>1, <3>2, <3>3, <3>7, <3>8, Zenon DEF ClaimFrom
    <3>12. Sound(b) /\ i \in DOMAIN b.workers
      BY <2>2, <3>4, SameKeepsSound DEF SameWorkers
    <3>13. CASE w' = return_worker(b, i) /\ Goto(t, "done") /\ UNCHANGED <<slot, fd>>
      <4>1. PlacesIn(w', (Users \union {t}) \ {t}, sm)
        BY <3>4, <3>9, <3>10, <3>12, <3>13, ReturnPlaces
      <4>2. (Users \union {t}) \ {t} = Users
        BY <2>3
      <4>3. PlacesIn(w', Users, slot)
        BY <3>9, <4>1, <4>2 DEF PlacesIn
      <4>4. Users' = Users
        BY <1>2, <2>2, <2>3, <3>13, ClaimUsers
      <4>. QED
        BY <3>13, <4>3, <4>4
    <3>14. CASE w' = send(b, p, t) /\ Goto(t, "read") /\ slot' = sm /\ fd' = g
      <4>1. t \in Commands
        BY DEF Commands
      <4>2. w'.workers = b.workers /\ w'.idle_queue = b.idle_queue
        BY <3>4, <3>14, <4>1, SendEffect DEF SameBooks
      <4>3. PlacesIn(w', Users \union {t}, sm)
        BY <3>10, <4>2 DEF PlacesIn, InQueue
      <4>4. Users' = Users \union {t}
        BY <1>2, <2>2, <3>14, ClaimUsers
      <4>. QED
        BY <3>14, <4>3, <4>4
    <3>. QED
      BY <3>11, <3>13, <3>14
  <2>. QED
    BY <2>5, <2>6
<1>6. ASSUME NEW t \in Tasks, NamedReturn(t)
      PROVE  (PlacesIn(w, Users, slot))'
  <2>1. /\ pc[t] = "return" /\ w' = return_worker(w, slot[t]) /\ Goto(t, "done")
        /\ UNCHANGED <<slot, fd>>
    BY <1>6 DEF NamedReturn
  <2>2. t \in Users /\ Users' = Users \ {t}
    BY <1>2, <2>1, ClaimUsers
  <2>3. CASE slot[t] \in DOMAIN w.workers
    <3>1. slot[t] \in Procs
      <4>1. DOMAIN w.workers = 1 .. Len(w.workers) /\ Len(w.workers) \in Nat
        BY <1>2, PoolNumbers
      <4>2. Len(w.workers) <= w.forked /\ w.forked \in 0 .. MaxProcs
        BY <1>2 DEF Sound, Pool
      <4>. QED
        BY <2>3, <4>1, <4>2 DEF Procs
    <3>2. PlacesIn(w', Users \ {t}, slot)
      BY <1>2, <2>1, <2>2, <2>3, <3>1, ReturnPlaces
    <3>. QED
      BY <2>1, <2>2, <3>2
  <2>4. CASE slot[t] \notin DOMAIN w.workers
    <3>1. w' = w
      BY <2>1, <2>4 DEF return_worker
    <3>2. PlacesIn(w, Users \ {t}, slot)
      BY <1>2, <2>4 DEF PlacesIn
    <3>. QED
      BY <2>1, <2>2, <3>1, <3>2
  <2>. QED
    BY <2>3, <2>4
<1>8. CASE w' = Terminated(w) /\ UNCHANGED <<slot, fd>> /\ Users' = Users
  <2>1. /\ w' \in Pool /\ w \in Pool /\ SameWorkers(w, w')
        /\ \A i \in DOMAIN w.workers : w'.workers[i].state = "Stopping"
    BY <1>2, <1>8, TerminatedEffect
  <2>2. /\ DOMAIN w'.workers = DOMAIN w.workers /\ Len(w'.workers) = Len(w.workers)
        /\ w'.workers # <<>> => w.workers # <<>>
    <3>1. w.workers = <<>> => Len(w'.workers) = 0
      BY <2>1, EmptySeq DEF SameWorkers
    <3>. QED
      BY <2>1, <3>1, EmptySeq DEF Pool, SameWorkers
  <2>3. PlacesIn(w', Users, slot)
    BY <1>2, <2>1, <2>2 DEF PlacesIn
  <2>. QED
    BY <1>8, <2>3
<1>7. CASE w' = Cleared(w) /\ UNCHANGED <<slot, fd>> /\ Users' = Users
  <2>1. w'.workers = <<>>
    BY <1>2, <1>7, ClearedEffect
  <2>2. PlacesIn(w', Users, slot)
    BY <2>1, EmptyPlaces
  <2>. QED
    BY <1>7, <2>2
<1>. QED
  BY <1>1, <1>4, <1>5, <1>6, <1>7, <1>8, NamedSteps

\* The tasks with a permit of the pool's semaphore.
Holders == {t \in Tasks : pc[t] \in {"claim", "read", "return"}}

Permits == Named => permits + Cardinality(Holders) = N

LEMMA HolderCount ==
    /\ IsFiniteSet(Holders) /\ Cardinality(Holders) \in Nat
    /\ IsFiniteSet(Users) /\ Cardinality(Users) \in Nat /\ Users \subseteq Holders
<1>1. Holders \in SUBSET Tasks /\ Users \in SUBSET Tasks /\ Users \subseteq Holders
  BY DEF Holders, Users, User
<1>2. IsFiniteSet(Tasks)
  BY TasksAssumption
<1>3. IsFiniteSet(Holders) /\ IsFiniteSet(Users)
  BY <1>1, <1>2, FS_Subset
<1>. QED
  BY <1>1, <1>3, FS_CardinalityType

LEMMA InitPermits ==
    ASSUME Init
    PROVE  Permits
<1>1. Holders = {} /\ permits = N
  BY DEF Init, Holders
<1>. QED
  BY <1>1, FS_EmptySet DEF Permits

LEMMA NextPermits ==
    ASSUME Types, Permits, [Next]_vars
    PROVE  Permits'
<1> SUFFICES ASSUME Named'
             PROVE  permits' + Cardinality(Holders') = N
  BY DEF Permits
<1>1. Named
  BY NextConf DEF ConfStep, Named
<1>2. /\ permits + Cardinality(Holders) = N /\ permits \in Nat /\ TaskOK
      /\ pc \in [Tasks -> Labels] /\ \A t \in Tasks : pc[t] # "kill"
  BY <1>1 DEF Permits, Types, BackOK, TaskOK
<1>3. IsFiniteSet(Holders) /\ Cardinality(Holders) \in Nat
  BY HolderCount
<1>4. CASE permits' = permits /\ Holders' = Holders
  BY <1>2, <1>4
<1>5. ASSUME NEW t \in Tasks, permits' = permits + 1, t \in Holders, Holders' = Holders \ {t}
      PROVE  permits' + Cardinality(Holders') = N
  <2>1. Cardinality(Holders \ {t}) = Cardinality(Holders) - 1
    BY <1>3, <1>5, FS_RemoveElement
  <2>. QED
    BY <1>2, <1>3, <1>5, <2>1
<1>6. ASSUME NEW t \in Tasks, permits' = permits - 1, t \notin Holders, Holders' = Holders \union {t}
      PROVE  permits' + Cardinality(Holders') = N
  <2>1. Cardinality(Holders \union {t}) = Cardinality(Holders) + 1
    BY <1>3, <1>6, FS_AddElement
  <2>. QED
    BY <1>2, <1>3, <1>6, <2>1
<1>7. UNCHANGED pc => Holders' = Holders
  BY DEF Holders
<1>8. ASSUME NEW t \in Tasks, Handler(t) \/ Unforced(t)
      PROVE  permits' + Cardinality(Holders') = N
  <2>1. CASE NamedAcquire(t)
    <3>1. permits' = permits - 1 /\ pc[t] = "permit" /\ Goto(t, "claim")
      BY <2>1 DEF NamedAcquire
    <3>2. t \notin Holders /\ Holders' = Holders \union {t}
      BY <1>2, <3>1 DEF Holders, Goto
    <3>. QED
      BY <1>6, <3>1, <3>2
  <2>2. CASE NamedTimeout(t) \/ NamedLeave(t) \/ NamedRead(t) \/ ClosedUnder(t)
    <3>1. /\ permits' = permits
          /\ \/ UNCHANGED pc
             \/ pc[t] = "permit" /\ Goto(t, "done")
             \/ pc[t] = "read" /\ Goto(t, "return")
      BY <1>1, <2>2 DEF NamedTimeout, NamedLeave, NamedRead, ClosedUnder
    <3>2. Holders' = Holders
      BY <1>2, <1>7, <3>1 DEF Holders, Goto
    <3>. QED
      BY <1>4, <3>1, <3>2
  <2>3. CASE NamedClaim(t)
    <3>1. /\ pc[t] = "claim"
          /\ \/ permits' = permits + 1 /\ Goto(t, "done")
             \/ permits' = permits /\ Goto(t, "read")
      BY <2>3 DEF NamedClaim
    <3>2. t \in Holders /\ (Goto(t, "done") => Holders' = Holders \ {t})
          /\ (Goto(t, "read") => Holders' = Holders)
      BY <1>2, <3>1 DEF Holders, Goto
    <3>. QED
      BY <1>4, <1>5, <3>1, <3>2
  <2>4. CASE NamedReturn(t)
    <3>1. pc[t] = "return" /\ permits' = permits + 1 /\ Goto(t, "done")
      BY <2>4 DEF NamedReturn
    <3>2. t \in Holders /\ Holders' = Holders \ {t}
      BY <1>2, <3>1 DEF Holders, Goto
    <3>. QED
      BY <1>5, <3>1, <3>2
  <2>5. /\ ~get_idle(t) /\ ~get_idleNone(t) /\ ~DefaultSend(t) /\ ~DefaultRead(t)
        /\ ~DefaultLeave(t) /\ ~DefaultKill(t)
    BY <1>1, <1>2 DEF get_idle, get_idleNone, DefaultSend, DefaultRead, DefaultLeave, DefaultKill
  <2>. QED
    BY <1>8, <2>1, <2>2, <2>3, <2>4, <2>5 DEF Handler, Unforced
<1>9. CASE Background
  <2>1. UNCHANGED <<pc, permits>>
    BY <1>9 DEF Background, ReaperTick, refresh_fds, ScalerCheck, ScalerUp, ScalerDown,
                WatcherReload, WatcherRespawn, taskVars
  <2>. QED
    BY <1>4, <1>7, <2>1
<1>10. ASSUME NEW p \in Procs, WorkerLoop(p) \/ BootFails(p) \/ Crash(p)
       PROVE  permits' + Cardinality(Holders') = N
  <2>1. UNCHANGED <<pc, permits>>
    BY <1>10 DEF WorkerLoop, Boot, Run, TermDies, BootFails, Crash, WorkerStep, taskVars
  <2>. QED
    BY <1>4, <1>7, <2>1
<1>11. CASE StopSignal \/ Draining \/ Quiet \/ UNCHANGED vars
  <2>1. UNCHANGED <<pc, permits>>
    BY <1>11 DEF StopSignal, Draining, DrainWorkers, WorkersDrained, DrainConnections, Quiet,
                    vars, taskVars
  <2>. QED
    BY <1>4, <1>7, <2>1
<1>. QED
  BY <1>8, <1>9, <1>10, <1>11 DEF Next

\* With a permit in hand there is an idle worker, or one is leaving: the tasks
\* that use a worker are fewer than the workers.
LEMMA FoundOrShort ==
    ASSUME Types, Named, Permits, NEW t \in Tasks, pc[t] = "claim",
           NEW s \in Pool, get_idle_worker(s) = 0, PlacesIn(s, Users, slot)
    PROVE  Short(PopTo(s, 0))
<1> SUFFICES ASSUME ~Short(PopTo(s, 0))
             PROVE  FALSE
  OBVIOUS
<1>1. 0 \in 0 .. Len(s.idle_queue)
  BY WorkerOf
<1>2. PopTo(s, 0).workers = s.workers
  BY <1>1, PopToEffect
<1>3. s.workers # <<>> /\ \A i \in DOMAIN s.workers : s.workers[i].state \notin {"Stopping", "Exited"}
  BY <1>2 DEF Short
<1>4. \A i \in DOMAIN s.workers : s.workers[i].state = "Busy"
  <2>1. \A i \in DOMAIN s.workers : s.workers[i] \in Worker
    BY WorkerOf
  <2>2. \A i \in DOMAIN s.workers : s.workers[i].state \in States
    BY <2>1 DEF Worker
  <2>3. \A i \in DOMAIN s.workers : s.workers[i].state # "Idle"
    BY NoneIdle
  <2>. QED
    BY <1>3, <2>2, <2>3 DEF States
<1>5. \A i \in 1 .. N : i \in DOMAIN s.workers
  <2>1. Len(s.workers) >= N /\ Len(s.workers) \in Nat /\ DOMAIN s.workers = 1 .. Len(s.workers)
    BY <1>3, PoolNumbers DEF PlacesIn
  <2>. QED
    BY <2>1
<1>6. \A i \in 1 .. N : \E u \in Users : slot[u] = i
  BY <1>4, <1>5 DEF PlacesIn
<1>7. Cardinality(Users) < N
  <2>1. t \in Holders /\ Users \subseteq Holders \ {t}
    BY DEF Holders, Users, User
  <2>2. IsFiniteSet(Holders) /\ Cardinality(Holders) \in Nat /\ Cardinality(Users) \in Nat
    BY HolderCount
  <2>3. /\ IsFiniteSet(Holders \ {t})
        /\ Cardinality(Holders \ {t}) = Cardinality(Holders) - 1
    BY <2>1, <2>2, FS_RemoveElement
  <2>4. Users \in SUBSET (Holders \ {t})
    BY <2>1
  <2>5. Cardinality(Users) <= Cardinality(Holders \ {t})
    BY <2>3, <2>4, FS_Subset
  <2>6. permits + Cardinality(Holders) = N /\ permits \in Nat
    BY DEF Permits, Types, BackOK
  <2>7. PICK h \in Nat : h = Cardinality(Holders)
    BY <2>2
  <2>8. PICK u \in Nat : u = Cardinality(Users)
    BY <2>2
  <2>9. u <= h - 1 /\ permits + h = N
    BY <2>3, <2>5, <2>6, <2>7, <2>8
  <2>10. u < N
    BY <2>6, <2>7, <2>8, <2>9
  <2>. QED
    BY <2>8, <2>10
<1>8. PICK f : f = [i \in 1 .. N |-> CHOOSE u \in Users : slot[u] = i]
  OBVIOUS
<1>9. f \in [1 .. N -> Users] /\ \A i \in 1 .. N : slot[f[i]] = i
  BY <1>6, <1>8
<1>10. IsFiniteSet(1 .. N) /\ Cardinality(1 .. N) = N
  BY FS_Interval
<1>11. IsFiniteSet(Users)
  BY HolderCount
<1>12. Cardinality(Users) < Cardinality(1 .. N)
  BY <1>7, <1>10
<1>13. \E x, y \in 1 .. N : x # y /\ f[x] = f[y]
  BY <1>9, <1>10, <1>11, <1>12, FS_PigeonHole
<1>. QED
  BY <1>9, <1>13

\* Only a claim answers "All workers busy", and it notes why.
LEMMA NextBusy ==
    ASSUME Types, Places, Permits, BusyForCause, [Next]_vars
    PROVE  BusyForCause'
<1>1. out \in [Tasks -> {None, "ok", "gone", "reset", "502", "503", "504"}] /\ Sound(w) /\ w \in Pool
  BY DEF Types, TaskOK, Sound
<1>2. CASE UNCHANGED short /\ \A u \in Tasks : out'[u] = "503" => out[u] = "503"
  BY <1>2 DEF BusyForCause
<1>3. ASSUME NEW t \in Tasks, UNCHANGED short,
             UNCHANGED out \/ \E o \in {"ok", "gone", "reset", "502", "504"} : Answer(t, o)
      PROVE  BusyForCause'
  <2>1. CASE UNCHANGED out
    BY <1>2, <1>3, <2>1
  <2>2. ASSUME NEW o \in {"ok", "gone", "reset", "502", "504"}, Answer(t, o)
        PROVE  BusyForCause'
    <3>1. \A u \in Tasks : out'[u] = "503" => out[u] = "503"
      BY <1>1, <2>2 DEF Answer
    <3>. QED
      BY <1>2, <1>3, <3>1
  <2>. QED
    BY <1>3, <2>1, <2>2
<1>4. ASSUME NEW t \in Tasks, NamedClaim(t)
      PROVE  BusyForCause'
  <2>1. PICK s : Tried(s) /\ Sound(s) /\ ClaimFrom(s, t)
    BY <1>1, <1>4, ClaimCases
  <2>2. s \in Pool /\ Named /\ pc[t] = "claim"
    BY <1>4, <2>1 DEF Sound, NamedClaim
  <2>3. CASE get_idle_worker(s) = 0
    <3>1. short' = Short(PopTo(s, 0))
      BY <2>1, <2>3, Zenon DEF ClaimFrom
    <3>2. CASE w.workers # <<>>
      <4>1. PlacesIn(s, Users, slot)
        BY <2>1, <2>2, <3>2, TriedPlaces
      <4>2. Short(PopTo(s, 0))
        BY <2>2, <2>3, <4>1, FoundOrShort
      <4>. QED
        BY <3>1, <4>2 DEF BusyForCause
    <3>3. CASE w.workers = <<>>
      <4>1. s.workers = <<>>
        BY <2>1, <3>3 DEF Tried
      <4>2. 0 \in 0 .. Len(s.idle_queue)
        BY <2>2, WorkerOf
      <4>3. PopTo(s, 0).workers = <<>>
        BY <2>2, <4>1, <4>2, PopToEffect
      <4>4. Short(PopTo(s, 0))
        BY <4>3 DEF Short
      <4>. QED
        BY <3>1, <4>4 DEF BusyForCause
    <3>. QED
      BY <3>2, <3>3
  <2>4. CASE get_idle_worker(s) # 0
    <3>1. UNCHANGED short /\ (UNCHANGED out \/ Answer(t, "502"))
      BY <2>1, <2>4, Zenon DEF ClaimFrom
    <3>. QED
      BY <1>3, <3>1
  <2>. QED
    BY <2>3, <2>4
<1>5. ASSUME NEW t \in Tasks, Handler(t) \/ Unforced(t)
      PROVE  BusyForCause'
  <2>1. CASE NamedAcquire(t) \/ NamedTimeout(t) \/ NamedRead(t) \/ NamedReturn(t)
               \/ get_idle(t) \/ get_idleNone(t) \/ DefaultKill(t)
    BY <1>3, <2>1 DEF NamedAcquire, NamedTimeout, NamedRead, NamedReturn, get_idle, get_idleNone,
                      DefaultKill
  <2>2. CASE DefaultSend(t) \/ DefaultLeave(t) \/ ClosedUnder(t)
    BY <1>3, <2>2 DEF DefaultSend, DefaultLeave, ClosedUnder, Fail
  <2>3. CASE DefaultRead(t)
    <3>1. UNCHANGED short /\ (Answer(t, "ok") \/ Answer(t, "502"))
      BY <2>3, Zenon DEF DefaultRead, Fail
    <3>. QED
      BY <1>3, <3>1
  <2>4. CASE NamedLeave(t)
    <3>1. UNCHANGED short /\ out' = [out EXCEPT ![t] = "gone"]
      BY <2>4 DEF NamedLeave
    <3>2. \A u \in Tasks : out'[u] = "503" => out[u] = "503"
      BY <1>1, <3>1
    <3>. QED
      BY <1>2, <3>1, <3>2
  <2>. QED
    BY <1>4, <1>5, <2>1, <2>2, <2>3, <2>4 DEF Handler, Unforced
<1>6. CASE UNCHANGED <<short, out>>
  BY <1>2, <1>6
<1>7. CASE Background
  BY <1>6, <1>7 DEF Background, ReaperTick, refresh_fds, ScalerCheck, ScalerUp, ScalerDown,
                    WatcherReload, WatcherRespawn, taskVars
<1>8. ASSUME NEW p \in Procs, WorkerLoop(p) \/ BootFails(p) \/ Crash(p)
      PROVE  BusyForCause'
  BY <1>6, <1>8 DEF WorkerLoop, Boot, Run, TermDies, BootFails, Crash, WorkerStep, taskVars
<1>9. CASE StopSignal \/ Draining \/ Quiet \/ UNCHANGED vars
  BY <1>6, <1>9 DEF StopSignal, Draining, DrainWorkers, WorkersDrained, DrainConnections, Quiet,
                    vars, taskVars
<1>. QED
  BY <1>5, <1>7, <1>8, <1>9 DEF Next

\* handle_request_inner: a request of a named pool that has its permit is told
\* "All workers busy" only if a worker is leaving, could not be replaced, or
\* the pool is shut down.
THEOREM BusyHasCause == Spec => []BusyForCause
<1>1. Init => Types /\ Places /\ Permits /\ BusyForCause
  <2>1. Init => BusyForCause
    BY DEF Init, BusyForCause, None
  <2>. QED
    BY <2>1, InitTypes, InitPlaces, InitPermits
<1>2. (Types /\ Places /\ Permits /\ BusyForCause) /\ [Next]_vars
         => (Types /\ Places /\ Permits /\ BusyForCause)'
  BY NextTypes, NextPlaces, NextPermits, NextBusy
<1>. QED
  BY <1>1, <1>2, PTL DEF Spec

----------------------------------------------------------------------------
(***************************************************************************)
(* Answers: what is in the pipes of a worker of the first generation       *)
(* belongs to the one task that reads from it.                             *)
(***************************************************************************)

\* Of a worker with life l, commands c and responses r, read by the tasks R:
\* at most one request is on its way, and it or its response is a reader's.
Clean(l, c, r, R) ==
    /\ l \in {"up", "dead"}
    /\ l = "dead" => c = <<>>
    /\ \A k \in DOMAIN c : c[k] # "Shutdown" =>
          c[k] \in R /\ r = <<>> /\ \A j \in DOMAIN c : c[j] = "Shutdown" \/ j = k
    /\ \A k \in DOMAIN r : r[k] \in Tasks /\ (r[k] \in R \/ (l = "dead" /\ R = {}))

CleanAt(s, p, R) == p \notin s.closed => Clean(s.life[p], s.cmds[p], s.resps[p], R)

LEMMA CleanShutdown ==
    ASSUME NEW l, NEW c \in Seq(Commands), NEW r, NEW R, Clean(l, c, r, R), l # "dead"
    PROVE  Clean(l, Append(c, "Shutdown"), r, R)
<1>1. PICK d : d = Append(c, "Shutdown")
  OBVIOUS
<1>2. PICK n \in Nat : n = Len(c) /\ DOMAIN c = 1 .. n
  BY LenProperties
<1>3. "Shutdown" \in Commands
  BY DEF Commands
<1>4. DOMAIN d = 1 .. n + 1 /\ d[n + 1] = "Shutdown" /\ \A k \in 1 .. n : d[k] = c[k]
  BY <1>1, <1>2, <1>3, AppendProperties, LenProperties
<1>5. \A k \in DOMAIN d : d[k] = "Shutdown" \/ (k \in DOMAIN c /\ d[k] = c[k])
  BY <1>2, <1>4
<1>6. ASSUME NEW k \in DOMAIN d, d[k] # "Shutdown"
      PROVE  d[k] \in R /\ r = <<>> /\ \A j \in DOMAIN d : d[j] = "Shutdown" \/ j = k
  BY <1>5, <1>6 DEF Clean
<1>. QED
  BY <1>1, <1>6 DEF Clean

LEMMA CleanExit ==
    ASSUME NEW l, NEW c, NEW r, NEW R, Clean(l, c, r, R)
    PROVE  Clean("dead", <<>>, r, R)
<1>1. DOMAIN <<>> = {}
  BY EmptySeq
<1>. QED
  BY <1>1 DEF Clean

\* A request is sent to a live worker that nobody reads from.
LEMMA CleanSend ==
    ASSUME NEW l, NEW c \in Seq(Commands), NEW r \in Seq(Responses), Clean(l, c, r, {}), l # "dead",
           NEW t \in Tasks
    PROVE  Clean(l, Append(c, t), r, {t})
<1>1. PICK d : d = Append(c, t)
  OBVIOUS
<1>2. PICK n \in Nat : n = Len(c) /\ DOMAIN c = 1 .. n
  BY LenProperties
<1>3. t \in Commands
  BY DEF Commands
<1>4. DOMAIN d = 1 .. n + 1 /\ d[n + 1] = t /\ \A k \in 1 .. n : d[k] = c[k]
  BY <1>1, <1>2, <1>3, AppendProperties, LenProperties
<1>5. \A k \in DOMAIN c : c[k] = "Shutdown"
  BY DEF Clean
<1>6. DOMAIN r = {}
  BY DEF Clean
<1>7. r = <<>>
  <2>1. Len(r) \in Nat /\ DOMAIN r = 1 .. Len(r)
    BY LenProperties
  <2>2. Len(r) = 0
    BY <1>6, <2>1
  <2>. QED
    BY <2>2, EmptySeq
<1>8. \A k \in DOMAIN d : d[k] = "Shutdown" \/ k = n + 1
  BY <1>2, <1>4, <1>5
<1>9. ASSUME NEW k \in DOMAIN d, d[k] # "Shutdown"
      PROVE  d[k] \in {t} /\ r = <<>> /\ \A j \in DOMAIN d : d[j] = "Shutdown" \/ j = k
  BY <1>4, <1>7, <1>8, <1>9
<1>10. l \in {"up", "dead"}
  BY DEF Clean
<1>. QED
  BY <1>1, <1>6, <1>9, <1>10 DEF Clean

\* The worker runs the next request and writes its response.
LEMMA CleanRun ==
    ASSUME NEW l, NEW c \in Seq(Commands), NEW r \in Seq(Responses), NEW R, Clean(l, c, r, R),
           l # "dead", c # <<>>, Head(c) # "Shutdown"
    PROVE  Clean(l, Tail(c), Append(r, Head(c)), R)
<1>1. PICK n \in Nat \ {0} : n = Len(c) /\ DOMAIN c = 1 .. n
  BY LenProperties, EmptySeq
<1>2. /\ Tail(c) \in Seq(Commands) /\ Len(Tail(c)) = n - 1 /\ Head(c) = c[1]
      /\ \A k \in 1 .. n - 1 : Tail(c)[k] = c[k + 1]
  BY <1>1, HeadTailProperties
<1>3. PICK d \in Seq(Commands) : d = Tail(c)
  BY <1>2
<1>4. DOMAIN d = 1 .. n - 1 /\ \A k \in 1 .. n - 1 : d[k] = c[k + 1]
  BY <1>2, <1>3, LenProperties
<1>5. 1 \in DOMAIN c /\ c[1] # "Shutdown"
  BY <1>1, <1>2
<1>6. c[1] \in R /\ r = <<>> /\ \A j \in DOMAIN c : c[j] = "Shutdown" \/ j = 1
  BY <1>5 DEF Clean
<1>7. \A k \in DOMAIN d : d[k] = "Shutdown"
  <2>1. \A k \in 1 .. n - 1 : k + 1 \in 1 .. n /\ k + 1 # 1
    OBVIOUS
  <2>. QED
    BY <1>1, <1>4, <1>6, <2>1
<1>8. c[1] \in Tasks
  <2>1. c[1] \in Commands
    BY <1>1, <1>5, ElementOfSeq
  <2>. QED
    BY <1>5, <2>1 DEF Commands
<1>9. Append(r, c[1]) = <<c[1]>>
  BY <1>6
<1>10. DOMAIN <<c[1]>> = {1} /\ <<c[1]>>[1] = c[1]
  OBVIOUS
<1>11. l \in {"up", "dead"}
  BY DEF Clean
<1>12. Clean(l, d, <<c[1]>>, R)
  BY <1>6, <1>7, <1>8, <1>10, <1>11 DEF Clean
<1>. QED
  BY <1>2, <1>3, <1>9, <1>12

\* A response is read: the reader leaves, and with it what was behind it.
LEMMA CleanRead ==
    ASSUME NEW l, NEW c, NEW r \in Seq(Responses), NEW R, NEW Q, Clean(l, c, r, R), r # <<>>
    PROVE  Clean(l, c, <<>>, Q)
<1>1. DOMAIN <<>> = {}
  BY EmptySeq
<1>2. \A k \in DOMAIN c : c[k] = "Shutdown"
  BY DEF Clean
<1>. QED
  BY <1>1, <1>2 DEF Clean

\* Whatever a step does to the pipe ends that stay open, it is nothing to
\* those of the first generation, but for shutdown commands.
PipesKept(s, r) ==
    /\ s.closed \subseteq r.closed
    /\ \A p \in 1 .. N : p \notin r.closed =>
          /\ r.life[p] = s.life[p] /\ r.resps[p] = s.resps[p]
          /\ \/ r.cmds[p] = s.cmds[p]
             \/ r.cmds[p] = Append(s.cmds[p], "Shutdown") /\ s.life[p] # "dead"

LEMMA FirstProcs == \A p \in 1 .. N : p \in Procs
BY DEF Procs

LEMMA KeptIsClean ==
    ASSUME NEW s \in Pool, NEW r, PipesKept(s, r), NEW p \in 1 .. N, NEW R, CleanAt(s, p, R)
    PROVE  CleanAt(r, p, R)
<1> SUFFICES ASSUME p \notin r.closed
             PROVE  Clean(r.life[p], r.cmds[p], r.resps[p], R)
  BY DEF CleanAt
<1>1. p \notin s.closed
  BY DEF PipesKept
<1>2. Clean(s.life[p], s.cmds[p], s.resps[p], R)
  BY <1>1 DEF CleanAt
<1>3. s.cmds[p] \in Seq(Commands)
  BY FirstProcs DEF Pool
<1>4. r.life[p] = s.life[p] /\ r.resps[p] = s.resps[p]
  BY DEF PipesKept
<1>5. CASE r.cmds[p] = s.cmds[p]
  BY <1>2, <1>4, <1>5
<1>6. CASE r.cmds[p] = Append(s.cmds[p], "Shutdown") /\ s.life[p] # "dead"
  <2>1. PICK l : l = s.life[p]
    OBVIOUS
  <2>2. PICK c \in Seq(Commands) : c = s.cmds[p]
    BY <1>3
  <2>3. PICK x : x = s.resps[p]
    OBVIOUS
  <2>4. Clean(l, c, x, R) /\ l # "dead"
    BY <1>2, <1>6, <2>1, <2>2, <2>3
  <2>5. Clean(l, Append(c, "Shutdown"), x, R)
    BY <2>4, CleanShutdown
  <2>. QED
    BY <1>4, <1>6, <2>1, <2>2, <2>3, <2>5
<1>. QED
  BY <1>5, <1>6 DEF PipesKept

LEMMA PipesKeptBy ==
    ASSUME NEW s, Sound(s), NEW r
    PROVE  /\ SamePipes(s, r) => PipesKept(s, r)
           /\ Refilled(s, r) => PipesKept(s, r)
           /\ r = Cleared(s) => PipesKept(s, r)
<1>1. s \in Pool /\ N <= s.forked /\ s.forked \in Nat
  BY DEF Sound, Pool
<1>2. SamePipes(s, r) => PipesKept(s, r)
  BY FirstProcs DEF SamePipes, PipesKept
<1>3. Refilled(s, r) => PipesKept(s, r)
  <2> SUFFICES ASSUME Refilled(s, r)
               PROVE  PipesKept(s, r)
    OBVIOUS
  <2>1. /\ r.cmds = s.cmds /\ r.resps = s.resps /\ r.closed = s.closed
        /\ \A p \in Procs : p <= s.forked => r.life[p] = s.life[p]
    BY DEF Refilled
  <2>2. \A p \in 1 .. N : p \in Procs /\ p <= s.forked
    BY <1>1, FirstProcs
  <2>. QED
    BY <2>1, <2>2 DEF PipesKept
<1>4. r = Cleared(s) => PipesKept(s, r)
  BY <1>1, ClearedEffect DEF PipesKept
<1>. QED
  BY <1>2, <1>3, <1>4

----------------------------------------------------------------------------
(***************************************************************************)
(* Tokens: what is in the pipes of a first worker is its reader's.         *)
(***************************************************************************)
Readers(p) == {t \in Tasks : pc[t] = "read" /\ fd[t] = p}

OneRead == Named => \A p \in 1 .. N : \A t, u \in Readers(p) : t = u

LEMMA OneReader == Lease => OneRead
<1> SUFFICES ASSUME Lease, Named, NEW p \in 1 .. N, NEW t \in Readers(p), NEW u \in Readers(p)
             PROVE  t = u
  BY DEF OneRead
<1>1. t \in Tasks /\ u \in Tasks /\ pc[t] = "read" /\ pc[u] = "read" /\ fd[t] = p /\ fd[u] = p
  BY DEF Readers
<1>2. t \in Users /\ u \in Users /\ fd[t] <= N
  BY <1>1 DEF Users, User
<1>3. LeaseIn(w, Users, slot, fd)
  BY DEF Lease
<1>. QED
  BY <1>1, <1>2, <1>3 DEF LeaseIn

LEMMA NextOneRead ==
    ASSUME Types, Lease, [Next]_vars
    PROVE  OneRead'
BY NextLease, OneReader, PTL

\* A request is sent to a worker without readers.
LEMMA SendClean ==
    ASSUME NEW s \in Pool, NEW q \in Procs, NEW t \in Tasks, CanSend(s, q),
           NEW p \in 1 .. N, NEW R, CleanAt(s, p, R), q = p => R = {},
           NEW Q, Q = IF q = p THEN {t} ELSE R
    PROVE  CleanAt(send(s, q, t), p, Q)
<1>1. PICK r : r = send(s, q, t)
  OBVIOUS
<1>2. /\ r.life = s.life /\ r.resps = s.resps /\ r.closed = s.closed
      /\ r.cmds = IF q \notin s.closed THEN [s.cmds EXCEPT ![q] = Append(@, t)] ELSE s.cmds
  <2>1. t \in Commands
    BY DEF Commands
  <2>. QED
    BY <1>1, <2>1, SendEffect
<1>3. p \in Procs /\ s.cmds \in [Procs -> Seq(Commands)] /\ s.resps[p] \in Seq(Responses)
  BY FirstProcs DEF Pool
<1> SUFFICES ASSUME p \notin r.closed
             PROVE  Clean(r.life[p], r.cmds[p], r.resps[p], Q)
  BY <1>1 DEF CleanAt
<1>4. Clean(s.life[p], s.cmds[p], s.resps[p], R)
  BY <1>2 DEF CleanAt
<1>5. CASE q = p
  <2>1. PICK c \in Seq(Commands) : c = s.cmds[p]
    BY <1>3
  <2>2. PICK x \in Seq(Responses) : x = s.resps[p]
    BY <1>3
  <2>3. PICK l : l = s.life[p]
    OBVIOUS
  <2>4. Clean(l, c, x, {}) /\ l # "dead"
    BY <1>4, <1>5, <2>1, <2>2, <2>3 DEF CanSend
  <2>5. Clean(l, Append(c, t), x, {t})
    BY <2>4, CleanSend
  <2>6. r.cmds[p] = Append(c, t)
    BY <1>2, <1>3, <1>5, <2>1
  <2>. QED
    BY <1>2, <1>5, <2>2, <2>3, <2>5, <2>6
<1>6. CASE q # p
  <2>1. r.cmds[p] = s.cmds[p]
    BY <1>2, <1>3, <1>6
  <2>. QED
    BY <1>2, <1>4, <1>6, <2>1
<1>. QED
  BY <1>5, <1>6

\* A worker ends, with or without its reader.
Ended(s, r, q) ==
    /\ r.life = [s.life EXCEPT ![q] = "dead"] /\ r.cmds = [s.cmds EXCEPT ![q] = <<>>]
    /\ r.resps = s.resps /\ r.closed = s.closed

LEMMA EndedIsClean ==
    ASSUME NEW s \in Pool, NEW q \in Procs, NEW r, Ended(s, r, q),
           NEW p \in 1 .. N, NEW R, CleanAt(s, p, R)
    PROVE  CleanAt(r, p, R)
<1>1. p \in Procs /\ s.cmds \in [Procs -> Seq(Commands)] /\ s.life \in [Procs -> Lives]
  BY FirstProcs DEF Pool
<1> SUFFICES ASSUME p \notin r.closed
             PROVE  Clean(r.life[p], r.cmds[p], r.resps[p], R)
  BY DEF CleanAt
<1>2. Clean(s.life[p], s.cmds[p], s.resps[p], R)
  BY DEF CleanAt, Ended
<1>3. Clean("dead", <<>>, s.resps[p], R)
  BY <1>2, CleanExit
<1>4. r.resps[p] = s.resps[p]
  BY DEF Ended
<1>5. CASE q = p
  BY <1>1, <1>3, <1>4, <1>5 DEF Ended
<1>6. CASE q # p
  BY <1>1, <1>2, <1>4, <1>6 DEF Ended
<1>. QED
  BY <1>5, <1>6

\* One turn of a worker's loop.
LEMMA RunIsClean ==
    ASSUME NEW s \in Pool, NEW q \in Procs, s.cmds[q] # <<>>, s.life[q] = "up",
           NEW p \in 1 .. N, NEW R, CleanAt(s, p, R)
    PROVE  CleanAt(runs(s, q), p, R)
<1>1. PICK r : r = runs(s, q)
  OBVIOUS
<1>2. PICK h : h = Head(s.cmds[q])
  OBVIOUS
<1>3. /\ r.closed = s.closed
      /\ h = "Shutdown" => Ended(s, r, q)
      /\ h # "Shutdown" => /\ r.life = s.life
                           /\ r.cmds = [s.cmds EXCEPT ![q] = Tail(@)]
                           /\ r.resps = IF q \in s.closed THEN s.resps
                                        ELSE [s.resps EXCEPT ![q] = Append(@, h)]
  BY <1>1, <1>2, RunsEffect DEF Ended
<1>4. p \in Procs /\ s.cmds \in [Procs -> Seq(Commands)] /\ s.resps \in [Procs -> Seq(Responses)]
  BY FirstProcs DEF Pool
<1>5. CASE h = "Shutdown"
  <2>1. Ended(s, r, q)
    BY <1>3, <1>5
  <2>. QED
    BY <1>1, <2>1, EndedIsClean
<1>6. CASE h # "Shutdown"
  <2> SUFFICES ASSUME p \notin s.closed
               PROVE  Clean(r.life[p], r.cmds[p], r.resps[p], R)
    BY <1>1, <1>3 DEF CleanAt
  <2>1. Clean(s.life[p], s.cmds[p], s.resps[p], R)
    BY DEF CleanAt
  <2>2. CASE q = p
    <3>1. PICK c \in Seq(Commands) : c = s.cmds[p]
      BY <1>4
    <3>2. PICK x \in Seq(Responses) : x = s.resps[p]
      BY <1>4
    <3>3. PICK l : l = s.life[p]
      OBVIOUS
    <3>4. Clean(l, c, x, R) /\ l # "dead" /\ c # <<>> /\ Head(c) # "Shutdown" /\ h = Head(c)
      BY <1>2, <1>6, <2>1, <2>2, <3>1, <3>2, <3>3
    <3>5. Clean(l, Tail(c), Append(x, Head(c)), R)
      BY <3>4, CleanRun
    <3>6. r.cmds[p] = Tail(c) /\ r.resps[p] = Append(x, h) /\ r.life[p] = l
      BY <1>3, <1>4, <1>6, <2>2, <3>1, <3>2, <3>3
    <3>. QED
      BY <3>4, <3>5, <3>6
  <2>3. CASE q # p
    BY <1>3, <1>4, <1>6, <2>1, <2>3
  <2>. QED
    BY <2>2, <2>3
<1>. QED
  BY <1>5, <1>6

\* A response is read, or the end of the pipe is found: whoever reads later.
LEMMA ReadIsClean ==
    ASSUME NEW s \in Pool, NEW q \in Procs, NEW r,
           NEW p \in 1 .. N, NEW R, CleanAt(s, p, R), NEW Q, q # p => Q = R,
           \/ s.resps[q] # <<>> /\ r = Buffered(s, q)
           \/ s.resps[q] = <<>> /\ s.life[q] = "dead" /\ r = s
    PROVE  CleanAt(r, p, Q)
<1>1. \/ /\ r.closed = s.closed /\ r.cmds = s.cmds
         /\ r.life = s.life /\ r.resps = [s.resps EXCEPT ![q] = <<>>] /\ s.resps[q] # <<>>
      \/ s.resps[q] = <<>> /\ s.life[q] = "dead" /\ r = s
  BY BufferedEffect
<1>2. p \in Procs /\ s.resps \in [Procs -> Seq(Responses)]
  BY FirstProcs DEF Pool
<1> SUFFICES ASSUME p \notin s.closed
             PROVE  Clean(r.life[p], r.cmds[p], r.resps[p], Q)
  BY <1>1 DEF CleanAt
<1>3. Clean(s.life[p], s.cmds[p], s.resps[p], R)
  BY DEF CleanAt
<1>4. CASE q # p
  BY <1>1, <1>2, <1>3, <1>4
<1>5. CASE q = p /\ s.resps[q] # <<>>
  <2>1. PICK x \in Seq(Responses) : x = s.resps[p]
    BY <1>2
  <2>2. Clean(s.life[p], s.cmds[p], x, R) /\ x # <<>>
    BY <1>3, <1>5, <2>1
  <2>3. Clean(s.life[p], s.cmds[p], <<>>, Q)
    BY <2>2, CleanRead
  <2>4. r.life[p] = s.life[p] /\ r.cmds[p] = s.cmds[p] /\ r.resps[p] = <<>>
    BY <1>1, <1>2, <1>5
  <2>. QED
    BY <2>3, <2>4
<1>6. CASE q = p /\ s.resps[q] = <<>>
  <2>1. r = s /\ s.life[p] = "dead" /\ s.resps[p] = <<>>
    BY <1>1, <1>6
  <2>2. s.cmds[p] = <<>> /\ DOMAIN <<>> = {}
    BY <1>3, <2>1, EmptySeq DEF Clean
  <2>3. Clean("dead", <<>>, <<>>, Q)
    BY <2>2 DEF Clean
  <2>. QED
    BY <2>1, <2>2, <2>3
<1>. QED
  BY <1>4, <1>5, <1>6

LEMMA WorkersKeepClean ==
    ASSUME Types, NEW q \in Procs, WorkerLoop(q) \/ BootFails(q) \/ Crash(q),
           NEW p \in 1 .. N, NEW R, CleanAt(w, p, R)
    PROVE  CleanAt(w', p, R)
<1>1. w \in Pool
  BY DEF Types, Sound
<1>2. CASE w' = Exit(w, q)
  <2>1. Ended(w, w', q)
    BY <1>1, <1>2, ExitEffect DEF Ended
  <2>. QED
    BY <1>1, <2>1, EndedIsClean
<1>3. CASE BootFails(q)
  <2>1. PICK e : e = Exit(w, q)
    OBVIOUS
  <2>2. e \in Pool /\ Ended(w, e, q)
    BY <1>1, <2>1, ExitEffect DEF Ended
  <2>3. w' = [e EXCEPT !.faults = @ - 1]
    BY <1>3, <2>1 DEF BootFails, WorkerStep
  <2>4. w'.life = e.life /\ w'.cmds = e.cmds /\ w'.resps = e.resps /\ w'.closed = e.closed
    BY <2>2, <2>3 DEF Pool
  <2>5. Ended(w, w', q)
    BY <2>2, <2>4 DEF Ended
  <2>. QED
    BY <1>1, <2>5, EndedIsClean
<1>4. CASE Run(q)
  BY <1>1, <1>4, RunIsClean DEF Run, WorkerStep
<1>5. CASE Boot(q)
  <2>1. w.life[q] = "boot" /\ w' = boots(w, q)
    BY <1>5 DEF Boot, WorkerStep
  <2>2. /\ w'.closed = w.closed /\ w'.cmds = w.cmds
        /\ \A x \in Procs : x # q => w'.life[x] = w.life[x] /\ w'.resps[x] = w.resps[x]
    BY <1>1, <2>1, BootsEffect
  <2> SUFFICES ASSUME p \notin w'.closed
               PROVE  Clean(w'.life[p], w'.cmds[p], w'.resps[p], R)
    BY DEF CleanAt
  <2>3. Clean(w.life[p], w.cmds[p], w.resps[p], R)
    BY <2>2 DEF CleanAt
  <2>4. p # q
    BY <2>1, <2>3 DEF Clean
  <2>. QED
    BY <2>2, <2>3, <2>4, FirstProcs
<1>. QED
  BY <1>2, <1>3, <1>4, <1>5 DEF WorkerLoop, TermDies, Crash, WorkerStep

LEMMA DrainKeepsClean ==
    ASSUME Types, DrainWorkers \/ WorkersDrained, NEW p \in 1 .. N, NEW R, CleanAt(w, p, R)
    PROVE  CleanAt(w', p, R)
<1>1. Sound(w) /\ w \in Pool
  BY DEF Types, Sound
<1>2. w' = Terminated(w) \/ w' = Cleared(w)
  BY DEF DrainWorkers, WorkersDrained
<1>3. PipesKept(w, w')
  BY <1>1, <1>2, TerminatedEffect, PipesKeptBy
<1>. QED
  BY <1>1, <1>3, KeptIsClean

\* return_worker writes nothing but a shutdown command.
LEMMA ReturnKeeps ==
    ASSUME NEW s, Sound(s), NEW i
    PROVE  PipesKept(s, return_worker(s, i))
<1>1. s \in Pool
  BY DEF Sound
<1>2. PICK r : r = return_worker(s, i)
  OBVIOUS
<1>3. CASE i \notin DOMAIN s.workers
  <2>1. r = s
    BY <1>2, <1>3 DEF return_worker
  <2>. QED
    BY <1>2, <2>1 DEF PipesKept
<1>4. CASE i \in DOMAIN s.workers
  <2>1. i \in Procs
    <3>1. DOMAIN s.workers = 1 .. Len(s.workers) /\ Len(s.workers) \in Nat
      BY <1>1, WorkerOf
    <3>2. Len(s.workers) <= s.forked /\ s.forked \in 0 .. MaxProcs
      BY DEF Sound, Pool
    <3>. QED
      BY <1>4, <3>1, <3>2 DEF Procs
  <2>2. SamePipes(s, r)
    BY <1>1, <1>2, <1>4, <2>1, ReturnEffect
  <2>. QED
    BY <1>2, <2>2, PipesKeptBy
<1>. QED
  BY <1>3, <1>4

\* Before the request is sent a claim leaves the pipes as they are.
LEMMA TriedIsClean ==
    ASSUME Types, NEW s, Tried(s), NEW p \in 1 .. N, NEW R, CleanAt(w, p, R)
    PROVE  CleanAt(s, p, R)
<1>1. Sound(w) /\ w \in Pool
  BY DEF Types, Sound
<1>2. CASE s = w
  BY <1>2
<1>3. CASE Refilled(PopTo(w, 0), s)
  <2>1. 0 \in 0 .. Len(w.idle_queue)
    BY <1>1, WorkerOf
  <2>2. PICK m : m = PopTo(w, 0)
    OBVIOUS
  <2>3. m \in Pool /\ SameWorkers(w, m) /\ SamePipes(w, m)
    BY <1>1, <2>1, <2>2, PopToEffect
  <2>4. Sound(m)
    BY <1>1, <2>3, SameKeepsSound
  <2>5. PipesKept(w, m)
    BY <1>1, <2>3, PipesKeptBy
  <2>6. PipesKept(m, s)
    BY <1>3, <2>2, <2>4, PipesKeptBy
  <2>7. CleanAt(m, p, R)
    BY <1>1, <2>5, KeptIsClean
  <2>. QED
    BY <2>3, <2>6, <2>7, KeptIsClean
<1>. QED
  BY <1>2, <1>3 DEF Tried

LEMMA ReadersStep ==
    ASSUME TaskOK, NEW t \in Tasks, NEW p \in 1 .. N
    PROVE  /\ UNCHANGED fd /\ UNCHANGED pc => Readers(p)' = Readers(p)
           /\ UNCHANGED fd /\ pc[t] # "read" /\ (\E l : l # "read" /\ Goto(t, l))
                 => Readers(p)' = Readers(p)
           /\ UNCHANGED fd /\ (\E l : l # "read" /\ Goto(t, l)) => Readers(p)' = Readers(p) \ {t}
           /\ fd[t] # p => t \notin Readers(p)
           /\ \A q : fd' = [fd EXCEPT ![t] = q] /\ pc[t] # "read" /\ Goto(t, "read") =>
                 /\ q # p => Readers(p)' = Readers(p)
                 /\ q = p => t \in Readers(p)' /\ t \notin Readers(p)
                              /\ Readers(p)' = Readers(p) \union {t}
<1>1. pc \in [Tasks -> Labels] /\ fd \in [Tasks -> 0 .. MaxProcs]
  BY DEF TaskOK
<1>2. UNCHANGED fd /\ UNCHANGED pc => Readers(p)' = Readers(p)
  BY DEF Readers
<1>3. ASSUME UNCHANGED fd, NEW l, l # "read", Goto(t, l)
      PROVE  Readers(p)' = Readers(p) \ {t} /\ (pc[t] # "read" => Readers(p)' = Readers(p))
  BY <1>1, <1>3 DEF Readers, Goto
<1>4. fd[t] # p => t \notin Readers(p)
  BY DEF Readers
<1>5. ASSUME NEW q, fd' = [fd EXCEPT ![t] = q], pc[t] # "read", Goto(t, "read")
      PROVE  /\ q # p => Readers(p)' = Readers(p)
             /\ q = p => t \in Readers(p)' /\ t \notin Readers(p)
                          /\ Readers(p)' = Readers(p) \union {t}
  BY <1>1, <1>5 DEF Readers, Goto
<1>. QED
  BY <1>2, <1>3, <1>4, <1>5

LEMMA ClaimKeepsClean ==
    ASSUME Types, NEW t \in Tasks, NamedClaim(t), NEW p \in 1 .. N,
           p \notin w'.closed, \A x, y \in Readers(p)' : x = y, CleanAt(w, p, Readers(p))
    PROVE  CleanAt(w', p, Readers(p)')
<1>1. Sound(w) /\ TaskOK /\ pc[t] = "claim"
  BY Zenon DEF Types, NamedClaim
<1>2. PICK s : Tried(s) /\ Sound(s) /\ ClaimFrom(s, t)
  BY <1>1, ClaimCases
<1>3. s \in Pool /\ Sound(s)
  BY <1>2 DEF Sound
<1>4. PICK R : R = Readers(p)
  OBVIOUS
<1>5. PICK Q : Q = Readers(p)'
  OBVIOUS
<1>6. CleanAt(s, p, R)
  BY <1>2, <1>4, TriedIsClean
<1>7. PICK k : k = get_idle_worker(s)
  OBVIOUS
<1>8. PICK i : i = s.idle_queue[k]
  OBVIOUS
<1>9. PICK b : b = mark_busy(PopTo(s, k), i)
  OBVIOUS
<1>10. PICK q : q = s.workers[i].proc
  OBVIOUS
<1>11. \/ /\ k = 0 /\ w' = PopTo(s, 0) /\ Goto(t, "done") /\ UNCHANGED fd
       \/ /\ k # 0 /\ w' = return_worker(b, i) /\ Goto(t, "done") /\ UNCHANGED fd
       \/ /\ k # 0 /\ CanSend(b, q) /\ w' = send(b, q, t)
          /\ fd' = [fd EXCEPT ![t] = q] /\ Goto(t, "read")
  BY <1>2, <1>7, <1>8, <1>9, <1>10, Zenon DEF ClaimFrom
<1>12. UNCHANGED fd /\ Goto(t, "done") => Q = R
  BY <1>1, <1>4, <1>5, ReadersStep
<1>13. CASE k = 0 /\ w' = PopTo(s, 0) /\ Goto(t, "done") /\ UNCHANGED fd
  <2>1. 0 \in 0 .. Len(s.idle_queue)
    BY <1>3, WorkerOf
  <2>2. SamePipes(s, w')
    BY <1>3, <1>13, <2>1, PopToEffect
  <2>3. PipesKept(s, w')
    BY <1>3, <2>2, PipesKeptBy
  <2>4. CleanAt(w', p, R)
    BY <1>3, <1>6, <2>3, KeptIsClean
  <2>. QED
    BY <1>5, <1>12, <1>13, <2>4
<1>14. CASE k # 0
  <2>1. /\ b \in Pool /\ SameWorkers(s, b) /\ SamePipes(s, b) /\ q \in Procs
    BY <1>3, <1>7, <1>8, <1>9, <1>10, <1>14, MarkedEffect
  <2>2. Sound(b)
    BY <1>3, <2>1, SameKeepsSound
  <2>3. PipesKept(s, b)
    BY <1>3, <2>1, PipesKeptBy
  <2>4. CleanAt(b, p, R)
    BY <1>3, <1>6, <2>3, KeptIsClean
  <2>5. CASE w' = return_worker(b, i) /\ Goto(t, "done") /\ UNCHANGED fd
    <3>1. PipesKept(b, w')
      BY <2>2, <2>5, ReturnKeeps
    <3>2. CleanAt(w', p, R)
      BY <2>1, <2>4, <3>1, KeptIsClean
    <3>. QED
      BY <1>5, <1>12, <2>5, <3>2
  <2>6. CASE CanSend(b, q) /\ w' = send(b, q, t) /\ fd' = [fd EXCEPT ![t] = q] /\ Goto(t, "read")
    <3>1. /\ q # p => Q = R
          /\ q = p => t \in Q /\ t \notin R /\ Q = R \union {t}
      BY <1>1, <1>4, <1>5, <2>6, ReadersStep
    <3>2. q = p => R = {}
      BY <1>5, <3>1
    <3>3. Q = IF q = p THEN {t} ELSE R
      BY <3>1, <3>2
    <3>4. CleanAt(send(b, q, t), p, Q)
      BY <2>1, <2>4, <2>6, <3>2, <3>3, SendClean
    <3>. QED
      BY <1>5, <2>6, <3>4
  <2>. QED
    BY <1>11, <1>14, <2>5, <2>6
<1>. QED
  BY <1>11, <1>13, <1>14

\* The steps of the default pool's handlers, while no pipe end of it is
\* closed.
LEMMA NamedKeepsClean ==
    ASSUME Types, Named, NEW t \in Tasks, Handler(t) \/ Unforced(t), NEW p \in 1 .. N,
           p \notin w'.closed, \A x, y \in Readers(p)' : x = y, CleanAt(w, p, Readers(p))
    PROVE  CleanAt(w', p, Readers(p)')
<1>1. Sound(w) /\ w \in Pool /\ TaskOK
  BY DEF Types, Sound
<1>2. PICK R : R = Readers(p)
  OBVIOUS
<1>3. PICK Q : Q = Readers(p)'
  OBVIOUS
<1>4. CleanAt(w, p, R)
  BY <1>2
<1>5. CASE NamedClaim(t)
  BY <1>5, ClaimKeepsClean
<1>6. CASE NamedReturn(t)
  <2>1. w' = return_worker(w, slot[t]) /\ UNCHANGED fd /\ pc[t] = "return" /\ Goto(t, "done")
    BY <1>6 DEF NamedReturn
  <2>2. Q = R
    BY <1>1, <1>2, <1>3, <2>1, ReadersStep
  <2>3. PipesKept(w, w')
    BY <1>1, <2>1, ReturnKeeps
  <2>4. CleanAt(w', p, R)
    BY <1>1, <1>4, <2>3, KeptIsClean
  <2>. QED
    BY <1>3, <2>2, <2>4
<1>7. CASE NamedAcquire(t) \/ NamedTimeout(t) \/ NamedLeave(t)
  <2>1. /\ w' = w /\ UNCHANGED fd
        /\ \/ UNCHANGED pc
           \/ pc[t] = "permit" /\ (Goto(t, "claim") \/ Goto(t, "done"))
    BY <1>7 DEF NamedAcquire, NamedTimeout, NamedLeave
  <2>2. Q = R
    BY <1>1, <1>2, <1>3, <2>1, ReadersStep
  <2>. QED
    BY <1>3, <1>4, <2>1, <2>2
<1>8. CASE NamedRead(t) \/ ClosedUnder(t)
  <2>1. pc[t] = "read" /\ UNCHANGED fd /\ Goto(t, "return")
    BY <1>8 DEF NamedRead, ClosedUnder
  <2>2. fd[t] \in Procs
    BY <1>1, <2>1 DEF TaskOK, User
  <2>3. PICK q \in Procs : q = fd[t]
    BY <2>2
  <2>4. Q = R \ {t} /\ (q # p => Q = R)
    <3>1. \E l : l # "read" /\ Goto(t, l)
      BY <2>1
    <3>2. Readers(p)' = Readers(p) \ {t} /\ (fd[t] # p => t \notin Readers(p))
      BY <1>1, <2>1, <3>1, ReadersStep
    <3>. QED
      BY <1>2, <1>3, <2>3, <3>2
  <2>5. CASE \/ w.resps[q] # <<>> /\ w' = Buffered(w, q)
             \/ w.resps[q] = <<>> /\ w.life[q] = "dead" /\ w' = w
    <3>1. CleanAt(w', p, Q)
      BY <1>1, <1>4, <2>4, <2>5, ReadIsClean
    <3>. QED
      BY <1>3, <3>1
  <2>6. CASE NamedRead(t)
    BY <2>3, <2>5, <2>6 DEF NamedRead, Readable, Eof
  <2>7. CASE ClosedUnder(t)
    <3>1. w' = w /\ q \in w.closed
      BY <2>3, <2>7 DEF ClosedUnder
    <3>2. q # p
      BY <3>1
    <3>. QED
      BY <1>3, <1>4, <2>4, <3>1, <3>2
  <2>. QED
    BY <1>8, <2>6, <2>7
<1>. QED
  <2>1. ~DefaultKill(t)
    BY <1>1 DEF TaskOK, DefaultKill
  <2>. QED
    BY <1>5, <1>6, <1>7, <1>8, <2>1 DEF Handler, Unforced, get_idle, get_idleNone, DefaultSend,
        DefaultRead, DefaultLeave

Tokens == Named => \A p \in 1 .. N : CleanAt(w, p, Readers(p))

LEMMA InitTokens ==
    ASSUME Init
    PROVE  Tokens
<1>1. \A p \in 1 .. N : w.life[p] = "up" /\ w.cmds[p] = <<>> /\ w.resps[p] = <<>>
  BY InitPool, FirstProcs
<1>2. DOMAIN <<>> = {}
  BY EmptySeq
<1>. QED
  BY <1>1, <1>2 DEF Tokens, CleanAt, Clean

LEMMA NextTokens ==
    ASSUME Types, Lease, Tokens, [Next]_vars
    PROVE  Tokens'
<1> SUFFICES ASSUME Named', NEW p \in 1 .. N, p \notin w'.closed
             PROVE  CleanAt(w', p, Readers(p)')
  BY DEF Tokens, CleanAt
<1>1. Named
  BY NextConf DEF ConfStep, Named
<1>2. \A x, y \in Readers(p)' : x = y
  BY NextOneRead DEF OneRead
<1>3. CleanAt(w, p, Readers(p)) /\ TaskOK
  BY <1>1 DEF Tokens, Types
<1>4. ASSUME NEW t \in Tasks, Handler(t) \/ Unforced(t)
      PROVE  CleanAt(w', p, Readers(p)')
  BY <1>1, <1>2, <1>3, <1>4, NamedKeepsClean
<1>5. CASE UNCHANGED taskVars /\ CleanAt(w', p, Readers(p))
  <2>1. Readers(p)' = Readers(p)
    BY <1>5 DEF Readers, taskVars
  <2>. QED
    BY <1>5, <2>1
<1>6. CASE DrainWorkers \/ WorkersDrained
  <2>1. UNCHANGED taskVars
    BY <1>6 DEF DrainWorkers, WorkersDrained
  <2>2. CleanAt(w', p, Readers(p))
    BY <1>3, <1>6, DrainKeepsClean
  <2>. QED
    BY <1>5, <2>1, <2>2
<1>7. ~Background
  BY <1>1, NamedIsQuiet
<1>8. ASSUME NEW q \in Procs, WorkerLoop(q) \/ BootFails(q) \/ Crash(q)
      PROVE  CleanAt(w', p, Readers(p)')
  <2>1. UNCHANGED taskVars
    BY <1>8 DEF WorkerLoop, Boot, Run, TermDies, BootFails, Crash, WorkerStep
  <2>2. CleanAt(w', p, Readers(p))
    BY <1>3, <1>8, WorkersKeepClean
  <2>. QED
    BY <1>5, <2>1, <2>2
<1>9. CASE StopSignal \/ DrainConnections \/ Quiet \/ UNCHANGED vars
  <2>1. UNCHANGED taskVars /\ w' = w
    BY <1>9 DEF StopSignal, DrainConnections, Quiet, vars
  <2>. QED
    BY <1>3, <1>5, <2>1
<1>. QED
  BY <1>4, <1>6, <1>7, <1>8, <1>9 DEF Next, Draining

----------------------------------------------------------------------------
(***************************************************************************)
(* Every request is answered with its own response.                        *)
(***************************************************************************)

\* Who has not read yet has nothing.
Unread == Named => \A t \in Tasks : pc[t] \in {"permit", "claim", "read"} => got[t] = None

\* What a step does to what handlers have read and to the ends they read from.
ReadStep ==
    \/ UNCHANGED <<got, fd>> /\ \A t \in Tasks : pc'[t] \in {"permit", "claim", "read"}
                                                    => pc[t] \in {"permit", "claim", "read"}
    \/ \E t \in Tasks : /\ pc[t] = "claim" /\ UNCHANGED got
                        /\ \/ UNCHANGED fd /\ Goto(t, "done")
                           \/ \E q : fd' = [fd EXCEPT ![t] = q] /\ Goto(t, "read")
    \/ \E t \in Tasks : /\ pc[t] = "read" /\ UNCHANGED fd /\ (Goto(t, "return") \/ Goto(t, "done"))
                        /\ \/ got' = [got EXCEPT ![t] = "eof"]
                           \/ Readable(fd[t]) /\ got' = [got EXCEPT ![t] = Head(w.resps[fd[t]])]

LEMMA NextRead ==
    ASSUME Types, Named, [Next]_vars
    PROVE  ReadStep
<1>1. /\ Sound(w) /\ TaskOK /\ pc \in [Tasks -> Labels]
      /\ \A t \in Tasks : pc[t] # "kill"
  BY DEF Types, TaskOK
<1>2. CASE UNCHANGED taskVars
  BY <1>2 DEF taskVars, ReadStep
<1>3. ASSUME NEW t \in Tasks, Handler(t) \/ Unforced(t)
      PROVE  ReadStep
  <2>1. CASE UNCHANGED <<got, fd>> /\ (UNCHANGED pc \/ Goto(t, "done")
                                          \/ (pc[t] = "permit" /\ Goto(t, "claim")))
    BY <1>1, <2>1 DEF ReadStep, Goto
  <2>2. CASE NamedClaim(t)
    <3>1. PICK s : ClaimFrom(s, t)
      BY <1>1, <2>2, ClaimCases
    <3>2. pc[t] = "claim" /\ UNCHANGED got
      BY <2>2, Zenon DEF NamedClaim
    <3>3. \/ UNCHANGED fd /\ Goto(t, "done")
          \/ \E q : fd' = [fd EXCEPT ![t] = q] /\ Goto(t, "read")
      BY <3>1, Zenon DEF ClaimFrom
    <3>. QED
      BY <3>2, <3>3 DEF ReadStep
  <2>3. CASE NamedRead(t) \/ ClosedUnder(t)
    BY <2>3 DEF NamedRead, ClosedUnder, ReadStep
  <2>4. CASE NamedAcquire(t) \/ NamedTimeout(t) \/ NamedReturn(t) \/ NamedLeave(t)
    BY <2>1, <2>4 DEF NamedAcquire, NamedTimeout, NamedReturn, NamedLeave
  <2>5. /\ ~get_idle(t) /\ ~get_idleNone(t) /\ ~DefaultSend(t) /\ ~DefaultRead(t)
        /\ ~DefaultLeave(t) /\ ~DefaultKill(t)
    BY <1>1 DEF get_idle, get_idleNone, DefaultSend, DefaultRead, DefaultLeave, DefaultKill
  <2>. QED
    BY <1>3, <2>2, <2>3, <2>4, <2>5 DEF Handler, Unforced
<1>4. ~Background
  BY NamedIsQuiet
<1>5. ASSUME NEW q \in Procs, WorkerLoop(q) \/ BootFails(q) \/ Crash(q)
      PROVE  UNCHANGED taskVars
  BY <1>5 DEF WorkerLoop, Boot, Run, TermDies, BootFails, Crash, WorkerStep
<1>6. CASE StopSignal \/ Draining \/ Quiet \/ UNCHANGED vars
  BY <1>2, <1>6 DEF StopSignal, Draining, DrainWorkers, WorkersDrained, DrainConnections, Quiet, vars
<1>. QED
  BY <1>2, <1>3, <1>4, <1>5, <1>6 DEF Next

LEMMA NextUnread ==
    ASSUME Types, Unread, [Next]_vars
    PROVE  Unread'
<1> SUFFICES ASSUME Named'
             PROVE  \A t \in Tasks : pc'[t] \in {"permit", "claim", "read"} => got'[t] = None
  BY DEF Unread
<1>1. /\ pc \in [Tasks -> Labels]
      /\ got \in [Tasks -> Responses \union {None, "eof"}]
  BY DEF Types, TaskOK
<1>2. Named
  BY NextConf DEF ConfStep, Named
<1>3. ReadStep
  BY <1>2, NextRead
<1>. QED
  BY <1>1, <1>2, <1>3 DEF ReadStep, Unread, Goto

LEMMA NextOwnAnswer ==
    ASSUME Types, OneRead, Tokens, Unread, OwnAnswer, [Next]_vars
    PROVE  OwnAnswer'
<1> SUFFICES ASSUME Named', NEW u \in Tasks, got'[u] \notin {None, "eof"}, fd'[u] <= N
             PROVE  got'[u] = u
  BY DEF OwnAnswer
<1>1. Named
  BY NextConf DEF ConfStep, Named
<1>2. /\ got \in [Tasks -> Responses \union {None, "eof"}] /\ fd \in [Tasks -> 0 .. MaxProcs]
      /\ TaskOK /\ w \in Pool
  BY DEF Types, TaskOK, Sound
<1>3. got[u] \notin {None, "eof"} /\ fd[u] <= N => got[u] = u
  BY <1>1 DEF OwnAnswer
<1>4. CASE UNCHANGED <<got, fd>>
  BY <1>3, <1>4
<1>5. ASSUME NEW t \in Tasks, pc[t] = "claim", UNCHANGED got,
             \/ UNCHANGED fd
             \/ \E q : fd' = [fd EXCEPT ![t] = q]
      PROVE  got'[u] = u
  <2>1. got[t] = None
    BY <1>1, <1>5 DEF Unread
  <2>2. u # t
    BY <1>5, <2>1
  <2>3. fd'[u] = fd[u]
    BY <1>2, <1>5, <2>2
  <2>. QED
    BY <1>3, <1>5, <2>3
<1>6. ASSUME NEW t \in Tasks, pc[t] = "read", UNCHANGED fd,
             \/ got' = [got EXCEPT ![t] = "eof"]
             \/ Readable(fd[t]) /\ got' = [got EXCEPT ![t] = Head(w.resps[fd[t]])]
      PROVE  got'[u] = u
  <2>1. CASE u # t
    <3>1. got'[u] = got[u]
      BY <1>2, <1>6, <2>1
    <3>. QED
      BY <1>3, <1>6, <3>1
  <2>2. CASE u = t
    <3>1. got'[t] # "eof"
      BY <2>2
    <3>2. Readable(fd[t]) /\ got'[t] = Head(w.resps[fd[t]])
      BY <1>2, <1>6, <3>1
    <3>3. fd[t] \in Procs
      BY <1>2, <1>6 DEF TaskOK, User
    <3>4. PICK p \in 1 .. N : p = fd[t]
      BY <1>6, <2>2, <3>3 DEF Procs
    <3>5. p \notin w.closed /\ w.resps[p] # <<>> /\ p \in Procs
      BY <3>2, <3>3, <3>4 DEF Readable
    <3>6. PICK x : x = w.resps[p]
      OBVIOUS
    <3>7. x \in Seq(Responses) /\ x # <<>>
      BY <1>2, <3>5, <3>6 DEF Pool
    <3>8. Head(x) = x[1] /\ 1 \in DOMAIN x
      BY <3>7, LenProperties, EmptySeq, HeadTailProperties
    <3>9. Clean(w.life[p], w.cmds[p], x, Readers(p))
      BY <1>1, <3>5, <3>6 DEF Tokens, CleanAt
    <3>10. t \in Readers(p)
      BY <1>6, <3>4 DEF Readers
    <3>11. x[1] \in Readers(p)
      BY <3>8, <3>9, <3>10 DEF Clean
    <3>12. x[1] = t
      BY <1>1, <3>5, <3>10, <3>11 DEF OneRead
    <3>. QED
      BY <2>2, <3>2, <3>4, <3>6, <3>8, <3>12
  <2>. QED
    BY <2>1, <2>2
<1>7. ReadStep
  BY <1>1, NextRead
<1>. QED
  BY <1>4, <1>5, <1>6, <1>7 DEF ReadStep

\* A worker of the first generation answers every request of a named pool with
\* the request's own response, whatever clients leave, scripts crash and
\* workers are reaped or shut down meanwhile: the reading task outlives its
\* client (handle_request_inner), so no response is left behind for a later
\* request.
THEOREM AnswersAreOwn == Spec => []OwnAnswer
<1> DEFINE Inv == Types /\ Lease /\ Tokens /\ Unread /\ OwnAnswer
<1>1. Init => Inv
  <2> SUFFICES ASSUME Init
               PROVE  Unread /\ OwnAnswer
    BY InitTypes, InitLease, InitTokens
  <2>1. \A t \in Tasks : got[t] = None
    BY DEF Init
  <2>. QED
    BY <2>1 DEF Unread, OwnAnswer
<1>2. Inv /\ [Next]_vars => Inv'
  <2> SUFFICES ASSUME Inv, [Next]_vars
               PROVE  Inv'
    OBVIOUS
  <2>1. OneRead
    BY OneReader
  <2>2. Types' /\ Lease' /\ Tokens'
    BY NextTypes, NextLease, NextTokens
  <2>3. Unread' /\ OwnAnswer'
    BY <2>1, NextUnread, NextOwnAnswer
  <2>. QED
    BY <2>2, <2>3
<1>. QED
  BY <1>1, <1>2, PTL DEF Spec
=============================================================================
