---------------------------- MODULE StreamProofs ----------------------------
(***************************************************************************)
(* For any number of events, calls and workers: readiness is always that   *)
(* of the current subscription, a lost feed is noticed, nobody hangs up on *)
(* the current connection, and a stream that stopped says so.              *)
(***************************************************************************)
EXTENDS Stream, FiniteSetTheorems, TLAPS

\* Where a worker holds a socket, and where it is the one that the stream knows.
Opened == Established \cup {"install", "leave", "raise"}
Installed == Established \cup {"raise"}

\* A worker is started once, follows an earlier or the current subscription, and is not
\* current when its socket was closed.
WorkerKnown(w) ==
    /\ w > launched => worker[w] = NoWorker
    /\ worker[w].generation <= generation
    /\ worker[w].generation = generation => worker[w].ids = ids
    /\ worker[w].acked \subseteq worker[w].ids
    /\ worker[w].pc \notin Opened => worker[w].ws = 0 /\ worker[w].acked = {}
    /\ worker[w].ws \in closed => worker[w].generation # generation
    /\ worker[w].pc \in Installed /\ Current(w) => socket = worker[w].ws /\ owner = w

\* A call hangs up on connections of earlier subscriptions only, and a call of start
\* holds the lifecycle lock until it launched its worker.
CallKnown(c) ==
    /\ caller[c].ws # 0 => \A w \in Worker :
           worker[w].ws = caller[c].ws => worker[w].generation # generation
    /\ caller[c].op = "start" /\ caller[c].pc \in {"set", "hang up", "launch"} =>
           lifecycle = {c} /\ launched < MaxWorker
    /\ caller[c].pc = "launch" => caller[c].op = "start"

\* Sockets that a caller closed still belong to a worker.
ClosedHeld == closed \subseteq {worker[w].ws : w \in Worker} \ {0}

\* The cache's flags are up only while the stream has a worker to take them down.
FlagsHeld == connected \/ cacheReady => token # 0 /\ Alive(token)

Parts ==
    /\ token <= launched
    /\ generation = 0 => ids = {}
    /\ unfed \subseteq ids
    /\ ClosedHeld
    /\ FlagsHeld
    /\ ReadyMeansSubscribed
    /\ LossIsNoticed

IInv ==
    /\ TypeOK
    /\ \A w \in Worker : WorkerKnown(w)
    /\ \A c \in Caller : CallKnown(c)
    /\ Parts

-----------------------------------------------------------------------------
(* What the invariant says, and what a step loses.                         *)

\* The invariant, conjunct by conjunct, for citing without its definitions.
LEMMA Known ==
    ASSUME IInv
    PROVE  /\ token \in Nat /\ token \in Worker \cup {0} /\ launched \in Nat /\ generation \in Nat
           /\ MaxWorker \in Nat /\ 0 \notin Worker /\ \A w \in Worker : w \in Nat
           /\ worker \in [Worker -> WorkerState] /\ caller \in [Caller -> CallState]
           /\ socket \in Nat /\ owner \in Worker \cup {0} /\ launched <= MaxWorker
<1>1. MaxWorker \in Nat
  BY StreamAssumption
<1> QED
  BY <1>1 DEF IInv, TypeOK, Worker

\* What is known of one worker.
LEMMA WorkerFacts ==
    ASSUME IInv, NEW w \in Worker
    PROVE  /\ WorkerKnown(w) /\ worker[w] \in WorkerState
           /\ worker[w].ws \in Nat /\ worker[w].generation \in Nat
           /\ worker[w].ids \subseteq Event /\ worker[w].acked \subseteq Event
<1>1. WorkerKnown(w) /\ worker[w] \in WorkerState
  BY Known DEF IInv
<1> QED
  BY <1>1 DEF WorkerState

\* What is known of one call.
LEMMA CallFacts ==
    ASSUME IInv, NEW c \in Caller
    PROVE  /\ CallKnown(c) /\ caller[c] \in CallState
           /\ caller[c].ws \in Nat /\ caller[c].generation \in Nat /\ caller[c].ids \subseteq Event
           /\ caller[c].on \in Worker \cup {0} /\ caller[c].token \in Worker \cup {0}
<1>1. CallKnown(c) /\ caller[c] \in CallState
  BY Known DEF IInv
<1> QED
  BY <1>1 DEF CallState

\* Only the worker that the stream names feeds the cache ...
LEMMA FedByCurrent ==
    ASSUME IInv
    PROVE  /\ Fed # {} => token \in Worker /\ Current(token)
                           /\ worker[token].pc \in {"subscribe", "serve"}
           /\ Fed # {} => Fed = worker[token].acked
           /\ Fed \subseteq ids
<1>1. ASSUME NEW e \in Fed
      PROVE  /\ token \in Worker /\ Current(token) /\ worker[token].pc \in {"subscribe", "serve"}
             /\ e \in worker[token].acked /\ e \in ids
  <2>1. PICK w \in Worker : Current(w) /\ worker[w].pc \in {"subscribe", "serve"}
                            /\ e \in worker[w].acked
    BY <1>1 DEF Fed
  <2>2. token = w /\ generation = worker[w].generation
    BY <2>1 DEF Current
  <2>3. e \in ids
    BY <2>1, <2>2, WorkerFacts DEF WorkerKnown
  <2> QED
    BY <2>1, <2>2, <2>3
<1>2. ASSUME NEW e \in worker[token].acked, Fed # {} PROVE e \in Fed
  <2>1. token \in Worker /\ Current(token) /\ worker[token].pc \in {"subscribe", "serve"}
    BY <1>1, <1>2
  <2>2. e \in Event
    BY <1>2, <2>1, WorkerFacts
  <2> QED
    BY <1>2, <2>1, <2>2 DEF Fed
<1> QED
  BY <1>1, <1>2

\* ... and whoever noticed a loss is that worker.
LEMMA LossByCurrent ==
    ASSUME IInv, unfed # {}
    PROVE  token \in Worker /\ Current(token) /\ worker[token].pc \in {"raise", "handler"} /\ Fed = {}
<1>1. PICK w \in Worker : Current(w) /\ worker[w].pc \in {"raise", "handler"}
  BY DEF IInv, Parts, LossIsNoticed
<1>2. token = w
  BY <1>1 DEF Current
<1> QED
  BY <1>1, <1>2, FedByCurrent

\* A new socket is nobody's: there are more numbers to choose from than sockets held.
LEMMA NewSocketIsNew ==
    ASSUME IInv
    PROVE  /\ NewSocket \in Nat \ {0} /\ NewSocket \notin closed /\ NewSocket # socket
           /\ \A w \in Worker : worker[w].ws # NewSocket
           /\ \A c \in Caller : caller[c].ws # NewSocket
<1> DEFINE ofWorkers == {worker[w].ws : w \in Worker}
           ofCallers == {caller[c].ws : c \in Caller}
<1>1. IsFiniteSet(ofWorkers)
  <2>1. [w \in Worker |-> worker[w].ws] \in Surjection(Worker, ofWorkers)
    BY DEF Surjection
  <2>2. IsFiniteSet(Worker)
    BY Known, FS_Interval DEF Worker
  <2> QED
    BY <2>1, <2>2, FS_Surjection
<1>2. IsFiniteSet(ofCallers)
  <2>1. [c \in Caller |-> caller[c].ws] \in Surjection(Caller, ofCallers)
    BY DEF Surjection
  <2> QED
    BY <2>1, StreamAssumption, FS_Surjection
<1>3. IsFiniteSet(closed)
  <2>1. closed \in SUBSET ofWorkers
    BY DEF IInv, Parts, ClosedHeld
  <2> QED
    BY <1>1, <2>1, FS_Subset
<1>4. IsFiniteSet({0, socket})
  <2>1. IsFiniteSet({0}) /\ {0, socket} = {0} \cup {socket}
    BY FS_Singleton
  <2> QED
    BY <2>1, FS_AddElement
<1>5. Held = {0, socket} \cup closed \cup ofWorkers \cup ofCallers
  BY DEF Held
<1>6. IsFiniteSet(Held)
  <2>1. IsFiniteSet({0, socket} \cup closed)
    BY <1>3, <1>4, FS_Union
  <2>2. IsFiniteSet(({0, socket} \cup closed) \cup ofWorkers)
    BY <1>1, <2>1, FS_Union
  <2> HIDE DEF ofWorkers, ofCallers
  <2>3. IsFiniteSet((({0, socket} \cup closed) \cup ofWorkers) \cup ofCallers)
    BY <1>2, <2>2, FS_Union
  <2> QED
    BY <2>3, <1>5
<1> DEFINE n == Cardinality(Held)
<1>7. \E s \in 1..n : s \notin Held
  <2> SUFFICES ASSUME 1..n \subseteq Held PROVE FALSE
    OBVIOUS
  <2>1. n \in Nat
    BY <1>6, FS_CardinalityType
  <2>2. 0 \in Held
    BY <1>5
  <2>3. IsFiniteSet(Held \ {0}) /\ Cardinality(Held \ {0}) = n - 1
    BY <1>6, <2>2, FS_RemoveElement
  <2>4. Cardinality(1..n) = n
    BY <2>1, FS_Interval
  <2>5. 1..n \in SUBSET (Held \ {0})
    BY <2>1
  <2>6. Cardinality(1..n) <= Cardinality(Held \ {0})
    BY <2>3, <2>5, FS_Subset
  <2> QED
    BY <2>1, <2>3, <2>4, <2>6
<1>8. NewSocket \in 1..n /\ NewSocket \notin Held
  BY <1>7 DEF NewSocket
<1>9. n \in Nat
  BY <1>6, FS_CardinalityType
<1> HIDE DEF n, ofWorkers, ofCallers
<1>10. NewSocket \in Nat \ {0}
  BY <1>8, <1>9
<1> USE DEF ofWorkers, ofCallers
<1> QED
  BY <1>5, <1>8, <1>10

-----------------------------------------------------------------------------
(* A step of worker w, which puts r in its place.                          *)

Places(w, r) ==
    /\ worker' = [worker EXCEPT ![w] = r]
    /\ UNCHANGED <<control, caller>>
    /\ failures' \in Nat
    /\ NoteLoss

\* It has a socket of its own, keeps the one it has, or gives it back.
SocketMoves(w, r) ==
    \/ r.ws = worker[w].ws /\ r.generation = worker[w].generation /\ closed' = closed
    \/ r.ws = 0 /\ closed' = closed \ {worker[w].ws}
    \/ r.ws = NewSocket /\ worker[w].ws = 0 /\ closed' = closed

\* What r must be for w to stay known.
GoodRecord(w, r) ==
    /\ r.generation <= generation
    /\ r.generation = generation => r.ids = ids
    /\ r.acked \subseteq r.ids
    /\ r.pc \notin Opened => r.ws = 0 /\ r.acked = {}

\* A worker that is not the stream's leaves the rest of it alone.
Apart(w) ==
    token # w => UNCHANGED <<ready, socket, owner, connected, cacheReady, invalid>>

\* What the stream's own worker does to the rest of it.
Owned(w, r) ==
    token = w =>
       /\ ready' \in BOOLEAN /\ connected' \in BOOLEAN /\ cacheReady' \in BOOLEAN
       /\ invalid' \subseteq Event /\ socket' \in Nat /\ owner' \in Worker \cup {0}
       /\ r.pc \in Installed /\ w \notin cancelled /\ generation = r.generation =>
             socket' = r.ws /\ owner' = w
       /\ connected' \/ cacheReady' => r.pc \notin {"none", "dead"}
       /\ ready' => /\ w \notin cancelled /\ generation = r.generation
                    /\ r.pc \in {"serve", "raise"} /\ r.acked = ids /\ socket' = r.ws
       /\ unfed' # {} => /\ w \notin cancelled /\ generation = r.generation
                         /\ r.pc \in {"raise", "handler"}

\* The step leaves the other workers and the calls known.
LEMMA PlaceKeepsOthers ==
    ASSUME IInv, NEW w \in Worker, NEW r \in WorkerState, Places(w, r),
           SocketMoves(w, r), Apart(w)
    PROVE  /\ \A v \in Worker \ {w} : WorkerKnown(v)'
           /\ \A c \in Caller : CallKnown(c)'
<1>1. /\ worker'[w] = r /\ \A v \in Worker \ {w} : worker'[v] = worker[v]
      /\ UNCHANGED <<ids, generation, stop, token, cancelled, launched, lifecycle, caller>>
  BY Known DEF Places, control
<1>2. closed' \subseteq closed
  BY DEF SocketMoves
<1>3. ASSUME NEW v \in Worker \ {w} PROVE WorkerKnown(v)'
  <2>1. WorkerKnown(v) /\ worker'[v] = worker[v]
    BY <1>1, WorkerFacts
  <2>2. Current(v)' <=> Current(v)
    BY <1>1, <2>1 DEF Current
  <2>3. Current(v) => socket' = socket /\ owner' = owner
    BY DEF Current, Apart
  <2> QED
    BY <1>1, <1>2, <2>1, <2>2, <2>3 DEF WorkerKnown
<1>4. ASSUME NEW c \in Caller PROVE CallKnown(c)'
  <2>1. CallKnown(c) /\ caller' = caller
    BY <1>1, CallFacts
  <2>2. ASSUME NEW v \in Worker, caller[c].ws # 0, worker'[v].ws = caller[c].ws
        PROVE  worker'[v].generation # generation
    <3>1. CASE v # w
      BY <1>1, <2>1, <2>2, <3>1 DEF CallKnown
    <3>2. CASE v = w
      BY <1>1, <2>1, <2>2, <3>2, NewSocketIsNew DEF CallKnown, SocketMoves
    <3> QED
      BY <3>1, <3>2
  <2> QED
    BY <1>1, <2>1, <2>2 DEF CallKnown
<1> QED
  BY <1>3, <1>4

\* The step keeps w known, and sockets that were closed with their workers.
LEMMA PlaceKeepsOwn ==
    ASSUME IInv, NEW w \in Worker, NEW r \in WorkerState, Places(w, r),
           SocketMoves(w, r), GoodRecord(w, r), Apart(w), Owned(w, r), worker[w].pc # "none"
    PROVE  WorkerKnown(w)' /\ ClosedHeld'
<1>1. /\ worker'[w] = r /\ \A v \in Worker \ {w} : worker'[v] = worker[v]
      /\ UNCHANGED <<ids, generation, stop, token, cancelled, launched, lifecycle, caller>>
  BY Known DEF Places, control
<1>2. WorkerKnown(w) /\ closed \subseteq {worker[v].ws : v \in Worker} \ {0}
  BY WorkerFacts DEF IInv, Parts, ClosedHeld
<1>3. ~(w > launched)
  BY <1>2 DEF WorkerKnown, NoWorker
<1>4. r.ws \in closed' => r.generation # generation
  BY <1>2, NewSocketIsNew DEF SocketMoves, WorkerKnown
<1>5. r.pc \in Installed /\ Current(w)' => socket' = r.ws /\ owner' = w
  BY <1>1 DEF Current, Owned
<1>6. WorkerKnown(w)'
  BY <1>1, <1>3, <1>4, <1>5 DEF WorkerKnown, GoodRecord
<1>7. ClosedHeld'
  <2> SUFFICES ASSUME NEW s \in closed' PROVE s # 0 /\ \E v \in Worker : worker'[v].ws = s
    BY DEF ClosedHeld
  <2>1. s \in closed
    BY DEF SocketMoves
  <2>2. PICK v \in Worker : worker[v].ws = s /\ s # 0
    BY <1>2, <2>1
  <2>3. CASE v # w
    BY <1>1, <2>2, <2>3
  <2>4. CASE v = w
    BY <1>1, <2>2, <2>4 DEF SocketMoves
  <2> QED
    BY <2>3, <2>4
<1> QED
  BY <1>6, <1>7

\* The step keeps the invariant.
LEMMA PlaceKeeps ==
    ASSUME IInv, NEW w \in Worker, NEW r \in WorkerState, Places(w, r),
           SocketMoves(w, r), GoodRecord(w, r), Apart(w), Owned(w, r), worker[w].pc # "none"
    PROVE  IInv'
<1>1. /\ worker'[w] = r /\ \A v \in Worker \ {w} : worker'[v] = worker[v]
      /\ UNCHANGED <<ids, generation, stop, token, cancelled, launched, lifecycle, caller>>
  BY Known DEF Places, control
<1>2. unfed' \subseteq Event /\ unfed' \subseteq ids
  BY FedByCurrent DEF Places, NoteLoss, IInv, TypeOK, Parts
<1>3. TypeOK'
  <2>1. worker' \in [Worker -> WorkerState] /\ caller' \in [Caller -> CallState]
    BY <1>1, Known DEF Places
  <2>2. closed' \subseteq Nat /\ failures' \in Nat
    BY DEF IInv, TypeOK, SocketMoves, Places
  <2>3. /\ ready' \in BOOLEAN /\ connected' \in BOOLEAN /\ cacheReady' \in BOOLEAN
        /\ invalid' \subseteq Event /\ socket' \in Nat /\ owner' \in Worker \cup {0}
    BY DEF IInv, TypeOK, Apart, Owned
  <2> QED
    BY <1>1, <1>2, <2>1, <2>2, <2>3 DEF IInv, TypeOK
<1>4. ASSUME NEW v \in Worker, v # w
      PROVE  /\ Current(v)' <=> Current(v)
             /\ Current(v) => UNCHANGED <<ready, socket, owner, connected, cacheReady, invalid>>
  BY <1>1, <1>4 DEF Current, Apart
<1>5. FlagsHeld'
  <2>1. CASE token = w
    BY <1>1, <2>1, Known DEF Owned, FlagsHeld, Alive
  <2>2. CASE token # w
    BY <1>1, <2>2, Known DEF Apart, FlagsHeld, Alive, IInv, Parts
  <2> QED
    BY <2>1, <2>2
<1>6. ReadyMeansSubscribed'
  <2> SUFFICES ASSUME ready' PROVE ReadyMeansSubscribed'
    BY DEF ReadyMeansSubscribed
  <2>1. CASE token = w
    <3>1. /\ Current(w)' /\ r.pc \in {"serve", "raise"} /\ r.acked = ids /\ socket' = r.ws
      BY <1>1, <2>1 DEF Owned, Current
    <3> QED
      BY <1>1, <3>1 DEF ReadyMeansSubscribed
  <2>2. CASE token # w
    <3>1. UNCHANGED <<ready, socket>>
      BY <2>2 DEF Apart
    <3>2. PICK v \in Worker : /\ Current(v) /\ worker[v].pc \in {"serve", "raise"}
                              /\ worker[v].acked = ids /\ socket = worker[v].ws
      BY <3>1 DEF IInv, Parts, ReadyMeansSubscribed
    <3>3. v # w /\ Current(v)'
      BY <2>2, <3>2, <1>4 DEF Current
    <3> QED
      BY <1>1, <3>1, <3>2, <3>3 DEF ReadyMeansSubscribed
  <2> QED
    BY <2>1, <2>2
<1>7. LossIsNoticed'
  <2> SUFFICES ASSUME unfed' # {} PROVE LossIsNoticed'
    BY DEF LossIsNoticed
  <2>1. CASE token = w
    <3>1. Current(w)' /\ r.pc \in {"raise", "handler"}
      BY <1>1, <2>1 DEF Owned, Current
    <3> QED
      BY <1>1, <3>1 DEF LossIsNoticed
  <2>2. CASE token # w
    <3>1. Fed \subseteq Fed'
      <4> SUFFICES ASSUME NEW e \in Fed PROVE e \in Fed'
        OBVIOUS
      <4>1. PICK v \in Worker : Current(v) /\ worker[v].pc \in {"subscribe", "serve"}
                                /\ e \in worker[v].acked
        BY DEF Fed
      <4>2. v # w /\ Current(v)' /\ worker'[v] = worker[v]
        BY <1>1, <1>4, <2>2, <4>1 DEF Current
      <4> QED
        BY <4>1, <4>2 DEF Fed
    <3>2. unfed # {}
      BY <3>1 DEF Places, NoteLoss
    <3>3. PICK v \in Worker : Current(v) /\ worker[v].pc \in {"raise", "handler"}
      BY <3>2 DEF IInv, Parts, LossIsNoticed
    <3>4. v # w /\ Current(v)' /\ worker'[v] = worker[v]
      BY <1>1, <1>4, <2>2, <3>3 DEF Current
    <3> QED
      BY <3>3, <3>4 DEF LossIsNoticed
  <2> QED
    BY <2>1, <2>2
<1>8. ClosedHeld' /\ \A v \in Worker : WorkerKnown(v)'
  BY PlaceKeepsOthers, PlaceKeepsOwn
<1>9. \A c \in Caller : CallKnown(c)'
  BY PlaceKeepsOthers
<1>10. (token <= launched)' /\ (generation = 0 => ids = {})'
  BY <1>1 DEF IInv, Parts
<1> QED
  BY <1>1, <1>2, <1>3, <1>5, <1>6, <1>7, <1>8, <1>9, <1>10 DEF IInv, Parts

\* The step keeps what the stream and the cache were told of w: that it is ready, or that
\* it noticed a loss, and it loses no feed without noticing.
Faithful(w, r) ==
    Current(w) =>
       /\ worker[w].pc \in {"serve", "raise"} /\ ready =>
             /\ r.pc \in {"serve", "raise"} /\ r.acked = worker[w].acked
             /\ r.ws = worker[w].ws /\ r.generation = generation
       /\ worker[w].pc \in {"raise", "handler"} =>
             r.pc \in {"raise", "handler"} /\ r.generation = generation
       /\ worker[w].pc \in {"subscribe", "serve"} =>
             /\ r.pc \in {"subscribe", "serve", "raise"} /\ r.generation = generation
             /\ worker[w].acked \subseteq r.acked

\* A step of w that changes nothing but w keeps the invariant.
LEMMA QuietKeeps ==
    ASSUME IInv, NEW w \in Worker, NEW r \in WorkerState, Places(w, r),
           SocketMoves(w, r), GoodRecord(w, r), Faithful(w, r),
           UNCHANGED <<flags, invalid, socket, owner>>,
           worker[w].pc # "none", r.pc \notin {"none", "dead"},
           r.pc \in Installed => /\ worker[w].pc \in Installed /\ r.ws = worker[w].ws
                                 /\ r.generation = worker[w].generation
    PROVE  IInv'
<1>1. /\ worker'[w] = r /\ \A v \in Worker \ {w} : worker'[v] = worker[v]
      /\ UNCHANGED <<ids, generation, stop, token, cancelled, launched, lifecycle, caller>>
      /\ UNCHANGED <<ready, connected, cacheReady, invalid, socket, owner>>
  BY Known DEF Places, control, flags
<1>2. WorkerKnown(w) /\ Apart(w)
  BY <1>1, WorkerFacts DEF Apart
<1>3. /\ token = w /\ ready =>
             /\ Current(w) /\ worker[w].pc \in {"serve", "raise"} /\ worker[w].acked = ids
             /\ socket = worker[w].ws
  BY DEF IInv, Parts, ReadyMeansSubscribed, Current
<1>4. token = w /\ r.pc \in Installed /\ w \notin cancelled /\ generation = r.generation =>
         socket' = r.ws /\ owner' = w
  BY <1>1, <1>2 DEF WorkerKnown, Current
<1>5. token = w /\ ready' => /\ w \notin cancelled /\ generation = r.generation
                            /\ r.pc \in {"serve", "raise"} /\ r.acked = ids /\ socket' = r.ws
  BY <1>1, <1>3 DEF Faithful, Current
<1>6. ASSUME token = w, unfed' # {}
      PROVE  w \notin cancelled /\ generation = r.generation /\ r.pc \in {"raise", "handler"}
  <2>1. CASE unfed # {}
    BY <1>6, <2>1, LossByCurrent DEF Faithful, Current
  <2>2. CASE unfed = {}
    <3>1. PICK e \in Fed : e \notin Fed'
      BY <1>6, <2>2 DEF Places, NoteLoss
    <3>2. Current(w) /\ worker[w].pc \in {"subscribe", "serve"} /\ e \in worker[w].acked
      BY <1>6, <3>1, FedByCurrent
    <3>3. w \notin cancelled /\ generation = r.generation /\ Current(w)'
      BY <1>1, <3>2 DEF Faithful, Current
    <3>4. r.pc \notin {"subscribe", "serve"}
      <4> SUFFICES ASSUME r.pc \in {"subscribe", "serve"} PROVE e \in Fed'
        BY <3>1
      <4>1. e \in Event /\ e \in r.acked
        BY <3>1, <3>2 DEF Fed, Faithful
      <4> QED
        BY <1>1, <3>3, <4>1 DEF Fed
    <3> QED
      BY <3>2, <3>3, <3>4 DEF Faithful
  <2> QED
    BY <2>1, <2>2
<1>7. Owned(w, r)
  BY <1>1, <1>4, <1>5, <1>6 DEF Owned, IInv, TypeOK
<1> QED
  BY <1>2, <1>7, PlaceKeeps

-----------------------------------------------------------------------------
(* Worker steps that touch nothing else.                                   *)

\* Nothing is the index 0, which is nobody's socket or worker.
LEMMA ZeroFacts ==
    ASSUME IInv
    PROVE  0 \notin closed /\ generation \in Nat /\ (generation = 0 => ids = {})
BY Known DEF IInv, Parts, ClosedHeld

\* The worker begins again, or ends.
LEMMA LoopKeeps ==
    ASSUME IInv, NEW w \in Worker, Loop(w), NoteLoss
    PROVE  IInv'
<1> DEFINE r == [worker[w] EXCEPT !.pc = IF w \in cancelled THEN "end" ELSE "snapshot"]
<1>1. worker[w] \in WorkerState /\ WorkerKnown(w) /\ worker \in [Worker -> WorkerState]
  BY WorkerFacts, Known
<1>2. /\ r \in WorkerState
      /\ r.pc = (IF w \in cancelled THEN "end" ELSE "snapshot") /\ r.ids = worker[w].ids
      /\ r.generation = worker[w].generation /\ r.ws = worker[w].ws /\ r.acked = worker[w].acked
  BY <1>1 DEF Loop, WorkerState, NoWorker, Established, IInv, TypeOK
<1>3. Places(w, r)
  BY <1>1 DEF Loop, Places, Become, Forget, IInv, TypeOK, network, control
<1> HIDE DEF r
<1>4. SocketMoves(w, r) /\ worker[w].pc # "none"
  BY <1>1, <1>2 DEF Loop, At, SocketMoves, WorkerKnown, Opened, Established, network
<1>5. GoodRecord(w, r)
  BY <1>1, <1>2 DEF Loop, At, GoodRecord, WorkerKnown, Opened, Established
<1>6. Faithful(w, r)
  BY <1>1, <1>2 DEF Loop, At, Faithful, Current, Established
<1>7. UNCHANGED <<flags, invalid, socket, owner>> /\ r.pc \notin {"none", "dead"}
  BY <1>2 DEF Loop, At
<1>8. r.pc \in Installed => /\ worker[w].pc \in Installed /\ r.ws = worker[w].ws
                            /\ r.generation = worker[w].generation
  BY <1>2 DEF Loop, At, Installed, Established
<1> QED
  BY <1>2, <1>3, <1>4, <1>5, <1>6, <1>7, <1>8, QuietKeeps

\* The worker takes the subscription.
LEMMA SnapshotKeeps ==
    ASSUME IInv, NEW w \in Worker, Snapshot(w), NoteLoss
    PROVE  IInv'
<1> DEFINE r == [worker[w] EXCEPT !.pc = "connect", !.ids = ids,
                                     !.generation = generation]
<1>1. worker[w] \in WorkerState /\ WorkerKnown(w) /\ worker \in [Worker -> WorkerState]
  BY WorkerFacts, Known
<1>2. /\ r \in WorkerState
      /\ r.pc = "connect" /\ r.ids = ids
      /\ r.generation = generation /\ r.ws = worker[w].ws /\ r.acked = worker[w].acked
  BY <1>1 DEF Snapshot, WorkerState, NoWorker, Established, IInv, TypeOK
<1>3. Places(w, r)
  BY <1>1 DEF Snapshot, Places, Become, Forget, IInv, TypeOK, network, control
<1> HIDE DEF r
<1>4. SocketMoves(w, r) /\ worker[w].pc # "none"
  BY <1>1, <1>2, ZeroFacts DEF Snapshot, At, SocketMoves, WorkerKnown, Opened, Established, network
<1>5. GoodRecord(w, r)
  BY <1>1, <1>2, ZeroFacts DEF Snapshot, At, GoodRecord, WorkerKnown, Opened, Established
<1>6. Faithful(w, r)
  BY <1>1, <1>2 DEF Snapshot, At, Faithful, Current, Established
<1>7. UNCHANGED <<flags, invalid, socket, owner>> /\ r.pc \notin {"none", "dead"}
  BY <1>2 DEF Snapshot, At
<1>8. r.pc \in Installed => /\ worker[w].pc \in Installed /\ r.ws = worker[w].ws
                            /\ r.generation = worker[w].generation
  BY <1>2 DEF Snapshot, At, Installed, Established
<1> QED
  BY <1>2, <1>3, <1>4, <1>5, <1>6, <1>7, <1>8, QuietKeeps

\* A socket is opened.
LEMMA ConnectKeeps ==
    ASSUME IInv, NEW w \in Worker, Connect(w), NoteLoss
    PROVE  IInv'
<1> DEFINE r == [worker[w] EXCEPT !.pc = "install", !.ws = NewSocket]
<1>1. worker[w] \in WorkerState /\ WorkerKnown(w) /\ worker \in [Worker -> WorkerState]
  BY WorkerFacts, Known
<1>2. /\ r \in WorkerState
      /\ r.pc = "install" /\ r.ids = worker[w].ids
      /\ r.generation = worker[w].generation /\ r.ws = NewSocket /\ r.acked = worker[w].acked
  BY <1>1, NewSocketIsNew DEF Connect, WorkerState, NoWorker, Established, IInv, TypeOK
<1>3. Places(w, r)
  BY <1>1 DEF Connect, Places, Become, Forget, IInv, TypeOK, network, control
<1> HIDE DEF r
<1>4. SocketMoves(w, r) /\ worker[w].pc # "none"
  BY <1>1, <1>2, NewSocketIsNew DEF Connect, At, SocketMoves, WorkerKnown, Opened, Established, network
<1>5. GoodRecord(w, r)
  BY <1>1, <1>2, NewSocketIsNew DEF Connect, At, GoodRecord, WorkerKnown, Opened, Established
<1>6. Faithful(w, r)
  BY <1>1, <1>2 DEF Connect, At, Faithful, Current, Established
<1>7. UNCHANGED <<flags, invalid, socket, owner>> /\ r.pc \notin {"none", "dead"}
  BY <1>2 DEF Connect, At
<1>8. r.pc \in Installed => /\ worker[w].pc \in Installed /\ r.ws = worker[w].ws
                            /\ r.generation = worker[w].generation
  BY <1>2 DEF Connect, At, Installed, Established
<1> QED
  BY <1>2, <1>3, <1>4, <1>5, <1>6, <1>7, <1>8, QuietKeeps

\* No socket is opened.
LEMMA ConnectFailsKeeps ==
    ASSUME IInv, NEW w \in Worker, ConnectFails(w), NoteLoss
    PROVE  IInv'
<1> DEFINE r == [worker[w] EXCEPT !.pc = "handler"]
<1>1. worker[w] \in WorkerState /\ WorkerKnown(w) /\ worker \in [Worker -> WorkerState]
  BY WorkerFacts, Known
<1>2. /\ r \in WorkerState
      /\ r.pc = "handler" /\ r.ids = worker[w].ids
      /\ r.generation = worker[w].generation /\ r.ws = worker[w].ws /\ r.acked = worker[w].acked
  BY <1>1 DEF ConnectFails, WorkerState, NoWorker, Established, IInv, TypeOK
<1>3. Places(w, r)
  BY <1>1 DEF ConnectFails, Places, Become, Forget, IInv, TypeOK, network, control, Breaks
<1> HIDE DEF r
<1>4. SocketMoves(w, r) /\ worker[w].pc # "none"
  BY <1>1, <1>2 DEF ConnectFails, At, SocketMoves, WorkerKnown, Opened, Established, network, Breaks
<1>5. GoodRecord(w, r)
  BY <1>1, <1>2 DEF ConnectFails, At, GoodRecord, WorkerKnown, Opened, Established
<1>6. Faithful(w, r)
  BY <1>1, <1>2 DEF ConnectFails, At, Faithful, Current, Established
<1>7. UNCHANGED <<flags, invalid, socket, owner>> /\ r.pc \notin {"none", "dead"}
  BY <1>2 DEF ConnectFails, At
<1>8. r.pc \in Installed => /\ worker[w].pc \in Installed /\ r.ws = worker[w].ws
                            /\ r.generation = worker[w].generation
  BY <1>2 DEF ConnectFails, At, Installed, Established
<1> QED
  BY <1>2, <1>3, <1>4, <1>5, <1>6, <1>7, <1>8, QuietKeeps

\* A socket comes too late.
LEMMA DropSocketKeeps ==
    ASSUME IInv, NEW w \in Worker, DropSocket(w), NoteLoss
    PROVE  IInv'
<1> DEFINE r == [NoWorker EXCEPT !.pc = "loop"]
<1>1. worker[w] \in WorkerState /\ WorkerKnown(w) /\ worker \in [Worker -> WorkerState]
  BY WorkerFacts, Known
<1>2. /\ r \in WorkerState
      /\ r.pc = "loop" /\ r.ids = {}
      /\ r.generation = 0 /\ r.ws = 0 /\ r.acked = {}
  BY <1>1 DEF DropSocket, WorkerState, NoWorker, Established, IInv, TypeOK
<1>3. Places(w, r)
  BY <1>1 DEF DropSocket, Places, Become, Forget, IInv, TypeOK, network, control, Forget
<1> HIDE DEF r
<1>4. SocketMoves(w, r) /\ worker[w].pc # "none"
  BY <1>1, <1>2, ZeroFacts DEF DropSocket, At, SocketMoves, WorkerKnown, Opened, Established, network, Forget
<1>5. GoodRecord(w, r)
  BY <1>2, ZeroFacts DEF GoodRecord, Opened, Established
<1>6. Faithful(w, r)
  BY <1>1, <1>2 DEF DropSocket, At, Faithful, Current, Established
<1>7. UNCHANGED <<flags, invalid, socket, owner>> /\ r.pc \notin {"none", "dead"}
  BY <1>2 DEF DropSocket, At
<1>8. r.pc \in Installed => /\ worker[w].pc \in Installed /\ r.ws = worker[w].ws
                            /\ r.generation = worker[w].generation
  BY <1>2 DEF DropSocket, At, Installed, Established
<1> QED
  BY <1>2, <1>3, <1>4, <1>5, <1>6, <1>7, <1>8, QuietKeeps

\* The server says that the connection is there.
LEMMA GreetKeeps ==
    ASSUME IInv, NEW w \in Worker, Greet(w), NoteLoss
    PROVE  IInv'
<1> DEFINE r == [worker[w] EXCEPT !.pc = "register"]
<1>1. worker[w] \in WorkerState /\ WorkerKnown(w) /\ worker \in [Worker -> WorkerState]
  BY WorkerFacts, Known
<1>2. /\ r \in WorkerState
      /\ r.pc = "register" /\ r.ids = worker[w].ids
      /\ r.generation = worker[w].generation /\ r.ws = worker[w].ws /\ r.acked = worker[w].acked
  BY <1>1 DEF Greet, WorkerState, NoWorker, Established, IInv, TypeOK
<1>3. Places(w, r)
  BY <1>1 DEF Greet, Places, Become, Forget, IInv, TypeOK, network, control
<1> HIDE DEF r
<1>4. SocketMoves(w, r) /\ worker[w].pc # "none"
  BY <1>1, <1>2 DEF Greet, At, SocketMoves, WorkerKnown, Opened, Established, network
<1>5. GoodRecord(w, r)
  BY <1>1, <1>2 DEF Greet, At, GoodRecord, WorkerKnown, Opened, Established
<1>6. Faithful(w, r)
  BY <1>1, <1>2 DEF Greet, At, Faithful, Current, Established
<1>7. UNCHANGED <<flags, invalid, socket, owner>> /\ r.pc \notin {"none", "dead"}
  BY <1>2 DEF Greet, At
<1>8. r.pc \in Installed => /\ worker[w].pc \in Installed /\ r.ws = worker[w].ws
                            /\ r.generation = worker[w].generation
  BY <1>2 DEF Greet, At, Installed, Established
<1> QED
  BY <1>2, <1>3, <1>4, <1>5, <1>6, <1>7, <1>8, QuietKeeps

\* The server takes the registration.
LEMMA RegisterKeeps ==
    ASSUME IInv, NEW w \in Worker, Register(w), NoteLoss
    PROVE  IInv'
<1>0. PICK next \in {"sign in", "subscribe"} : Become(w, next)
  BY DEF Register
<1> DEFINE r == [worker[w] EXCEPT !.pc = next]
<1>1. worker[w] \in WorkerState /\ WorkerKnown(w) /\ worker \in [Worker -> WorkerState]
  BY WorkerFacts, Known
<1>2. /\ r \in WorkerState
      /\ r.pc = next /\ r.ids = worker[w].ids
      /\ r.generation = worker[w].generation /\ r.ws = worker[w].ws /\ r.acked = worker[w].acked
  BY <1>1 DEF Register, WorkerState, NoWorker, Established, IInv, TypeOK
<1>3. Places(w, r)
  BY <1>0, <1>1 DEF Register, Places, Become, Forget, IInv, TypeOK, network, control
<1> HIDE DEF r
<1>4. SocketMoves(w, r) /\ worker[w].pc # "none"
  BY <1>1, <1>2 DEF Register, At, SocketMoves, WorkerKnown, Opened, Established, network
<1>5. GoodRecord(w, r)
  BY <1>1, <1>2 DEF Register, At, GoodRecord, WorkerKnown, Opened, Established
<1>6. Faithful(w, r)
  BY <1>1, <1>2 DEF Register, At, Faithful, Current, Established
<1>7. UNCHANGED <<flags, invalid, socket, owner>> /\ r.pc \notin {"none", "dead"}
  BY <1>2 DEF Register, At
<1>8. r.pc \in Installed => /\ worker[w].pc \in Installed /\ r.ws = worker[w].ws
                            /\ r.generation = worker[w].generation
  BY <1>2 DEF Register, At, Installed, Established
<1> QED
  BY <1>2, <1>3, <1>4, <1>5, <1>6, <1>7, <1>8, QuietKeeps

\* The server accepts the sign-in.
LEMMA SignInKeeps ==
    ASSUME IInv, NEW w \in Worker, SignIn(w), NoteLoss
    PROVE  IInv'
<1> DEFINE r == [worker[w] EXCEPT !.pc = "subscribe"]
<1>1. worker[w] \in WorkerState /\ WorkerKnown(w) /\ worker \in [Worker -> WorkerState]
  BY WorkerFacts, Known
<1>2. /\ r \in WorkerState
      /\ r.pc = "subscribe" /\ r.ids = worker[w].ids
      /\ r.generation = worker[w].generation /\ r.ws = worker[w].ws /\ r.acked = worker[w].acked
  BY <1>1 DEF SignIn, WorkerState, NoWorker, Established, IInv, TypeOK
<1>3. Places(w, r)
  BY <1>1 DEF SignIn, Places, Become, Forget, IInv, TypeOK, network, control
<1> HIDE DEF r
<1>4. SocketMoves(w, r) /\ worker[w].pc # "none"
  BY <1>1, <1>2 DEF SignIn, At, SocketMoves, WorkerKnown, Opened, Established, network
<1>5. GoodRecord(w, r)
  BY <1>1, <1>2 DEF SignIn, At, GoodRecord, WorkerKnown, Opened, Established
<1>6. Faithful(w, r)
  BY <1>1, <1>2 DEF SignIn, At, Faithful, Current, Established
<1>7. UNCHANGED <<flags, invalid, socket, owner>> /\ r.pc \notin {"none", "dead"}
  BY <1>2 DEF SignIn, At
<1>8. r.pc \in Installed => /\ worker[w].pc \in Installed /\ r.ws = worker[w].ws
                            /\ r.generation = worker[w].generation
  BY <1>2 DEF SignIn, At, Installed, Established
<1> QED
  BY <1>2, <1>3, <1>4, <1>5, <1>6, <1>7, <1>8, QuietKeeps

\* A channel is acknowledged.
LEMMA AcknowledgeKeeps ==
    ASSUME IInv, NEW w \in Worker, NEW e \in Event, Acknowledge(w, e), NoteLoss
    PROVE  IInv'
<1> DEFINE r == [worker[w] EXCEPT !.acked = worker[w].acked \cup {e}]
<1>1. worker[w] \in WorkerState /\ WorkerKnown(w) /\ worker \in [Worker -> WorkerState]
  BY WorkerFacts, Known
<1>2. /\ r \in WorkerState
      /\ r.pc = worker[w].pc /\ r.ids = worker[w].ids
      /\ r.generation = worker[w].generation /\ r.ws = worker[w].ws /\ r.acked = worker[w].acked \cup {e}
  BY <1>1 DEF Acknowledge, WorkerState, NoWorker, Established, IInv, TypeOK
<1>3. Places(w, r)
  BY <1>1 DEF Acknowledge, Places, Become, Forget, IInv, TypeOK, network, control
<1> HIDE DEF r
<1>4. SocketMoves(w, r) /\ worker[w].pc # "none"
  BY <1>1, <1>2 DEF Acknowledge, At, SocketMoves, WorkerKnown, Opened, Established, network
<1>5. GoodRecord(w, r)
  BY <1>1, <1>2 DEF Acknowledge, At, GoodRecord, WorkerKnown, Opened, Established
<1>6. Faithful(w, r)
  BY <1>1, <1>2 DEF Acknowledge, At, Faithful, Current, Established
<1>7. UNCHANGED <<flags, invalid, socket, owner>> /\ r.pc \notin {"none", "dead"}
  BY <1>2 DEF Acknowledge, At
<1>8. r.pc \in Installed => /\ worker[w].pc \in Installed /\ r.ws = worker[w].ws
                            /\ r.generation = worker[w].generation
  BY <1>2 DEF Acknowledge, At, Installed, Established
<1> QED
  BY <1>2, <1>3, <1>4, <1>5, <1>6, <1>7, <1>8, QuietKeeps

\* The worker sees that it is no longer current.
LEMMA LeaveKeeps ==
    ASSUME IInv, NEW w \in Worker, Leave(w), NoteLoss
    PROVE  IInv'
<1> DEFINE r == [worker[w] EXCEPT !.pc = "leave"]
<1>1. worker[w] \in WorkerState /\ WorkerKnown(w) /\ worker \in [Worker -> WorkerState]
  BY WorkerFacts, Known
<1>2. /\ r \in WorkerState
      /\ r.pc = "leave" /\ r.ids = worker[w].ids
      /\ r.generation = worker[w].generation /\ r.ws = worker[w].ws /\ r.acked = worker[w].acked
  BY <1>1 DEF Leave, WorkerState, NoWorker, Established, IInv, TypeOK
<1>3. Places(w, r)
  BY <1>1 DEF Leave, Places, Become, Forget, IInv, TypeOK, network, control
<1> HIDE DEF r
<1>4. SocketMoves(w, r) /\ worker[w].pc # "none"
  BY <1>1, <1>2 DEF Leave, At, SocketMoves, WorkerKnown, Opened, Established, network
<1>5. GoodRecord(w, r)
  BY <1>1, <1>2 DEF Leave, At, GoodRecord, WorkerKnown, Opened, Established
<1>6. Faithful(w, r)
  BY <1>1, <1>2 DEF Leave, At, Faithful, Current, Established
<1>7. UNCHANGED <<flags, invalid, socket, owner>> /\ r.pc \notin {"none", "dead"}
  BY <1>2 DEF Leave, At
<1>8. r.pc \in Installed => /\ worker[w].pc \in Installed /\ r.ws = worker[w].ws
                            /\ r.generation = worker[w].generation
  BY <1>2 DEF Leave, At, Installed, Established
<1> QED
  BY <1>2, <1>3, <1>4, <1>5, <1>6, <1>7, <1>8, QuietKeeps

\* The connection fails.
LEMMA RaiseKeeps ==
    ASSUME IInv, NEW w \in Worker, Raise(w), NoteLoss
    PROVE  IInv'
<1> DEFINE r == [worker[w] EXCEPT !.pc = "raise"]
<1>1. worker[w] \in WorkerState /\ WorkerKnown(w) /\ worker \in [Worker -> WorkerState]
  BY WorkerFacts, Known
<1>2. /\ r \in WorkerState
      /\ r.pc = "raise" /\ r.ids = worker[w].ids
      /\ r.generation = worker[w].generation /\ r.ws = worker[w].ws /\ r.acked = worker[w].acked
  BY <1>1 DEF Raise, WorkerState, NoWorker, Established, IInv, TypeOK
<1>3. Places(w, r)
  BY <1>1 DEF Raise, Places, Become, Forget, IInv, TypeOK, network, control, Breaks
<1> HIDE DEF r
<1>4. SocketMoves(w, r) /\ worker[w].pc # "none"
  BY <1>1, <1>2 DEF Raise, At, SocketMoves, WorkerKnown, Opened, Established, network, Breaks
<1>5. GoodRecord(w, r)
  BY <1>1, <1>2 DEF Raise, At, GoodRecord, WorkerKnown, Opened, Established
<1>6. Faithful(w, r)
  BY <1>1, <1>2 DEF Raise, At, Faithful, Current, Established
<1>7. UNCHANGED <<flags, invalid, socket, owner>> /\ r.pc \notin {"none", "dead"}
  BY <1>2 DEF Raise, At
<1>8. r.pc \in Installed => /\ worker[w].pc \in Installed /\ r.ws = worker[w].ws
                            /\ r.generation = worker[w].generation
  BY <1>2 DEF Raise, At, Installed, Established
<1> QED
  BY <1>2, <1>3, <1>4, <1>5, <1>6, <1>7, <1>8, QuietKeeps

\* A failed worker that was replaced ends.
LEMMA GiveUpKeeps ==
    ASSUME IInv, NEW w \in Worker, GiveUp(w), NoteLoss
    PROVE  IInv'
<1> DEFINE r == [NoWorker EXCEPT !.pc = "end"]
<1>1. worker[w] \in WorkerState /\ WorkerKnown(w) /\ worker \in [Worker -> WorkerState]
  BY WorkerFacts, Known
<1>2. /\ r \in WorkerState
      /\ r.pc = "end" /\ r.ids = {}
      /\ r.generation = 0 /\ r.ws = 0 /\ r.acked = {}
  BY <1>1 DEF GiveUp, WorkerState, NoWorker, Established, IInv, TypeOK
<1>3. Places(w, r)
  BY <1>1 DEF GiveUp, Places, Become, Forget, IInv, TypeOK, network, control
<1> HIDE DEF r
<1>4. SocketMoves(w, r) /\ worker[w].pc # "none"
  BY <1>1, <1>2, ZeroFacts DEF GiveUp, At, SocketMoves, WorkerKnown, Opened, Established, network
<1>5. GoodRecord(w, r)
  BY <1>2, ZeroFacts DEF GoodRecord, Opened, Established
<1>6. Faithful(w, r)
  BY <1>1, <1>2 DEF GiveUp, At, Faithful, Current, Established
<1>7. UNCHANGED <<flags, invalid, socket, owner>> /\ r.pc \notin {"none", "dead"}
  BY <1>2 DEF GiveUp, At
<1>8. r.pc \in Installed => /\ worker[w].pc \in Installed /\ r.ws = worker[w].ws
                            /\ r.generation = worker[w].generation
  BY <1>2 DEF GiveUp, At, Installed, Established
<1> QED
  BY <1>2, <1>3, <1>4, <1>5, <1>6, <1>7, <1>8, QuietKeeps

\* The wait before a reconnection is over.
LEMMA BackOffKeeps ==
    ASSUME IInv, NEW w \in Worker, BackOff(w), NoteLoss
    PROVE  IInv'
<1> DEFINE r == [NoWorker EXCEPT !.pc = "loop"]
<1>1. worker[w] \in WorkerState /\ WorkerKnown(w) /\ worker \in [Worker -> WorkerState]
  BY WorkerFacts, Known
<1>2. /\ r \in WorkerState
      /\ r.pc = "loop" /\ r.ids = {}
      /\ r.generation = 0 /\ r.ws = 0 /\ r.acked = {}
  BY <1>1 DEF BackOff, WorkerState, NoWorker, Established, IInv, TypeOK
<1>3. Places(w, r)
  BY <1>1 DEF BackOff, Places, Become, Forget, IInv, TypeOK, network, control
<1> HIDE DEF r
<1>4. SocketMoves(w, r) /\ worker[w].pc # "none"
  BY <1>1, <1>2, ZeroFacts DEF BackOff, At, SocketMoves, WorkerKnown, Opened, Established, network
<1>5. GoodRecord(w, r)
  BY <1>2, ZeroFacts DEF GoodRecord, Opened, Established
<1>6. Faithful(w, r)
  BY <1>1, <1>2 DEF BackOff, At, Faithful, Current, Established
<1>7. UNCHANGED <<flags, invalid, socket, owner>> /\ r.pc \notin {"none", "dead"}
  BY <1>2 DEF BackOff, At
<1>8. r.pc \in Installed => /\ worker[w].pc \in Installed /\ r.ws = worker[w].ws
                            /\ r.generation = worker[w].generation
  BY <1>2 DEF BackOff, At, Installed, Established
<1> QED
  BY <1>2, <1>3, <1>4, <1>5, <1>6, <1>7, <1>8, QuietKeeps

-----------------------------------------------------------------------------
(* Worker steps that the rest of the stream sees.                          *)

\* What the stream says is said of its own worker.
LEMMA OwnWorker ==
    ASSUME IInv, NEW w \in Worker, token = w
    PROVE  /\ ready => /\ Current(w) /\ worker[w].pc \in {"serve", "raise"}
                       /\ worker[w].acked = ids /\ socket = worker[w].ws
           /\ ~Current(w) \/ worker[w].pc \notin {"raise", "handler"} => unfed = {}
           /\ ~Current(w) \/ worker[w].pc \notin {"subscribe", "serve"} => Fed = {}
           /\ Fed # {} => Fed = worker[w].acked
<1>1. ready => /\ Current(w) /\ worker[w].pc \in {"serve", "raise"}
               /\ worker[w].acked = ids /\ socket = worker[w].ws
  BY DEF IInv, Parts, ReadyMeansSubscribed, Current
<1> QED
  BY <1>1, FedByCurrent, LossByCurrent

\* The stream takes a worker's socket.
LEMMA InstallKeeps ==
    ASSUME IInv, NEW w \in Worker, Install(w), NoteLoss
    PROVE  IInv'
<1> DEFINE r == [worker[w] EXCEPT !.pc = "greet"]
<1>1. worker[w] \in WorkerState /\ WorkerKnown(w) /\ worker \in [Worker -> WorkerState]
  BY WorkerFacts, Known
<1>2. /\ r \in WorkerState
      /\ r.pc = "greet" /\ r.ids = worker[w].ids
      /\ r.generation = worker[w].generation /\ r.ws = worker[w].ws /\ r.acked = worker[w].acked
  BY <1>1 DEF Install, WorkerState, NoWorker, Established, IInv, TypeOK
<1>3. Places(w, r)
  BY <1>1 DEF Install, Places, Become, Forget, IInv, TypeOK, network, control
<1> HIDE DEF r
<1>4. SocketMoves(w, r) /\ worker[w].pc # "none"
  BY <1>1, <1>2 DEF Install, At, SocketMoves, WorkerKnown, Opened, Established, network
<1>5. GoodRecord(w, r)
  BY <1>1, <1>2 DEF Install, At, GoodRecord, WorkerKnown, Opened, Established
<1>6. Apart(w)
  BY DEF Install, Apart, Current, flags
<1>7. Owned(w, r)
  <2>1. token = w /\ w \notin cancelled /\ generation = worker[w].generation
    BY DEF Install, Current
  <2>2. unfed = {} /\ Fed = {} /\ ~ready
    BY <2>1, OwnWorker DEF Install, At
  <2>3. unfed' = {}
    BY <2>2 DEF NoteLoss
  <2> QED
    BY <1>1, <1>2, <2>1, <2>2, <2>3 DEF Install, Owned, IInv, TypeOK, WorkerState
<1> QED
  BY <1>2, <1>3, <1>4, <1>5, <1>6, <1>7, PlaceKeeps

\* The subscription is complete.
LEMMA BecomeReadyKeeps ==
    ASSUME IInv, NEW w \in Worker, BecomeReady(w), NoteLoss
    PROVE  IInv'
<1> DEFINE r == [worker[w] EXCEPT !.pc = "serve"]
<1>1. worker[w] \in WorkerState /\ WorkerKnown(w) /\ worker \in [Worker -> WorkerState]
  BY WorkerFacts, Known
<1>2. /\ r \in WorkerState
      /\ r.pc = "serve" /\ r.ids = worker[w].ids
      /\ r.generation = worker[w].generation /\ r.ws = worker[w].ws /\ r.acked = worker[w].acked
  BY <1>1 DEF BecomeReady, WorkerState, NoWorker, Established, IInv, TypeOK
<1>3. Places(w, r)
  BY <1>1 DEF BecomeReady, Places, Become, Forget, IInv, TypeOK, network, control
<1> HIDE DEF r
<1>4. SocketMoves(w, r) /\ worker[w].pc # "none"
  BY <1>1, <1>2 DEF BecomeReady, At, SocketMoves, WorkerKnown, Opened, Established, network
<1>5. GoodRecord(w, r)
  BY <1>1, <1>2 DEF BecomeReady, At, GoodRecord, WorkerKnown, Opened, Established
<1>6. Apart(w)
  BY DEF BecomeReady, Apart, Current, flags
<1>7. Owned(w, r)
  <2>1. token = w /\ w \notin cancelled /\ generation = worker[w].generation
    BY DEF BecomeReady, Current
  <2>2. unfed = {} /\ worker[w].acked = ids /\ socket = worker[w].ws /\ owner = w
    BY <1>1, <2>1, OwnWorker DEF BecomeReady, At, WorkerKnown, Installed, Established
  <2>3. Fed \subseteq Fed'
    <3> SUFFICES ASSUME NEW e \in Fed PROVE e \in Fed'
      OBVIOUS
    <3>1. e \in Event /\ e \in worker[w].acked
      BY <2>1, OwnWorker DEF Fed
    <3>2. Current(w)' /\ worker'[w] = r
      BY <1>1, <1>2, <1>3, <2>1 DEF Places, Current, control
    <3> QED
      BY <1>2, <3>1, <3>2 DEF Fed
  <2>4. unfed' = {}
    BY <2>2, <2>3 DEF NoteLoss
  <2> QED
    BY <1>1, <1>2, <2>1, <2>2, <2>4 DEF BecomeReady, Owned, IInv, TypeOK, WorkerState
<1> QED
  BY <1>2, <1>3, <1>4, <1>5, <1>6, <1>7, PlaceKeeps

\* A failed connection is noted.
LEMMA HandleFailureKeeps ==
    ASSUME IInv, NEW w \in Worker, HandleFailure(w), NoteLoss
    PROVE  IInv'
<1> DEFINE r == [worker[w] EXCEPT !.pc = "back off"]
<1>1. worker[w] \in WorkerState /\ WorkerKnown(w) /\ worker \in [Worker -> WorkerState]
  BY WorkerFacts, Known
<1>2. /\ r \in WorkerState
      /\ r.pc = "back off" /\ r.ids = worker[w].ids
      /\ r.generation = worker[w].generation /\ r.ws = worker[w].ws /\ r.acked = worker[w].acked
  BY <1>1 DEF HandleFailure, WorkerState, NoWorker, Established, IInv, TypeOK
<1>3. Places(w, r)
  BY <1>1 DEF HandleFailure, Places, Become, Forget, IInv, TypeOK, network, control
<1> HIDE DEF r
<1>4. SocketMoves(w, r) /\ worker[w].pc # "none"
  BY <1>1, <1>2 DEF HandleFailure, At, SocketMoves, WorkerKnown, Opened, Established, network
<1>5. GoodRecord(w, r)
  BY <1>1, <1>2 DEF HandleFailure, At, GoodRecord, WorkerKnown, Opened, Established
<1>6. Apart(w)
  BY DEF HandleFailure, Apart, Current, flags
<1>7. Owned(w, r)
  <2>1. token = w /\ w \notin cancelled /\ worker[w].pc = "handler"
    BY DEF HandleFailure, At
  <2>2. Fed = {} /\ unfed \subseteq ids
    BY <2>1, OwnWorker DEF IInv, Parts
  <2>3. CASE generation = worker[w].generation
    <3>1. invalid' = invalid \cup ids
      BY <1>1, <2>3 DEF HandleFailure, WorkerKnown
    <3>2. unfed' = {}
      BY <2>2, <3>1 DEF NoteLoss
    <3>3. invalid' \subseteq Event
      BY <3>1 DEF IInv, TypeOK
    <3> QED
      BY <1>2, <3>2, <3>3 DEF HandleFailure, Owned, Installed, Established, IInv, TypeOK
  <2>4. CASE generation # worker[w].generation
    <3>1. ~Current(w)
      BY <2>4 DEF Current
    <3>2. unfed = {}
      BY <2>1, <3>1, OwnWorker
    <3>3. unfed' = {} /\ invalid' = invalid
      BY <2>2, <2>4, <3>2 DEF NoteLoss, HandleFailure
    <3> QED
      BY <1>2, <3>3 DEF HandleFailure, Owned, Installed, Established, IInv, TypeOK
  <2> QED
    BY <2>3, <2>4
<1> QED
  BY <1>2, <1>3, <1>4, <1>5, <1>6, <1>7, PlaceKeeps

\* A worker's thread ends.
LEMMA EndKeeps ==
    ASSUME IInv, NEW w \in Worker, End(w), NoteLoss
    PROVE  IInv'
<1> DEFINE r == [worker[w] EXCEPT !.pc = "dead"]
<1>1. worker[w] \in WorkerState /\ WorkerKnown(w) /\ worker \in [Worker -> WorkerState]
  BY WorkerFacts, Known
<1>2. /\ r \in WorkerState
      /\ r.pc = "dead" /\ r.ids = worker[w].ids
      /\ r.generation = worker[w].generation /\ r.ws = worker[w].ws /\ r.acked = worker[w].acked
  BY <1>1 DEF End, WorkerState, NoWorker, Established, IInv, TypeOK
<1>3. Places(w, r)
  BY <1>1 DEF End, Places, Become, Forget, IInv, TypeOK, network, control
<1> HIDE DEF r
<1>4. SocketMoves(w, r) /\ worker[w].pc # "none"
  BY <1>1, <1>2 DEF End, At, SocketMoves, WorkerKnown, Opened, Established, network
<1>5. GoodRecord(w, r)
  BY <1>1, <1>2 DEF End, At, GoodRecord, WorkerKnown, Opened, Established
<1>6. Apart(w)
  BY DEF End, Apart, Current, flags
<1>7. Owned(w, r)
  <2>1. token = w => unfed = {} /\ Fed = {} /\ ~ready
    BY OwnWorker DEF End, At
  <2>2. token = w => unfed' = {}
    BY <2>1 DEF NoteLoss
  <2> QED
    BY <1>2, <2>1, <2>2 DEF End, Owned, Installed, Established, IInv, TypeOK
<1> QED
  BY <1>2, <1>3, <1>4, <1>5, <1>6, <1>7, PlaceKeeps

\* A connection ends.
LEMMA FinallyKeeps ==
    ASSUME IInv, NEW w \in Worker, Finally(w), NoteLoss
    PROVE  IInv'
<1> DEFINE r == IF At(w, "leave") THEN [NoWorker EXCEPT !.pc = "loop"]
                ELSE [worker[w] EXCEPT !.pc = "handler", !.ws = 0, !.acked = {}]
<1>1. worker[w] \in WorkerState /\ WorkerKnown(w) /\ worker \in [Worker -> WorkerState]
  BY WorkerFacts, Known
<1>2. /\ r \in WorkerState /\ r.ws = 0 /\ r.acked = {}
      /\ At(w, "leave") => r.pc = "loop" /\ r.ids = {} /\ r.generation = 0
      /\ ~At(w, "leave") => /\ At(w, "raise") /\ r.pc = "handler"
                            /\ r.ids = worker[w].ids /\ r.generation = worker[w].generation
  BY <1>1 DEF Finally, WorkerState, NoWorker, Established
<1>3. Places(w, r)
  BY <1>1 DEF Finally, Places, Forget, IInv, TypeOK, control
<1> HIDE DEF r
<1>4. SocketMoves(w, r) /\ worker[w].pc # "none"
  BY <1>2 DEF Finally, At, SocketMoves
<1>5. GoodRecord(w, r)
  BY <1>1, <1>2, ZeroFacts DEF GoodRecord, WorkerKnown
<1>6. Apart(w)
  BY DEF Finally, Apart
<1>7. Owned(w, r)
  <2> SUFFICES ASSUME token = w PROVE Owned(w, r)
    BY DEF Owned
  <2>1. Fed = {}
    BY OwnWorker DEF Finally, At
  <2>2. ~ready'
    <3>1. ready => owner = w /\ socket = worker[w].ws
      BY <1>1, OwnWorker DEF WorkerKnown, Installed, Established
    <3> QED
      BY <3>1 DEF Finally
  <2>3. unfed' # {} => w \notin cancelled /\ generation = r.generation /\ r.pc = "handler"
    <3> SUFFICES ASSUME unfed' # {}
                 PROVE  w \notin cancelled /\ generation = r.generation /\ r.pc = "handler"
      OBVIOUS
    <3>1. unfed # {}
      BY <2>1 DEF NoteLoss
    <3>2. Current(w) /\ worker[w].pc \in {"raise", "handler"}
      BY <3>1, OwnWorker
    <3> QED
      BY <1>2, <3>2 DEF Current, At
  <2>4. /\ ready' \in BOOLEAN /\ connected' \in BOOLEAN /\ cacheReady' \in BOOLEAN
        /\ invalid' \subseteq Event /\ socket' \in Nat /\ owner' \in Worker \cup {0}
    <3>1. ready' \in {ready, FALSE} /\ socket' \in {socket, 0} /\ owner' \in {owner, 0}
      BY DEF Finally
    <3>2. UNCHANGED <<connected, cacheReady, invalid>>
      BY DEF Finally
    <3>3. ready' \in BOOLEAN /\ connected' \in BOOLEAN /\ cacheReady' \in BOOLEAN
      BY <3>1, <3>2, Zenon DEF IInv, TypeOK
    <3>4. invalid' \subseteq Event /\ socket' \in Nat /\ owner' \in Worker \cup {0}
      BY <3>1, <3>2, Known DEF IInv, TypeOK
    <3> QED
      BY <3>3, <3>4
  <2>5. r.pc \notin Installed /\ r.pc \notin {"none", "dead"}
    BY <1>2 DEF Installed, Established
  <2> QED
    BY <2>2, <2>3, <2>4, <2>5 DEF Owned
<1> QED
  BY <1>2, <1>3, <1>4, <1>5, <1>6, <1>7, PlaceKeeps

-----------------------------------------------------------------------------
(* Steps of the calls.                                                     *)

\* A step that leaves the workers alone loses no feed.
LEMMA NothingLost ==
    ASSUME IInv, NoteLoss, UNCHANGED <<generation, token, cancelled, worker>>
    PROVE  /\ unfed' \subseteq unfed
           /\ \A w \in Worker : Current(w)' <=> Current(w)
<1>1. \A w \in Worker : Current(w)' <=> Current(w)
  BY DEF Current
<1>2. Fed' = Fed
  BY <1>1 DEF Fed
<1> QED
  BY <1>1, <1>2 DEF NoteLoss

\* It keeps what is known of the stream, if it leaves that alone too.
LEMMA PartsKept ==
    ASSUME IInv, NoteLoss, UNCHANGED <<ids, generation, token, cancelled, launched, worker>>,
           UNCHANGED <<ready, socket>>,
           connected' \/ cacheReady' => connected \/ cacheReady,
           closed' \subseteq {worker[w].ws : w \in Worker} \ {0}
    PROVE  Parts'
<1>1. unfed' \subseteq unfed /\ \A w \in Worker : Current(w)' <=> Current(w)
  BY NothingLost
<1>2. ReadyMeansSubscribed'
  BY <1>1 DEF IInv, Parts, ReadyMeansSubscribed
<1>3. LossIsNoticed'
  BY <1>1 DEF IInv, Parts, LossIsNoticed
<1>4. FlagsHeld'
  BY DEF IInv, Parts, FlagsHeld, Alive
<1>5. ClosedHeld'
  BY DEF ClosedHeld
<1> QED
  BY <1>1, <1>2, <1>3, <1>4, <1>5 DEF IInv, Parts

\* A call takes the lifecycle lock, keeps it or gives it back.
Locks(c) ==
    \/ lifecycle' = lifecycle
    \/ lifecycle = {} /\ lifecycle' = {c}
    \/ lifecycle = {c} /\ lifecycle' = {}

LocksWell(c, r) ==
    /\ r.op = "start" /\ r.pc \in {"set", "hang up", "launch"} =>
           lifecycle' = {c} /\ launched' < MaxWorker
    /\ r.pc = "launch" => r.op = "start"

\* The other calls stay known.
LEMMA OtherCallsKept ==
    ASSUME IInv, NEW c \in Caller, NEW d \in Caller \ {c}, Locks(c), caller'[d] = caller[d],
           launched' = launched \/ lifecycle = {c},
           \A w \in Worker : \/ worker'[w].ws = worker[w].ws /\ worker'[w].generation = worker[w].generation
                            \/ worker'[w].ws = 0,
           \A w \in Worker : worker[w].generation # generation => worker[w].generation # generation'
    PROVE  CallKnown(d)'
<1>1. CallKnown(d)
  BY CallFacts
<1>2. caller'[d].op = "start" /\ caller'[d].pc \in {"set", "hang up", "launch"} =>
         lifecycle' = {d} /\ launched' < MaxWorker
  BY <1>1 DEF CallKnown, Locks
<1> QED
  BY <1>1, <1>2 DEF CallKnown

\* A step of c that changes little but c keeps the invariant.
LEMMA CallQuietKeeps ==
    ASSUME IInv, NoteLoss, NEW c \in Caller, NEW r \in CallState,
           caller' = [caller EXCEPT ![c] = r],
           UNCHANGED <<ids, generation, stop, token, cancelled, launched, worker>>,
           UNCHANGED <<ready, invalid, socket, owner, failures>>,
           connected' \in BOOLEAN, cacheReady' \in BOOLEAN,
           connected' \/ cacheReady' => connected \/ cacheReady,
           Locks(c), LocksWell(c, r),
           r.ws \in {0, caller[c].ws},
           \A s \in closed' : s \in closed \/ (s = caller[c].ws /\ s # 0 /\ \E w \in Worker : worker[w].ws = s)
    PROVE  IInv'
<1>1. caller'[c] = r /\ caller' \in [Caller -> CallState]
      /\ \A d \in Caller \ {c} : caller'[d] = caller[d]
  BY Known
<1>2. 0 \notin closed' /\ closed' \subseteq {worker[w].ws : w \in Worker} \ {0}
  BY DEF IInv, Parts, ClosedHeld
<1>3. Parts'
  BY <1>2, PartsKept
<1>4. ASSUME NEW w \in Worker PROVE WorkerKnown(w)'
  <2>1. WorkerKnown(w) /\ (Current(w)' <=> Current(w))
    BY WorkerFacts, NothingLost
  <2>2. worker[w].ws \in closed' => worker[w].generation # generation
    <3> SUFFICES ASSUME worker[w].ws \in closed', worker[w].ws \notin closed
                 PROVE  worker[w].generation # generation
      BY <2>1 DEF WorkerKnown
    <3>1. caller[c].ws # 0 /\ worker[w].ws = caller[c].ws
      OBVIOUS
    <3>2. CallKnown(c)
      BY CallFacts
    <3> QED
      BY <3>1, <3>2 DEF CallKnown
  <2> QED
    BY <2>1, <2>2 DEF WorkerKnown
<1>5. ASSUME NEW d \in Caller, d # c PROVE CallKnown(d)'
  BY <1>1, <1>5, OtherCallsKept
<1>6. CallKnown(c)'
  <2>1. CallKnown(c)
    BY CallFacts
  <2> QED
    BY <1>1, <2>1 DEF CallKnown, LocksWell
<1>7. TypeOK'
  <2>1. lifecycle' \subseteq Caller
    BY DEF Locks, IInv, TypeOK
  <2>2. closed' \subseteq Nat /\ unfed' \subseteq Event
    BY <1>2, WorkerFacts, NothingLost DEF IInv, TypeOK
  <2> QED
    BY <1>1, <2>1, <2>2 DEF IInv, TypeOK
<1> QED
  BY <1>3, <1>4, <1>5, <1>6, <1>7 DEF IInv

\* A call begins.
LEMMA CallKeeps ==
    ASSUME IInv, NEW c \in Caller, NEW op \in {"start", "set_subscriptions"},
           NEW S \in SUBSET Event, NEW on \in Worker \cup {0}, Call(c, op, S, on), NoteLoss
    PROVE  IInv'
<1> DEFINE r == [NoCall EXCEPT !.pc = "set", !.op = op, !.ids = S, !.on = on]
<1>1. CallKnown(c) /\ caller[c] \in CallState
  BY CallFacts
<1>2. r \in CallState /\ caller' = [caller EXCEPT ![c] = r]
  BY <1>1, Known DEF Call, NoCall, CallState, Goto, Return
<1>3. /\ UNCHANGED <<ids, generation, stop, token, cancelled, launched, worker>>
      /\ UNCHANGED <<ready, invalid, socket, owner, failures>>
  BY DEF Call, control, flags, network
<1>4. /\ connected' \in BOOLEAN /\ cacheReady' \in BOOLEAN
      /\ connected' \/ cacheReady' => connected \/ cacheReady
  BY DEF Call, flags, IInv, TypeOK
<1>5. Locks(c) /\ LocksWell(c, r)
  BY <1>1, <1>3 DEF Call, CallKnown, Locks, LocksWell, control, NoCall, CallState
<1>6. r.ws \in {0, caller[c].ws}
  BY <1>1 DEF NoCall, CallState
<1>7. \A s \in closed' :
         s \in closed \/ (s = caller[c].ws /\ s # 0 /\ \E w \in Worker : worker[w].ws = s)
  BY DEF Call, network
<1> HIDE DEF r
<1> QED
  BY <1>2, <1>3, <1>4, <1>5, <1>6, <1>7, CallQuietKeeps

\* The subscription is what it should be.
LEMMA KeepSubscriptionsKeeps ==
    ASSUME IInv, NEW c \in Caller, KeepSubscriptions(c), NoteLoss
    PROVE  IInv'
<1> DEFINE r == IF caller[c].op = "start" THEN [caller[c] EXCEPT !.pc = "launch"] ELSE NoCall
<1>1. CallKnown(c) /\ caller[c] \in CallState
  BY CallFacts
<1>2. r \in CallState /\ caller' = [caller EXCEPT ![c] = r]
  BY <1>1, Known DEF KeepSubscriptions, NoCall, CallState, Goto, Return
<1>3. /\ UNCHANGED <<ids, generation, stop, token, cancelled, launched, worker>>
      /\ UNCHANGED <<ready, invalid, socket, owner, failures>>
  BY DEF KeepSubscriptions, control, flags, network
<1>4. /\ connected' \in BOOLEAN /\ cacheReady' \in BOOLEAN
      /\ connected' \/ cacheReady' => connected \/ cacheReady
  BY DEF KeepSubscriptions, flags, IInv, TypeOK
<1>5. Locks(c) /\ LocksWell(c, r)
  BY <1>1, <1>3 DEF KeepSubscriptions, CallKnown, Locks, LocksWell, control, NoCall, CallState
<1>6. r.ws \in {0, caller[c].ws}
  BY <1>1 DEF NoCall, CallState
<1>7. \A s \in closed' :
         s \in closed \/ (s = caller[c].ws /\ s # 0 /\ \E w \in Worker : worker[w].ws = s)
  BY DEF KeepSubscriptions, network
<1> HIDE DEF r
<1> QED
  BY <1>2, <1>3, <1>4, <1>5, <1>6, <1>7, CallQuietKeeps

\* A call closes the socket that it found.
LEMMA HangUpKeeps ==
    ASSUME IInv, NEW c \in Caller, HangUp(c), NoteLoss
    PROVE  IInv'
<1> DEFINE r == CASE caller[c].op = "start" -> [caller[c] EXCEPT !.pc = "launch"]
                [] caller[c].op = "close" -> [caller[c] EXCEPT !.pc = "join"]
                [] OTHER -> NoCall
<1>1. CallKnown(c) /\ caller[c] \in CallState
  BY CallFacts
<1>2. r \in CallState /\ caller' = [caller EXCEPT ![c] = r]
  BY <1>1, Known DEF HangUp, NoCall, CallState, Goto, Return
<1>3. /\ UNCHANGED <<ids, generation, stop, token, cancelled, launched, worker>>
      /\ UNCHANGED <<ready, invalid, socket, owner, failures>>
  BY DEF HangUp, control, flags, network
<1>4. /\ connected' \in BOOLEAN /\ cacheReady' \in BOOLEAN
      /\ connected' \/ cacheReady' => connected \/ cacheReady
  BY DEF HangUp, flags, IInv, TypeOK
<1>5. Locks(c) /\ LocksWell(c, r)
  BY <1>1, <1>3 DEF HangUp, CallKnown, Locks, LocksWell, control, NoCall, CallState
<1>6. r.ws \in {0, caller[c].ws}
  BY <1>1 DEF NoCall, CallState
<1>7. \A s \in closed' :
         s \in closed \/ (s = caller[c].ws /\ s # 0 /\ \E w \in Worker : worker[w].ws = s)
  BY DEF HangUp, network
<1> HIDE DEF r
<1> QED
  BY <1>2, <1>3, <1>4, <1>5, <1>6, <1>7, CallQuietKeeps

\* A stream that runs is left to run.
LEMMA KeepWorkerKeeps ==
    ASSUME IInv, NEW c \in Caller, KeepWorker(c), NoteLoss
    PROVE  IInv'
<1> DEFINE r == NoCall
<1>1. CallKnown(c) /\ caller[c] \in CallState
  BY CallFacts
<1>2. r \in CallState /\ caller' = [caller EXCEPT ![c] = r]
  BY <1>1, Known DEF KeepWorker, NoCall, CallState, Goto, Return
<1>3. /\ UNCHANGED <<ids, generation, stop, token, cancelled, launched, worker>>
      /\ UNCHANGED <<ready, invalid, socket, owner, failures>>
  BY DEF KeepWorker, control, flags, network
<1>4. /\ connected' \in BOOLEAN /\ cacheReady' \in BOOLEAN
      /\ connected' \/ cacheReady' => connected \/ cacheReady
  BY DEF KeepWorker, flags, IInv, TypeOK
<1>5. Locks(c) /\ LocksWell(c, r)
  BY <1>1, <1>3 DEF KeepWorker, CallKnown, Locks, LocksWell, control, NoCall, CallState
<1>6. r.ws \in {0, caller[c].ws}
  BY <1>1 DEF NoCall, CallState
<1>7. \A s \in closed' :
         s \in closed \/ (s = caller[c].ws /\ s # 0 /\ \E w \in Worker : worker[w].ws = s)
  BY DEF KeepWorker, network
<1> HIDE DEF r
<1> QED
  BY <1>2, <1>3, <1>4, <1>5, <1>6, <1>7, CallQuietKeeps

\* The wait for a worker is over.
LEMMA JoinKeeps ==
    ASSUME IInv, NEW c \in Caller, Join(c), NoteLoss
    PROVE  IInv'
<1> DEFINE r == [caller[c] EXCEPT !.pc = "closing"]
<1>1. CallKnown(c) /\ caller[c] \in CallState
  BY CallFacts
<1>2. r \in CallState /\ caller' = [caller EXCEPT ![c] = r]
  BY <1>1, Known DEF Join, NoCall, CallState, Goto, Return
<1>3. /\ UNCHANGED <<ids, generation, stop, token, cancelled, launched, worker>>
      /\ UNCHANGED <<ready, invalid, socket, owner, failures>>
  BY DEF Join, control, flags, network
<1>4. /\ connected' \in BOOLEAN /\ cacheReady' \in BOOLEAN
      /\ connected' \/ cacheReady' => connected \/ cacheReady
  BY DEF Join, flags, IInv, TypeOK
<1>5. Locks(c) /\ LocksWell(c, r)
  BY <1>1, <1>3 DEF Join, CallKnown, Locks, LocksWell, control, NoCall, CallState
<1>6. r.ws \in {0, caller[c].ws}
  BY <1>1 DEF NoCall, CallState
<1>7. \A s \in closed' :
         s \in closed \/ (s = caller[c].ws /\ s # 0 /\ \E w \in Worker : worker[w].ws = s)
  BY DEF Join, network
<1> HIDE DEF r
<1> QED
  BY <1>2, <1>3, <1>4, <1>5, <1>6, <1>7, CallQuietKeeps

\* A step that leaves no worker behind that the stream or the cache relies on.
LEMMA SwitchKeeps ==
    ASSUME IInv, TypeOK', ~ready', unfed' = {}, UNCHANGED <<socket, owner, closed>>,
           (generation' = generation /\ ids' = ids) \/ generation' = generation + 1,
           launched' \in {launched, launched + 1}, token' <= launched',
           \A w \in Worker : worker'[w] = worker[w]
              \/ (w > launched /\ w = launched' /\ worker'[w] = [NoWorker EXCEPT !.pc = "loop"]),
           \A w \in Worker : worker'[w].pc \in Installed /\ Current(w)' => Current(w),
           FlagsHeld', \A c \in Caller : CallKnown(c)'
    PROVE  IInv'
<1>1. ASSUME NEW w \in Worker PROVE WorkerKnown(w)' /\ worker'[w].ws = worker[w].ws
  <2>1. WorkerKnown(w) /\ worker[w].generation \in Nat /\ generation \in Nat /\ launched \in Nat
        /\ w \in Nat
    BY WorkerFacts, Known
  <2>2. /\ worker'[w].generation = worker[w].generation /\ worker'[w].ids = worker[w].ids
        /\ worker'[w].ws = worker[w].ws /\ worker'[w].acked = worker[w].acked
        /\ worker'[w].pc = worker[w].pc \/ worker'[w].pc = "loop"
    BY <2>1 DEF WorkerKnown, NoWorker
  <2>3. w > launched' => worker'[w] = NoWorker
    BY <2>1 DEF WorkerKnown
  <2>4. /\ worker'[w].generation <= generation'
        /\ worker'[w].generation = generation' =>
              worker'[w].generation = generation /\ ids' = ids
    BY <2>1, <2>2 DEF WorkerKnown
  <2>5. worker'[w].pc \notin Opened => worker[w].ws = 0 /\ worker[w].acked = {}
    BY ZenonT(60), <2>1 DEF WorkerKnown, NoWorker, Opened, Established
  <2>6. worker'[w].pc \in Installed /\ Current(w)' => socket = worker[w].ws /\ owner = w
    BY <2>1, <2>2 DEF WorkerKnown, Installed, Established
  <2> QED
    BY <2>1, <2>2, <2>3, <2>4, <2>5, <2>6 DEF WorkerKnown
<1>2. ClosedHeld'
  BY <1>1 DEF IInv, Parts, ClosedHeld
<1>3. (generation = 0 => ids = {})'
  BY Known DEF IInv, Parts
<1>4. ReadyMeansSubscribed' /\ LossIsNoticed'
  BY DEF ReadyMeansSubscribed, LossIsNoticed
<1> QED
  BY <1>1, <1>2, <1>3, <1>4 DEF IInv, Parts

\* A new generation: whatever was fed is invalid now.
LEMMA GenerationKeeps ==
    ASSUME IInv, NoteLoss, NEW c \in Caller, NEW r \in CallState,
           caller' = [caller EXCEPT ![c] = r], r.ws = socket, LocksWell(c, r),
           generation' = generation + 1, ids' \subseteq Event,
           stop' \in BOOLEAN, cancelled' \subseteq Worker, cacheReady' \in {cacheReady, FALSE},
           invalid' \subseteq Event, ids \subseteq invalid', ~ready', ready' \in BOOLEAN,
           UNCHANGED <<token, launched, lifecycle, connected, socket, owner, worker, network>>
    PROVE  IInv'
<1>1. caller'[c] = r /\ caller' \in [Caller -> CallState]
      /\ \A d \in Caller \ {c} : caller'[d] = caller[d]
  BY Known
<1>2. unfed' = {}
  BY FedByCurrent DEF NoteLoss, IInv, Parts
<1>3. TypeOK'
  <2>1. generation' \in Nat
    BY Known
  <2>2. unfed' \subseteq Event
    BY <1>2
  <2>3. ready' \in BOOLEAN /\ connected' \in BOOLEAN /\ cacheReady' \in BOOLEAN
    BY Zenon DEF IInv, TypeOK
  <2> QED
    BY <1>1, <2>1, <2>2, <2>3 DEF IInv, TypeOK, network
<1>4. ASSUME NEW w \in Worker PROVE worker[w].generation # generation' /\ ~Current(w)'
  <2>1. worker[w].generation <= generation /\ worker[w].generation \in Nat /\ generation \in Nat
    BY WorkerFacts, Known DEF WorkerKnown
  <2> QED
    BY <2>1 DEF Current
<1>5. FlagsHeld'
  BY DEF IInv, Parts, FlagsHeld, Alive
<1>6. ASSUME NEW d \in Caller PROVE CallKnown(d)'
  <2>1. CASE d # c
    BY <1>1, <1>4, <2>1, OtherCallsKept DEF Locks
  <2>2. CASE d = c
    BY <1>1, <1>4, <2>2 DEF CallKnown, LocksWell
  <2> QED
    BY <2>1, <2>2
<1>7. token' <= launched'
  BY DEF IInv, Parts
<1> QED
  BY <1>2, <1>3, <1>4, <1>5, <1>6, <1>7, SwitchKeeps DEF network

\* The subscription changes.
LEMMA SetSubscriptionsKeeps ==
    ASSUME IInv, NEW c \in Caller, SetSubscriptions(c), NoteLoss
    PROVE  IInv'
<1> DEFINE r == [caller[c] EXCEPT !.pc = "hang up", !.ws = socket]
<1>1. CallKnown(c) /\ caller[c] \in CallState /\ caller[c].ids \subseteq Event
  BY CallFacts
<1>2. /\ r \in CallState /\ caller' = [caller EXCEPT ![c] = r] /\ r.ws = socket
      /\ r.pc = "hang up" /\ r.op = caller[c].op
  BY <1>1, Known DEF SetSubscriptions, CallState
<1> HIDE DEF r
<1>3. LocksWell(c, r)
  BY <1>1, <1>2 DEF SetSubscriptions, CallKnown, LocksWell
<1>4. /\ ids' \subseteq Event /\ invalid' \subseteq Event /\ ids \subseteq invalid'
      /\ stop' \in BOOLEAN /\ cancelled' \subseteq Worker
  BY <1>1 DEF SetSubscriptions, IInv, TypeOK
<1> QED
  BY <1>2, <1>3, <1>4, GenerationKeeps DEF SetSubscriptions

\* A stream is closed.
LEMMA CloseKeeps ==
    ASSUME IInv, NEW c \in Caller, NEW on \in Worker \cup {0}, Close(c, on), NoteLoss
    PROVE  IInv'
<1> DEFINE r == [NoCall EXCEPT !.pc = "hang up", !.op = "close", !.on = on, !.ws = socket,
                               !.token = token, !.generation = generation + 1]
<1>1. r \in CallState
  <2>1. generation + 1 \in Nat /\ socket \in Nat /\ token \in Worker \cup {0}
    BY Known
  <2> QED
    BY <2>1 DEF NoCall, CallState
<1>2. r.ws = socket /\ LocksWell(c, r)
  BY DEF LocksWell, NoCall
<1>3. caller' = [caller EXCEPT ![c] = r]
  BY DEF Close
<1>4. /\ ids' \subseteq Event /\ invalid' \subseteq Event /\ ids \subseteq invalid'
      /\ stop' \in BOOLEAN /\ cancelled' \subseteq Worker
  BY Known DEF Close, IInv, TypeOK
<1> HIDE DEF r
<1> QED
  BY <1>1, <1>2, <1>3, <1>4, GenerationKeeps DEF Close

\* A worker is started.
LEMMA LaunchKeeps ==
    ASSUME IInv, NEW c \in Caller, Launch(c), NoteLoss
    PROVE  IInv'
<1> DEFINE n == launched + 1
<1>1. CallKnown(c) /\ caller[c].pc = "launch" /\ lifecycle = {c} /\ launched < MaxWorker
  BY CallFacts DEF Launch, CallKnown
<1>2. n \in Worker /\ n \in Nat /\ n > launched
  BY <1>1, Known DEF Worker
<1>3. /\ worker' = [worker EXCEPT ![n].pc = "loop"] /\ token' = n /\ launched' = n
      /\ stop' = FALSE /\ lifecycle' = {} /\ caller' = [caller EXCEPT ![c] = NoCall]
      /\ UNCHANGED <<ids, generation, cancelled, ready, connected, cacheReady, invalid>>
      /\ UNCHANGED <<socket, owner, closed, failures>>
  BY DEF Launch, Return, flags, network
<1>4. worker[n] = NoWorker
  BY <1>2, WorkerFacts DEF WorkerKnown
<1> HIDE DEF n
<1>5. worker'[n] = [NoWorker EXCEPT !.pc = "loop"] /\ \A w \in Worker \ {n} : worker'[w] = worker[w]
  BY <1>2, <1>3, <1>4, Known
<1>6. worker' \in [Worker -> WorkerState]
  <2>1. [NoWorker EXCEPT !.pc = "loop"] \in WorkerState
    BY DEF NoWorker, WorkerState
  <2> QED
    BY <1>3, <1>5, <2>1, Known
<1>7. ASSUME NEW w \in Worker, Current(w), Alive(w) PROVE FALSE
  BY <1>7, Known DEF Launch, Current
<1>8. ~ready /\ unfed = {} /\ Fed = {}
  <2>1. ~ready
    BY <1>7 DEF IInv, Parts, ReadyMeansSubscribed, Alive
  <2>2. unfed = {}
    BY <1>7 DEF IInv, Parts, LossIsNoticed, Alive
  <2>3. Fed = {}
    BY <1>7 DEF Fed, Alive
  <2> QED
    BY <2>1, <2>2, <2>3
<1>9. unfed' = {}
  BY <1>8 DEF NoteLoss
<1>10. caller' \in [Caller -> CallState] /\ caller'[c] = NoCall
       /\ \A d \in Caller \ {c} : caller'[d] = caller[d]
  <2>1. NoCall \in CallState
    BY DEF NoCall, CallState
  <2> QED
    BY <1>3, <2>1, Known
<1>11. TypeOK'
  <2>1. n \in 0..MaxWorker
    BY <1>2, Known DEF Worker
  <2> QED
    BY <1>2, <1>3, <1>6, <1>9, <1>10, <2>1 DEF IInv, TypeOK
<1>12. ASSUME NEW w \in Worker PROVE ~(worker'[w].pc \in Installed /\ Current(w)')
  <2> SUFFICES ASSUME Current(w)' PROVE worker'[w].pc \notin Installed
    OBVIOUS
  <2>1. w = n
    BY <1>3 DEF Current
  <2> QED
    BY <1>5, <2>1 DEF NoWorker, Installed, Established
<1>13. FlagsHeld'
  <2>1. n # 0 /\ worker'[n].pc = "loop"
    BY <1>2, <1>5, Known DEF NoWorker
  <2> QED
    BY <1>3, <2>1 DEF FlagsHeld, Alive
<1>14. ASSUME NEW d \in Caller PROVE CallKnown(d)'
  <2>1. CASE d # c
    <3>1. Locks(c) /\ caller'[d] = caller[d]
      BY <1>1, <1>3, <1>10, <2>1 DEF Locks
    <3>2. \A w \in Worker : /\ worker'[w].ws = worker[w].ws
                           /\ worker'[w].generation = worker[w].generation
      BY <1>4, <1>5 DEF NoWorker
    <3> QED
      BY <1>1, <1>3, <2>1, <3>1, <3>2, OtherCallsKept
  <2>2. CASE d = c
    <3>1. caller'[d].ws = 0 /\ caller'[d].op = "none" /\ caller'[d].pc = "idle"
      BY <1>10, <2>2 DEF NoCall
    <3> QED
      BY <3>1 DEF CallKnown
  <2> QED
    BY <2>1, <2>2
<1> QED
  BY <1>2, <1>3, <1>5, <1>8, <1>9, <1>11, <1>12, <1>13, <1>14, SwitchKeeps DEF n

\* A call of close returns.
LEMMA FinishCloseKeeps ==
    ASSUME IInv, NEW c \in Caller, FinishClose(c), NoteLoss
    PROVE  IInv'
<1>1. /\ caller' = [caller EXCEPT ![c] = NoCall]
      /\ UNCHANGED <<ids, generation, stop, cancelled, launched, lifecycle, worker>>
      /\ UNCHANGED <<ready, invalid, socket, owner, closed, failures>>
      /\ (connected' = FALSE /\ cacheReady' = FALSE) \/ UNCHANGED <<connected, cacheReady>>
  BY DEF FinishClose, Return, network
<1>2. NoCall \in CallState
  BY DEF NoCall, CallState
<1>3. connected' \in BOOLEAN /\ cacheReady' \in BOOLEAN
  BY <1>1, Zenon DEF IInv, TypeOK
<1>4. CASE token' = token
  <2>1. Locks(c) /\ LocksWell(c, NoCall) /\ NoCall.ws = 0
    BY <1>1 DEF Locks, LocksWell, NoCall
  <2>2. connected' \/ cacheReady' => connected \/ cacheReady
    BY <1>1
  <2> QED
    BY <1>1, <1>2, <1>3, <1>4, <2>1, <2>2, CallQuietKeeps
<1>5. CASE token' # token
  <2>1. token' = 0 /\ token # 0 /\ ~Alive(token)
    BY <1>5 DEF FinishClose
  <2>2. ~connected' /\ ~cacheReady'
    BY <1>1, <2>1 DEF IInv, Parts, FlagsHeld
  <2>3. ASSUME NEW w \in Worker, Current(w) PROVE worker[w].pc \in {"none", "dead"}
    BY <2>1, <2>3 DEF Current, Alive
  <2>4. ~ready /\ unfed = {} /\ Fed = {}
    <3>1. ~ready
      BY <2>3 DEF IInv, Parts, ReadyMeansSubscribed
    <3>2. unfed = {}
      BY <2>3 DEF IInv, Parts, LossIsNoticed
    <3>3. Fed = {}
      BY <2>3 DEF Fed
    <3> QED
      BY <3>1, <3>2, <3>3
  <2>5. unfed' = {}
    BY <2>4 DEF NoteLoss
  <2>6. caller' \in [Caller -> CallState] /\ caller'[c] = NoCall
        /\ \A d \in Caller \ {c} : caller'[d] = caller[d]
    BY <1>1, <1>2, Known
  <2>7. TypeOK'
    BY <1>1, <1>3, <2>1, <2>5, <2>6 DEF IInv, TypeOK
  <2>8. ASSUME NEW w \in Worker PROVE ~Current(w)'
    BY <2>1, Known DEF Current
  <2>9. ASSUME NEW d \in Caller PROVE CallKnown(d)'
    <3>1. CASE d # c
      BY <1>1, <2>6, <3>1, OtherCallsKept DEF Locks
    <3>2. CASE d = c
      <4>1. caller'[d].ws = 0 /\ caller'[d].op = "none" /\ caller'[d].pc = "idle"
        BY <2>6, <3>2 DEF NoCall
      <4> QED
        BY <4>1 DEF CallKnown
    <3> QED
      BY <3>1, <3>2
  <2>10. FlagsHeld' /\ token' <= launched'
    BY <1>1, <2>1, <2>2, Known DEF FlagsHeld
  <2> QED
    BY <1>1, <2>4, <2>5, <2>7, <2>8, <2>9, <2>10, SwitchKeeps
<1> QED
  BY <1>4, <1>5

-----------------------------------------------------------------------------
(* Messages, REST answers, and all steps together.                         *)

\* A step that changes the invalid books only keeps the invariant.
LEMMA BooksKeep ==
    ASSUME IInv, NoteLoss, invalid' \subseteq Event,
           UNCHANGED <<control, flags, socket, owner, worker, caller, network>>
    PROVE  IInv'
<1>1. /\ UNCHANGED <<ids, generation, stop, token, cancelled, launched, lifecycle>>
      /\ UNCHANGED <<ready, connected, cacheReady, closed, failures>>
  BY DEF control, flags, network
<1>2. unfed' \subseteq unfed /\ \A w \in Worker : Current(w)' <=> Current(w)
  BY <1>1, NothingLost
<1>3. Parts'
  BY <1>1, PartsKept DEF IInv, Parts, ClosedHeld
<1>4. TypeOK'
  BY <1>1, <1>2 DEF IInv, TypeOK
<1>5. ASSUME NEW w \in Worker PROVE WorkerKnown(w)'
  BY <1>1, <1>2, WorkerFacts DEF WorkerKnown
<1>6. ASSUME NEW d \in Caller PROVE CallKnown(d)'
  BY <1>1, CallFacts DEF CallKnown
<1> QED
  BY <1>3, <1>4, <1>5, <1>6 DEF IInv

\* The initial state satisfies the invariant.
LEMMA InitEstablishes == Init => IInv
<1> SUFFICES ASSUME Init PROVE IInv
  OBVIOUS
<1>1. NoWorker \in WorkerState /\ NoCall \in CallState
  BY DEF NoWorker, WorkerState, NoCall, CallState
<1>2. 0 \in 0..MaxWorker /\ MaxWorker \in Nat
  BY StreamAssumption
<1>3. TypeOK
  BY <1>1, <1>2 DEF Init, TypeOK
<1>4. ASSUME NEW w \in Worker PROVE WorkerKnown(w)
  <2>1. worker[w] = NoWorker /\ generation = 0 /\ ids = {} /\ closed = {}
    BY DEF Init
  <2>2. /\ NoWorker.generation = 0 /\ NoWorker.ids = {} /\ NoWorker.acked = {}
        /\ NoWorker.ws = 0 /\ NoWorker.pc = "none"
    BY DEF NoWorker
  <2> QED
    BY <2>1, <2>2 DEF WorkerKnown, Installed, Established
<1>5. ASSUME NEW c \in Caller PROVE CallKnown(c)
  BY DEF Init, NoCall, CallKnown
<1>6. Parts
  BY DEF Init, Parts, ClosedHeld, FlagsHeld, ReadyMeansSubscribed, LossIsNoticed
<1> QED
  BY <1>3, <1>4, <1>5, <1>6 DEF IInv

\* Every step of a worker keeps the invariant.
LEMMA ProgressKeeps ==
    ASSUME IInv, NEW w \in Worker, Progress(w), NoteLoss
    PROVE  IInv'
<1>1. CASE Loop(w) \/ Snapshot(w) \/ Connect(w) \/ ConnectFails(w) \/ Install(w)
  BY <1>1, LoopKeeps, SnapshotKeeps, ConnectKeeps, ConnectFailsKeeps, InstallKeeps
<1>2. CASE DropSocket(w) \/ Greet(w) \/ Register(w) \/ SignIn(w)
  BY <1>2, DropSocketKeeps, GreetKeeps, RegisterKeeps, SignInKeeps
<1>3. CASE \E e \in Event : Acknowledge(w, e)
  BY <1>3, AcknowledgeKeeps
<1>4. CASE BecomeReady(w) \/ Leave(w) \/ Raise(w) \/ Finally(w)
  BY <1>4, BecomeReadyKeeps, LeaveKeeps, RaiseKeeps, FinallyKeeps
<1>5. CASE HandleFailure(w) \/ GiveUp(w) \/ BackOff(w) \/ End(w)
  BY <1>5, HandleFailureKeeps, GiveUpKeeps, BackOffKeeps, EndKeeps
<1> QED
  BY <1>1, <1>2, <1>3, <1>4, <1>5 DEF Progress

\* Every step of a call keeps the invariant.
LEMMA ServeKeeps ==
    ASSUME IInv, NEW c \in Caller, Serve(c), NoteLoss
    PROVE  IInv'
<1>1. CASE KeepSubscriptions(c) \/ SetSubscriptions(c) \/ HangUp(c)
  BY <1>1, KeepSubscriptionsKeeps, SetSubscriptionsKeeps, HangUpKeeps
<1>2. CASE KeepWorker(c) \/ Launch(c) \/ Join(c) \/ FinishClose(c)
  BY <1>2, KeepWorkerKeeps, LaunchKeeps, JoinKeeps, FinishCloseKeeps
<1> QED
  BY <1>1, <1>2 DEF Serve

\* Every step keeps the invariant.
LEMMA NextKeeps == IInv /\ [Next]_vars => IInv'
<1> SUFFICES ASSUME IInv, [Next]_vars PROVE IInv'
  OBVIOUS
<1>1. ASSUME NoteLoss, NEW c \in Caller, NEW S \in (SUBSET Event) \ {{}},
             NEW on \in Worker \cup {0},
             Call(c, "start", S, on) \/ Call(c, "set_subscriptions", S, on)
      PROVE  IInv'
  BY <1>1, CallKeeps
<1>2. ASSUME NoteLoss, NEW c \in Caller, NEW on \in Worker \cup {0}, Close(c, on) PROVE IInv'
  BY <1>2, CloseKeeps
<1>3. ASSUME NoteLoss, NEW c \in Caller, Serve(c) PROVE IInv'
  BY <1>3, ServeKeeps
<1>4. ASSUME NoteLoss, NEW w \in Worker, Progress(w) PROVE IInv'
  BY <1>4, ProgressKeeps
<1>5. ASSUME NoteLoss, NEW w \in Worker, NEW e \in Event, Structural(w, e) PROVE IInv'
  <2>1. invalid' \subseteq Event
    BY <1>5 DEF Structural, IInv, TypeOK
  <2> QED
    BY <1>5, <2>1, BooksKeep DEF Structural
<1>6. ASSUME NoteLoss, NEW e \in Event, Refresh(e) PROVE IInv'
  <2>1. invalid' \subseteq Event
    BY <1>6 DEF Refresh, IInv, TypeOK
  <2> QED
    BY <1>6, <2>1, BooksKeep DEF Refresh
<1>7. CASE UNCHANGED vars
  <2>1. /\ UNCHANGED <<ids, generation, stop, token, cancelled, launched, lifecycle>>
        /\ UNCHANGED <<ready, connected, cacheReady, invalid, socket, owner, worker, caller>>
        /\ UNCHANGED <<closed, failures, unfed>>
    BY <1>7 DEF vars, control, flags, network
  <2>2. \A w \in Worker : Current(w)' <=> Current(w)
    BY <2>1 DEF Current
  <2>3. TypeOK'
    BY <2>1 DEF IInv, TypeOK
  <2>4. ASSUME NEW w \in Worker PROVE WorkerKnown(w)'
    BY <2>1, <2>2, WorkerFacts DEF WorkerKnown
  <2>5. ASSUME NEW c \in Caller PROVE CallKnown(c)'
    BY <2>1, CallFacts DEF CallKnown
  <2>6. Parts'
    BY <2>1, <2>2 DEF IInv, Parts, ClosedHeld, FlagsHeld, Alive, ReadyMeansSubscribed, LossIsNoticed
  <2> QED
    BY <2>3, <2>4, <2>5, <2>6 DEF IInv
<1> QED
  BY <1>1, <1>2, <1>3, <1>4, <1>5, <1>6, <1>7 DEF Next

\* The invariant holds in every reachable state.
THEOREM Invariance == Spec => []IInv
BY InitEstablishes, NextKeeps, PTL DEF Spec

-----------------------------------------------------------------------------
(* The properties.                                                         *)

\* Every variable stays in its range: a worker is launched only while there is room,
\* whatever calls come between the two blocks of start.
THEOREM StreamTypeCorrect == Spec => []TypeOK
<1>1. IInv => TypeOK
  BY DEF IInv
<1> QED
  BY <1>1, Invariance, PTL

\* A stream that says it is ready is subscribed to what was asked for last
\* (_connect_once checks its snapshot against the generation).
THEOREM ReadyCorrect == Spec => []ReadyMeansSubscribed
<1>1. IInv => ReadyMeansSubscribed
  BY DEF IInv, Parts
<1> QED
  BY <1>1, Invariance, PTL

\* Books whose feed was lost are invalid before their worker goes on, whoever lost it
\* (_run, set_subscriptions, close).
THEOREM LossCorrect == Spec => []LossIsNoticed
<1>1. IInv => LossIsNoticed
  BY DEF IInv, Parts
<1> QED
  BY <1>1, Invariance, PTL

\* No call hangs up on the connection of the current subscription, although it closes
\* the socket it found after it gave back the lock.
THEOREM HangUpCorrect == Spec => []CurrentSocketStaysOpen
<1>1. IInv => CurrentSocketStaysOpen
  BY WorkerFacts DEF CurrentSocketStaysOpen, WorkerKnown, Current
<1> QED
  BY <1>1, Invariance, PTL

\* When all threads are gone, no flag says that the stream is there: the last one to
\* go took them down (_run, close).
THEOREM StoppedCorrect == Spec => []StoppedIsDisconnected
<1>1. IInv => StoppedIsDisconnected
  <2> SUFFICES ASSUME IInv, \A w \in Worker : ~Alive(w)
               PROVE  ~ready /\ ~connected /\ ~cacheReady
    BY DEF StoppedIsDisconnected
  <2>1. ~ready
    BY DEF IInv, Parts, ReadyMeansSubscribed, Alive
  <2>2. ~connected /\ ~cacheReady
    BY Known DEF IInv, Parts, FlagsHeld
  <2> QED
    BY <2>1, <2>2
<1> QED
  BY <1>1, Invariance, PTL

\* A worker that was replaced changes nothing that its successor relies on.
THEOREM ReplacedCorrect == Spec => ReplacedIsHarmless
<1> DEFINE Harmless == \A w \in Worker : worker'[w] # worker[w] /\ token \notin {0, w} =>
               UNCHANGED <<ready, socket, owner, connected, cacheReady, invalid>>
<1>1. ASSUME IInv, [Next]_vars PROVE [Harmless]_vars
  <2> SUFFICES ASSUME NEW w \in Worker, worker'[w] # worker[w], token \notin {0, w}
               PROVE  UNCHANGED <<ready, socket, owner, connected, cacheReady, invalid>>
    BY SMTT(30)
  <2>1. PICK v \in Worker : Progress(v) \/ \E c \in Caller : Launch(c)
    BY <1>1 DEF Next, Serve, vars, Call, Close, KeepSubscriptions, SetSubscriptions, HangUp,
       KeepWorker, Join, FinishClose, Structural, Refresh
  <2>2. CASE \E c \in Caller : Launch(c)
    BY <2>2 DEF Launch, flags
  <2>3. CASE Progress(v)
    <3>1. worker \in [Worker -> WorkerState]
      BY <1>1, Known
    <3>2. v = w
      BY <2>3, <3>1 DEF Progress, Loop, Snapshot, Connect, ConnectFails, Install, DropSocket,
         Greet, Register, SignIn, Acknowledge, BecomeReady, Leave, Raise, Finally,
         HandleFailure, GiveUp, BackOff, End, Become, Forget
    <3> QED
      BY <2>3, <3>2 DEF Progress, Loop, Snapshot, Connect, ConnectFails, Install, DropSocket,
         Greet, Register, SignIn, Acknowledge, BecomeReady, Leave, Raise, Finally,
         HandleFailure, GiveUp, BackOff, End, Current, flags
  <2> QED
    BY <2>1, <2>2, <2>3
<1>2. IInv /\ [Next]_vars => [Harmless]_vars
  BY <1>1
<1>3. []IInv /\ [][Next]_vars => [][Harmless]_vars
  BY <1>2, PTL
<1> QED
  BY <1>3, Invariance, PTL DEF Spec, ReplacedIsHarmless
=============================================================================
