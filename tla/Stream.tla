-------------------------------- MODULE Stream --------------------------------
(***************************************************************************)
(* The life of a ProphetXWebSocket (src/src/fastprophetx/websocket.py):    *)
(* the threads that start it, change its subscriptions and close it, and   *)
(* the worker threads that connect, register, subscribe and receive.       *)
(* Every block of code under the stream's lock is one action, and so is    *)
(* every wait on the network; the blocks of one call are separate steps.   *)
(* A subscription is the set of events it names, with one channel each.    *)
(*                                                                         *)
(* The cache is seen through what the stream does to it: its connection    *)
(* flags and the events whose books it calls invalid.  What it does with   *)
(* an update is in MarketCache.                                            *)
(*                                                                         *)
(* The wait before a reconnection takes any time: its length, and with it  *)
(* `attempt` and `_ready_count`, are left out.                             *)
(***************************************************************************)
EXTENDS Naturals, FiniteSets

CONSTANTS
    Event,         \* event ids
    Caller,        \* calls of start, set_subscriptions and close in progress
    MaxWorker,     \* bound: worker threads started
    MaxGeneration, \* bound: changes of the subscription, closes included
    MaxFailure     \* bound: failures of the network

ASSUME StreamAssumption ==
    /\ IsFiniteSet(Event) /\ Event # {} /\ IsFiniteSet(Caller)
    /\ MaxWorker \in Nat /\ MaxGeneration \in Nat /\ MaxFailure \in Nat

Worker == 1..MaxWorker

VARIABLES
    ids,        \* _event_ids and _event_subtype_pairs
    generation, \* _generation
    ready,      \* _ready
    stop,       \* _stop
    token,      \* _worker_token and _thread, 0 for None
    cancelled,  \* workers whose cancel event is set
    launched,   \* _next_worker_token
    lifecycle,  \* holders of _lifecycle_lock
    socket,     \* _socket, 0 for None
    owner,      \* _socket_owner_token, 0 for None
    connected,  \* the cache's _connected
    cacheReady, \* the cache's _ready
    invalid,    \* the cache's _invalid_event_ids
    worker,     \* the worker threads
    caller,     \* the calls
    closed,     \* sockets that a caller closed under a worker
    failures,   \* failures of the network so far
    unfed       \* history: valid books that may lack updates of a lost feed

control == <<ids, generation, stop, token, cancelled, launched, lifecycle>>
flags == <<ready, connected, cacheReady>>
network == <<closed, failures>>
vars == <<control, flags, invalid, socket, owner, worker, caller, network, unfed>>

NoWorker == [pc |-> "none", ids |-> {}, generation |-> 0, ws |-> 0, acked |-> {}]
NoCall == [pc |-> "idle", op |-> "none", ids |-> {}, on |-> 0, ws |-> 0,
           token |-> 0, generation |-> 0]

Init ==
    /\ ids = {} /\ generation = 0 /\ ready = FALSE /\ stop = FALSE
    /\ token = 0 /\ cancelled = {} /\ launched = 0 /\ lifecycle = {}
    /\ socket = 0 /\ owner = 0
    /\ connected = FALSE /\ cacheReady = FALSE
    /\ invalid = {}
    /\ worker = [w \in Worker |-> NoWorker]
    /\ caller = [c \in Caller |-> NoCall]
    /\ closed = {} /\ failures = 0 /\ unfed = {}

Alive(w) == worker[w].pc \notin {"none", "dead"}

\* _worker_is_current
Current(w) ==
    /\ w \notin cancelled
    /\ token = w
    /\ generation = worker[w].generation

-----------------------------------------------------------------------------
(* Calls.  A call made from a callback runs on the worker's thread, which  *)
(* does nothing else until the call returns.                               *)

InCallback(w) == \E c \in Caller : caller[c].pc # "idle" /\ caller[c].on = w
MayCall(on) ==
    on \in {0} \cup {w \in Worker : worker[w].pc \in {"subscribe", "serve"} /\ ~InCallback(w)}
Goto(c, pc) == caller' = [caller EXCEPT ![c].pc = pc]
Return(c) == caller' = [caller EXCEPT ![c] = NoCall]

\* Bound: calls that change nothing may always begin, others while there is room.
Pending == {c \in Caller : caller[c].pc = "set"}
Room == generation + Cardinality(Pending) < MaxGeneration

\* Mutant: start does not take the lifecycle lock.
CallUnlocked(c, op, S, on) ==
    /\ caller[c].pc = "idle" /\ MayCall(on)
    /\ Room \/ (S = ids /\ Pending = {})
    /\ op = "start" => launched < MaxWorker
    /\ caller' = [caller EXCEPT ![c] =
           [NoCall EXCEPT !.pc = "set", !.op = op, !.ids = S, !.on = on]]
    /\ UNCHANGED <<control, flags, invalid, socket, owner, worker, network>>

\* start takes the lifecycle lock; set_subscriptions, called alone, does not.
Call(c, op, S, on) ==
    /\ caller[c].pc = "idle" /\ MayCall(on)
    /\ Room \/ (S = ids /\ Pending = {})
    /\ op = "start" => lifecycle = {} /\ launched < MaxWorker
    /\ lifecycle' = IF op = "start" THEN {c} ELSE lifecycle
    /\ caller' = [caller EXCEPT ![c] =
           [NoCall EXCEPT !.pc = "set", !.op = op, !.ids = S, !.on = on]]
    /\ UNCHANGED <<ids, generation, stop, token, cancelled, launched, flags,
                   invalid, socket, owner, worker, network>>

\* set_subscriptions with what is subscribed already.
KeepSubscriptions(c) ==
    /\ caller[c].pc = "set" /\ caller[c].ids = ids
    /\ IF caller[c].op = "start" THEN Goto(c, "launch") ELSE Return(c)
    /\ UNCHANGED <<control, flags, invalid, socket, owner, worker, network>>

\* Mutant: only the new subscription's books are invalidated.
SetNewOnly(c) ==
    /\ caller[c].pc = "set" /\ caller[c].ids # ids
    /\ ids' = caller[c].ids
    /\ generation' = generation + 1
    /\ ready' = FALSE
    /\ cacheReady' = FALSE
    /\ invalid' = invalid \cup caller[c].ids
    /\ caller' = [caller EXCEPT ![c].pc = "hang up", ![c].ws = socket]
    /\ UNCHANGED <<stop, token, cancelled, launched, lifecycle, connected,
                   socket, owner, worker, network>>

SetSubscriptions(c) ==
    /\ caller[c].pc = "set" /\ caller[c].ids # ids
    /\ ids' = caller[c].ids
    /\ generation' = generation + 1
    /\ ready' = FALSE
    /\ cacheReady' = FALSE
    /\ invalid' = invalid \cup ids \cup caller[c].ids
    /\ caller' = [caller EXCEPT ![c].pc = "hang up", ![c].ws = socket]
    /\ UNCHANGED <<stop, token, cancelled, launched, lifecycle, connected,
                   socket, owner, worker, network>>

\* Mutant: what is closed is the socket of the moment.
HangUpOnAnyone(c) ==
    /\ caller[c].pc = "hang up"
    /\ closed' = closed \cup {worker[w].ws : w \in {v \in Worker :
                     socket # 0 /\ worker[v].ws = socket}}
    /\ CASE caller[c].op = "start" -> Goto(c, "launch")
         [] caller[c].op = "close" -> Goto(c, "join")
         [] OTHER -> Return(c)
    /\ UNCHANGED <<control, flags, invalid, socket, owner, worker, failures>>

\* The socket is closed outside the lock, if a worker still has it.
HangUp(c) ==
    /\ caller[c].pc = "hang up"
    /\ closed' = closed \cup {worker[w].ws : w \in {v \in Worker :
                     caller[c].ws # 0 /\ worker[v].ws = caller[c].ws}}
    /\ CASE caller[c].op = "start" -> Goto(c, "launch")
         [] caller[c].op = "close" -> Goto(c, "join")
         [] OTHER -> Return(c)
    /\ UNCHANGED <<control, flags, invalid, socket, owner, worker, failures>>

\* start finds a worker that is alive and not cancelled ...
KeepWorker(c) ==
    /\ caller[c].pc = "launch"
    /\ token # 0 /\ Alive(token) /\ token \notin cancelled
    /\ lifecycle' = {}
    /\ Return(c)
    /\ UNCHANGED <<ids, generation, stop, token, cancelled, launched, flags,
                   invalid, socket, owner, worker, network>>

\* ... or starts one.
Launch(c) ==
    /\ caller[c].pc = "launch"
    /\ ~(token # 0 /\ Alive(token) /\ token \notin cancelled)
    /\ stop' = FALSE
    /\ launched' = launched + 1
    /\ token' = launched + 1
    /\ worker' = [worker EXCEPT ![launched + 1].pc = "loop"]
    /\ lifecycle' = {}
    /\ Return(c)
    /\ UNCHANGED <<ids, generation, cancelled, flags, invalid, socket, owner, network>>

\* close needs the lifecycle lock for its first block only.
Close(c, on) ==
    /\ caller[c].pc = "idle" /\ MayCall(on) /\ Room
    /\ lifecycle = {}
    /\ stop' = TRUE
    /\ generation' = generation + 1
    /\ ready' = FALSE
    /\ cancelled' = IF token = 0 THEN cancelled ELSE cancelled \cup {token}
    /\ invalid' = invalid \cup ids
    /\ caller' = [caller EXCEPT ![c] =
           [NoCall EXCEPT !.pc = "hang up", !.op = "close", !.on = on, !.ws = socket,
                          !.token = token, !.generation = generation + 1]]
    /\ UNCHANGED <<ids, token, launched, lifecycle, connected, cacheReady,
                   socket, owner, worker, network>>

\* The thread ends or the wait for it times out; it never waits for itself.
Join(c) ==
    /\ caller[c].pc = "join"
    /\ Goto(c, "closing")
    /\ UNCHANGED <<control, flags, invalid, socket, owner, worker, network>>

FinishClose(c) ==
    LET mine == caller[c].token
    IN  /\ caller[c].pc = "closing"
        /\ token' = IF token = mine /\ mine # 0 /\ ~Alive(mine) THEN 0 ELSE token
        /\ IF generation = caller[c].generation /\ stop
           THEN connected' = FALSE /\ cacheReady' = FALSE
           ELSE UNCHANGED <<connected, cacheReady>>
        /\ Return(c)
        /\ UNCHANGED <<ids, generation, stop, cancelled, launched, lifecycle,
                       ready, invalid, socket, owner, worker, network>>

-----------------------------------------------------------------------------
(* _run and _connect_once.                                                 *)

At(w, pc) == worker[w].pc = pc /\ ~InCallback(w)
Become(w, pc) == worker' = [worker EXCEPT ![w].pc = pc]
\* The connection is over, and what the worker knew of it.
Forget(w, pc) == worker' = [worker EXCEPT ![w] = [NoWorker EXCEPT !.pc = pc]]

\* The network fails as often as the bound allows, and always on a socket that
\* a caller closed.
Breaks(w) ==
    \/ worker[w].ws \in closed /\ failures' = failures
    \/ failures < MaxFailure /\ failures' = failures + 1

\* Mutant: the worker looks at the stream's stop event, which start clears.
LoopUntilStop(w) ==
    /\ At(w, "loop")
    /\ Become(w, IF stop THEN "end" ELSE "snapshot")
    /\ UNCHANGED <<control, flags, invalid, socket, owner, caller, network>>

Loop(w) ==
    /\ At(w, "loop")
    /\ Become(w, IF w \in cancelled THEN "end" ELSE "snapshot")
    /\ UNCHANGED <<control, flags, invalid, socket, owner, caller, network>>

Snapshot(w) ==
    /\ At(w, "snapshot")
    /\ worker' = [worker EXCEPT ![w].pc = "connect", ![w].ids = ids,
                                ![w].generation = generation]
    /\ UNCHANGED <<control, flags, invalid, socket, owner, caller, network>>

\* Sockets that somebody holds; a new one is none of them.
Held == {0, socket} \cup closed \cup {worker[w].ws : w \in Worker}
                   \cup {caller[c].ws : c \in Caller}
NewSocket == CHOOSE s \in 1..Cardinality(Held) : s \notin Held

\* The connection config is fetched and the connector opens a socket.
Connect(w) ==
    /\ At(w, "connect")
    /\ worker' = [worker EXCEPT ![w].pc = "install", ![w].ws = NewSocket]
    /\ UNCHANGED <<control, flags, invalid, socket, owner, caller, network>>

ConnectFails(w) ==
    /\ At(w, "connect")
    /\ Breaks(w)
    /\ Become(w, "handler")
    /\ UNCHANGED <<control, flags, invalid, socket, owner, caller, closed>>

Install(w) ==
    /\ At(w, "install") /\ Current(w)
    /\ socket' = worker[w].ws
    /\ owner' = w
    /\ connected' = TRUE /\ cacheReady' = FALSE
    /\ Become(w, "greet")
    /\ UNCHANGED <<control, ready, invalid, caller, network>>

\* Mutant: a worker that was superseded while it connected ends.
DropSocketAndEnd(w) ==
    /\ At(w, "install") /\ ~Current(w)
    /\ Forget(w, "end")
    /\ closed' = closed \ {worker[w].ws}
    /\ UNCHANGED <<control, flags, invalid, socket, owner, caller, failures>>

DropSocket(w) ==
    /\ At(w, "install") /\ ~Current(w)
    /\ Forget(w, "loop")
    /\ closed' = closed \ {worker[w].ws}
    /\ UNCHANGED <<control, flags, invalid, socket, owner, caller, failures>>

-----------------------------------------------------------------------------
(* _establish.                                                             *)

\* States in which the worker waits for the server.
Established == {"greet", "register", "sign in", "subscribe", "serve"}

\* connection_established; then register_websocket, then perhaps a sign-in.
Greet(w) ==
    /\ At(w, "greet") /\ Current(w)
    /\ Become(w, "register")
    /\ UNCHANGED <<control, flags, invalid, socket, owner, caller, network>>

Register(w) ==
    /\ At(w, "register")
    /\ \E next \in {"sign in", "subscribe"} : Become(w, next)
    /\ UNCHANGED <<control, flags, invalid, socket, owner, caller, network>>

SignIn(w) ==
    /\ At(w, "sign in") /\ Current(w)
    /\ Become(w, "subscribe")
    /\ UNCHANGED <<control, flags, invalid, socket, owner, caller, network>>

\* subscription_succeeded for one channel.
Acknowledge(w, e) ==
    /\ At(w, "subscribe") /\ Current(w)
    /\ e \in worker[w].ids \ worker[w].acked
    /\ worker' = [worker EXCEPT ![w].acked = @ \cup {e}]
    /\ UNCHANGED <<control, flags, invalid, socket, owner, caller, network>>

\* Mutant: the last acknowledgement is not checked against the generation.
BecomeReadyAnyway(w) ==
    /\ At(w, "subscribe") /\ worker[w].acked = worker[w].ids
    /\ connected' = TRUE /\ cacheReady' = TRUE
    /\ ready' = TRUE
    /\ Become(w, "serve")
    /\ UNCHANGED <<control, invalid, socket, owner, caller, network>>

BecomeReady(w) ==
    /\ At(w, "subscribe") /\ worker[w].acked = worker[w].ids
    /\ Current(w)
    /\ connected' = TRUE /\ cacheReady' = TRUE
    /\ ready' = TRUE
    /\ Become(w, "serve")
    /\ UNCHANGED <<control, invalid, socket, owner, caller, network>>

\* A structural message invalidates the books of its event.
Structural(w, e) ==
    /\ worker[w].pc \in {"subscribe", "serve"} /\ ~InCallback(w) /\ Current(w)
    /\ e \in worker[w].ids
    /\ invalid' = invalid \cup {e}
    /\ UNCHANGED <<control, flags, socket, owner, worker, caller, network>>

\* A frame or a receive timeout shows that the worker is no longer current.
\* The HTTP request is not interrupted.
Leave(w) ==
    /\ worker[w].pc \in Established \ {"register"} /\ ~InCallback(w)
    /\ ~Current(w)
    /\ Become(w, "leave")
    /\ UNCHANGED <<control, flags, invalid, socket, owner, caller, network>>

\* A receive raises, a deadline passes, a frame or the registration is wrong.
Raise(w) ==
    /\ worker[w].pc \in Established /\ ~InCallback(w)
    /\ Breaks(w)
    /\ Become(w, "raise")
    /\ UNCHANGED <<control, flags, invalid, socket, owner, caller, closed>>

\* Mutant: the worker that was replaced lets go of the new one's socket.
LetGo(w) ==
    /\ At(w, "leave") \/ At(w, "raise")
    /\ ready' = FALSE /\ socket' = 0 /\ owner' = 0
    /\ IF At(w, "leave") THEN Forget(w, "loop")
       ELSE worker' = [worker EXCEPT ![w].pc = "handler", ![w].ws = 0, ![w].acked = {}]
    /\ closed' = closed \ {worker[w].ws}
    /\ UNCHANGED <<control, connected, cacheReady, invalid, caller, failures>>

\* The finally clause, and the end of the socket's context.
Finally(w) ==
    /\ At(w, "leave") \/ At(w, "raise")
    /\ IF token = w /\ owner = w /\ socket = worker[w].ws
       THEN ready' = FALSE /\ socket' = 0 /\ owner' = 0
       ELSE UNCHANGED <<ready, socket, owner>>
    /\ IF At(w, "leave") THEN Forget(w, "loop")
       ELSE worker' = [worker EXCEPT ![w].pc = "handler", ![w].ws = 0, ![w].acked = {}]
    /\ closed' = closed \ {worker[w].ws}
    /\ UNCHANGED <<control, connected, cacheReady, invalid, caller, failures>>

\* Mutant: a failed connection matters only if the stream is still ready.
HandleFailureIfReady(w) ==
    /\ At(w, "handler")
    /\ w \notin cancelled /\ token = w
    /\ ready' = FALSE
    /\ invalid' = IF ready /\ generation = worker[w].generation
                  THEN invalid \cup worker[w].ids ELSE invalid
    /\ connected' = FALSE /\ cacheReady' = FALSE
    /\ Become(w, "back off")
    /\ UNCHANGED <<control, socket, owner, caller, network>>

\* The exception handler of _run.
HandleFailure(w) ==
    /\ At(w, "handler")
    /\ w \notin cancelled /\ token = w
    /\ ready' = FALSE
    /\ invalid' = IF generation = worker[w].generation
                  THEN invalid \cup worker[w].ids ELSE invalid
    /\ connected' = FALSE /\ cacheReady' = FALSE
    /\ Become(w, "back off")
    /\ UNCHANGED <<control, socket, owner, caller, network>>

GiveUp(w) ==
    /\ At(w, "handler")
    /\ w \in cancelled \/ token # w
    /\ Forget(w, "end")
    /\ UNCHANGED <<control, flags, invalid, socket, owner, caller, network>>

BackOff(w) ==
    /\ At(w, "back off")
    /\ Forget(w, "loop")
    /\ UNCHANGED <<control, flags, invalid, socket, owner, caller, network>>

\* Mutant: the flags are left to close.
EndQuietly(w) ==
    /\ At(w, "end")
    /\ Become(w, "dead")
    /\ UNCHANGED <<control, flags, invalid, socket, owner, caller, network>>

End(w) ==
    /\ At(w, "end")
    /\ IF token = w THEN connected' = FALSE /\ cacheReady' = FALSE
       ELSE UNCHANGED <<connected, cacheReady>>
    /\ Become(w, "dead")
    /\ UNCHANGED <<control, ready, invalid, socket, owner, caller, network>>

-----------------------------------------------------------------------------
\* A REST answer makes the books of an event valid.
Refresh(e) ==
    /\ e \in invalid
    /\ invalid' = invalid \ {e}
    /\ UNCHANGED <<control, flags, socket, owner, worker, caller, network>>

Serve(c) == KeepSubscriptions(c) \/ SetSubscriptions(c) \/ HangUp(c)
            \/ KeepWorker(c) \/ Launch(c) \/ Join(c) \/ FinishClose(c)

Progress(w) ==
    \/ Loop(w) \/ Snapshot(w) \/ Connect(w) \/ ConnectFails(w)
    \/ Install(w) \/ DropSocket(w) \/ Greet(w) \/ Register(w) \/ SignIn(w)
    \/ \E e \in Event : Acknowledge(w, e)
    \/ BecomeReady(w) \/ Leave(w) \/ Raise(w) \/ Finally(w)
    \/ HandleFailure(w) \/ GiveUp(w) \/ BackOff(w) \/ End(w)

\* The events whose updates reach the cache.
Fed == {e \in Event : \E w \in Worker :
            Current(w) /\ worker[w].pc \in {"subscribe", "serve"} /\ e \in worker[w].acked}

NoteLoss == unfed' = (unfed \cup (Fed \ Fed')) \ invalid'

Next ==
    /\ \/ \E c \in Caller :
             \/ \E S \in (SUBSET Event) \ {{}}, on \in Worker \cup {0} :
                    \/ Call(c, "start", S, on)
                    \/ Call(c, "set_subscriptions", S, on)
             \/ \E on \in Worker \cup {0} : Close(c, on)
             \/ Serve(c)
       \/ \E w \in Worker : Progress(w) \/ \E e \in Event : Structural(w, e)
       \/ \E e \in Event : Refresh(e)
    /\ NoteLoss

Spec == Init /\ [][Next]_vars

\* Every call and every worker goes on.  Strong fairness for the workers: a
\* callback that calls the stream belongs to one frame, and the worker
\* receives the next frames in order when it returns.
FairSpec ==
    /\ Spec
    /\ \A c \in Caller : WF_vars(Serve(c) /\ NoteLoss)
    /\ \A w \in Worker : SF_vars(Progress(w) /\ NoteLoss)

-----------------------------------------------------------------------------
WorkerState ==
    [pc : Established \cup {"none", "loop", "snapshot", "connect", "install",
                            "leave", "raise", "handler", "back off", "end", "dead"},
     ids : SUBSET Event, generation : Nat, ws : Nat, acked : SUBSET Event]

CallState ==
    [pc : {"idle", "set", "hang up", "launch", "join", "closing"},
     op : {"none", "start", "set_subscriptions", "close"}, ids : SUBSET Event,
     on : Worker \cup {0}, ws : Nat, token : Worker \cup {0}, generation : Nat]

\* Every variable stays in its range.
TypeOK ==
    /\ ids \subseteq Event /\ generation \in Nat /\ stop \in BOOLEAN
    /\ ready \in BOOLEAN /\ connected \in BOOLEAN /\ cacheReady \in BOOLEAN
    /\ token \in Worker \cup {0} /\ cancelled \subseteq Worker
    /\ launched \in 0..MaxWorker /\ lifecycle \subseteq Caller
    /\ socket \in Nat /\ owner \in Worker \cup {0}
    /\ closed \subseteq Nat /\ failures \in Nat
    /\ invalid \subseteq Event /\ unfed \subseteq Event
    /\ worker \in [Worker -> WorkerState]
    /\ caller \in [Caller -> CallState]

\* When the stream says it is ready, the server has acknowledged a channel
\* for every event subscribed now, on the socket the current worker holds:
\* an acknowledgement of an earlier subscription never counts
\* (websocket.py:478-492).
ReadyMeansSubscribed ==
    ready => \E w \in Worker :
        /\ Current(w) /\ worker[w].pc \in {"serve", "raise"}
        /\ worker[w].acked = ids
        /\ socket = worker[w].ws

\* Books that were valid when their feed was lost are invalidated before the
\* worker does anything else, whoever noticed the loss and whatever calls
\* came between: a failed worker invalidates nothing of a later generation
\* (websocket.py:273-284) because the call that began it did.
LossIsNoticed ==
    unfed # {} => \E w \in Worker :
        Current(w) /\ worker[w].pc \in {"raise", "handler"}

\* set_subscriptions and close hang up on the connection they found, and
\* never on the one that replaces it (websocket.py:202-205, 231-233).
CurrentSocketStaysOpen ==
    \A w \in Worker : Current(w) => worker[w].ws \notin closed

\* Once every worker has ended and every call has returned, the cache no
\* longer claims to be connected or ready, although a close that was
\* overtaken leaves the flags to others (websocket.py:242-246, 297-299).
StoppedIsDisconnected ==
    (\A w \in Worker : ~Alive(w)) /\ (\A c \in Caller : caller[c].pc = "idle")
        => ~ready /\ ~connected /\ ~cacheReady

\* A worker that was replaced leaves the stream alone while it winds down.
ReplacedIsHarmless ==
    [][\A w \in Worker : worker'[w] # worker[w] /\ token \notin {0, w} =>
          UNCHANGED <<ready, socket, owner, connected, cacheReady, invalid>>]_vars

\* A stream that was started becomes ready, once the network fails no more,
\* unless it is closed: no sequence of calls leaves it without a worker that
\* connects for the current subscription.
Running == token # 0 /\ token \notin cancelled
EventuallyReady == Running ~> ready \/ ~Running

\* A worker that was told to stop ends.
CancelledEnds == \A w \in Worker : w \in cancelled ~> ~Alive(w)
=============================================================================
