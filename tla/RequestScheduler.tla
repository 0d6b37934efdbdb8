-------------------------- MODULE RequestScheduler --------------------------
(***************************************************************************)
(* RequestScheduler (rate_limit.py): every request of a client passes      *)
(* acquire, which grants it at once or makes its thread sleep and try      *)
(* again; an answer 429 calls cooldown.  Threads share the scheduler: the  *)
(* lock covers one try, never the sleep between two tries.                 *)
(***************************************************************************)
EXTENDS Integers, Sequences, FiniteSets

CONSTANTS
    Caller,      \* threads that make requests
    Path,        \* request paths
    MarketPath,  \* those whose queries are spaced per path
    Interval,    \* 1 / requests_per_second, in ticks
    Spacing,     \* market_path_spacing, in ticks
    Delay,       \* delays that an answer 429 may ask for
    MaxTime,     \* bound: the last tick
    MaxCooldown  \* bound: cooldowns

ASSUME PolicyAssumption ==
    /\ MarketPath \subseteq Path
    /\ Interval \in Nat \ {0} /\ Spacing \in Nat
    /\ Delay \subseteq Int

VARIABLES
    now,           \* the monotonic clock
    last_request,  \* time of the last grant
    last_market_path,       \* per path: time of the last grant to a market query
    cooldown_until,         \* per path
    global_cooldown_until,
    caller,        \* what each thread does
    granted,       \* history: the grants, in the order they were made
    promised       \* history: the cooldowns, each with the number of grants before it

lasts == <<last_request, last_market_path>>
cooldowns == <<cooldown_until, global_cooldown_until>>
vars == <<now, lasts, cooldowns, caller, granted, promised>>

Larger(a, b) == IF a >= b THEN a ELSE b

\* Minus infinity: far enough back to hold nothing up.
Never == -(Interval + Spacing)

Idle == [pc |-> "idle"]
Trying(p) == [pc |-> "try", path |-> p]
Sleeping(p, t) == [pc |-> "sleep", path |-> p, wake |-> t]

Init ==
    /\ now = 0
    /\ last_request = Never /\ last_market_path = [p \in Path |-> Never]
    /\ cooldown_until = [p \in Path |-> 0] /\ global_cooldown_until = 0
    /\ caller = [c \in Caller |-> Idle]
    /\ granted = <<>> /\ promised = {}

\* Mutant: the global cooldown is taken for one of the path.
ReadyWithoutGlobal(p) ==
    LET general == Larger(last_request + Interval, cooldown_until[p])
    IN IF p \in MarketPath THEN Larger(general, last_market_path[p] + Spacing) ELSE general

\* The first moment at which a request for p may be granted.
Ready(p) ==
    LET general == Larger(last_request + Interval,
                          Larger(global_cooldown_until, cooldown_until[p]))
    IN IF p \in MarketPath THEN Larger(general, last_market_path[p] + Spacing) ELSE general

\* A thread calls acquire.
Ask(c, p) ==
    /\ caller[c] = Idle
    /\ caller' = [caller EXCEPT ![c] = Trying(p)]
    /\ UNCHANGED <<now, lasts, cooldowns, granted, promised>>

\* One try finds the moment come: the request is recorded and goes out.
Grant(c) ==
    /\ caller[c].pc = "try"
    /\ LET p == caller[c].path IN
       /\ Ready(p) <= now
       /\ last_market_path' = IF p \in MarketPath
                              THEN [last_market_path EXCEPT ![p] = now] ELSE last_market_path
       /\ granted' = Append(granted, [path |-> p, at |-> now])
    /\ last_request' = now
    /\ caller' = [caller EXCEPT ![c] = Idle]
    /\ UNCHANGED <<now, cooldowns, promised>>

\* One try finds it too early: the thread will sleep until it is time.
Postpone(c) ==
    /\ caller[c].pc = "try"
    /\ Ready(caller[c].path) > now
    /\ caller' = [caller EXCEPT ![c] = Sleeping(caller[c].path, Ready(caller[c].path))]
    /\ UNCHANGED <<now, lasts, cooldowns, granted, promised>>

\* Mutant: a thread that has slept as long as it was told goes out.
WakeAndGo(c) ==
    /\ caller[c].pc = "sleep" /\ caller[c].wake <= now
    /\ last_request' = now
    /\ granted' = Append(granted, [path |-> caller[c].path, at |-> now])
    /\ caller' = [caller EXCEPT ![c] = Idle]
    /\ UNCHANGED <<now, last_market_path, cooldowns, promised>>

\* The sleep is over: try again, others may have been granted meanwhile.
Wake(c) ==
    /\ caller[c].pc = "sleep" /\ caller[c].wake <= now
    /\ caller' = [caller EXCEPT ![c] = Trying(caller[c].path)]
    /\ UNCHANGED <<now, lasts, cooldowns, granted, promised>>

\* Mutant: a date that is past counts backwards.
CooldownUnclamped(p, s, all) ==
    /\ Cardinality(promised) < MaxCooldown
    /\ IF all
       THEN /\ global_cooldown_until' = Larger(global_cooldown_until, now + s)
            /\ UNCHANGED cooldown_until
       ELSE /\ cooldown_until' = [cooldown_until EXCEPT ![p] = Larger(@, now + s)]
            /\ UNCHANGED global_cooldown_until
    /\ promised' = promised \cup {[paths |-> IF all THEN Path ELSE {p}, until |-> now + s,
                                   before |-> Len(granted)]}
    /\ UNCHANGED <<now, lasts, caller, granted>>

\* Mutant: the last cooldown counts, not the longest.
CooldownReplaced(p, s, all) ==
    /\ Cardinality(promised) < MaxCooldown
    /\ LET deadline == now + Larger(0, s) IN
       /\ IF all
          THEN /\ global_cooldown_until' = deadline
               /\ UNCHANGED cooldown_until
          ELSE /\ cooldown_until' = [cooldown_until EXCEPT ![p] = deadline]
               /\ UNCHANGED global_cooldown_until
       /\ promised' = promised \cup {[paths |-> IF all THEN Path ELSE {p}, until |-> deadline,
                                      before |-> Len(granted)]}
    /\ UNCHANGED <<now, lasts, caller, granted>>

\* An answer asks to wait s: on its path, or (all) on every path.
Cooldown(p, s, all) ==
    /\ Cardinality(promised) < MaxCooldown
    /\ LET deadline == now + Larger(0, s) IN
       /\ IF all
          THEN /\ global_cooldown_until' = Larger(global_cooldown_until, deadline)
               /\ UNCHANGED cooldown_until
          ELSE /\ cooldown_until' = [cooldown_until EXCEPT ![p] = Larger(@, deadline)]
               /\ UNCHANGED global_cooldown_until
       /\ promised' = promised \cup {[paths |-> IF all THEN Path ELSE {p}, until |-> deadline,
                                      before |-> Len(granted)]}
    /\ UNCHANGED <<now, lasts, caller, granted>>

Tick ==
    /\ now < MaxTime
    /\ now' = now + 1
    /\ UNCHANGED <<lasts, cooldowns, caller, granted, promised>>

Next ==
    \/ \E c \in Caller, p \in Path : Ask(c, p)
    \/ \E c \in Caller : Grant(c) \/ Postpone(c) \/ Wake(c)
    \/ \E p \in Path, s \in Delay, all \in BOOLEAN : Cooldown(p, s, all)
    \/ Tick

Spec == Init /\ [][Next]_vars

-----------------------------------------------------------------------------
(* What a thread is doing: nothing, about to try, or asleep.                *)
CallerState ==
    {Idle} \cup [pc : {"try"}, path : Path] \cup [pc : {"sleep"}, path : Path, wake : Int]

\* The scheduler's times, its callers and the history are of the expected kinds; a
\* cooldown never ends before the clock began.
TypeOK ==
    /\ now \in Nat /\ last_request \in Int
    /\ last_market_path \in [Path -> Int]
    /\ cooldown_until \in [Path -> Nat] /\ global_cooldown_until \in Nat
    /\ caller \in [Caller -> CallerState]
    /\ granted \in Seq([path : Path, at : Nat])
    /\ promised \subseteq [paths : SUBSET Path, until : Nat, before : Nat]

\* However many threads wait and wake, two requests leave at least 1 / requests_per_second
\* apart, and two market queries on one path at least market_path_spacing
\* (acquire: a thread that has slept checks again under the lock).
RequestsSpaced ==
    \A i, j \in 1..Len(granted) : i < j =>
       /\ granted[j].at >= granted[i].at + Interval
       /\ granted[i].path = granted[j].path /\ granted[i].path \in MarketPath
            => granted[j].at >= granted[i].at + Spacing

\* No request leaves during a cooldown that was asked for before it, also when
\* a shorter one came after (cooldown keeps the later deadline).
CooldownsKept ==
    \A d \in promised : \A j \in (d.before + 1)..Len(granted) :
       granted[j].path \in d.paths => granted[j].at >= d.until

\* A thread sleeps no longer than its request has to wait: the moment it was
\* told is never later than the moment at which it could go now
\* (acquire: wait is computed from deadlines that only move forward).
NobodyOversleeps ==
    \A c \in Caller : caller[c].pc = "sleep" => caller[c].wake <= Ready(caller[c].path)
=============================================================================
