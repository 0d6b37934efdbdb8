----------------------- MODULE RequestSchedulerProofs -----------------------
(***************************************************************************)
(* The spacing of requests and the cooldowns of RequestScheduler hold for  *)
(* every number of threads and paths, every policy and every delay.        *)
(***************************************************************************)
EXTENDS RequestScheduler, TLAPS

\* What the scheduler remembers covers what it granted and what it promised.
Remembered ==
    /\ \A i \in 1..Len(granted) :
          /\ granted[i].at <= last_request
          /\ granted[i].path \in MarketPath
                => granted[i].at <= last_market_path[granted[i].path]
    /\ \A d \in promised :
          /\ d.before <= Len(granted)
          /\ \A p \in d.paths : d.until <= Larger(global_cooldown_until, cooldown_until[p])

IInv ==
    /\ TypeOK
    /\ Remembered
    /\ RequestsSpaced
    /\ CooldownsKept
    /\ NobodyOversleeps

\* Adding to both sides keeps the order.
LEMMA SumMonotone ==
    ASSUME NEW a \in Int, NEW b \in Int, NEW c \in Int, a <= b
    PROVE  a + c <= b + c
OBVIOUS

\* Appending keeps what is there.
LEMMA AppendFacts ==
    ASSUME NEW R, NEW s \in Seq(R), NEW x \in R
    PROVE  /\ Len(s) \in Nat /\ Len(Append(s, x)) = Len(s) + 1
           /\ \A i \in 1..Len(s) : Append(s, x)[i] = s[i] /\ s[i] \in R
           /\ Append(s, x)[Len(s) + 1] = x
OBVIOUS

\* A request is ready once each of the deadlines it answers to is past.
LEMMA ReadyCovers ==
    ASSUME TypeOK, NEW p \in Path
    PROVE  /\ Ready(p) \in Int
           /\ last_request + Interval <= Ready(p)
           /\ Larger(global_cooldown_until, cooldown_until[p]) <= Ready(p)
           /\ p \in MarketPath => last_market_path[p] + Spacing <= Ready(p)
BY PolicyAssumption DEF TypeOK, Ready, Larger

\* Deadlines that move forward only put a request off.
LEMMA ReadyMonotone ==
    ASSUME TypeOK, TypeOK', NEW p \in Path,
           last_request <= last_request',
           last_market_path[p] <= last_market_path'[p],
           cooldown_until[p] <= cooldown_until'[p],
           global_cooldown_until <= global_cooldown_until'
    PROVE  Ready(p) <= Ready(p)' /\ Ready(p)' \in Int
<1>1. /\ last_request \in Int /\ last_request' \in Int
      /\ last_market_path[p] \in Int /\ last_market_path'[p] \in Int
      /\ cooldown_until[p] \in Int /\ cooldown_until'[p] \in Int
      /\ global_cooldown_until \in Int /\ global_cooldown_until' \in Int
  BY DEF TypeOK
<1>2. Interval \in Int /\ Spacing \in Int
  BY PolicyAssumption
<1>3. /\ last_request + Interval <= last_request' + Interval
      /\ last_market_path[p] + Spacing <= last_market_path'[p] + Spacing
  BY <1>1, <1>2, SumMonotone
<1> QED
  BY <1>1, <1>2, <1>3 DEF Ready, Larger

\* A new scheduler satisfies the invariant.
LEMMA InitEstablishes == Init => IInv
<1> SUFFICES ASSUME Init PROVE IInv
  OBVIOUS
<1>1. TypeOK
  BY PolicyAssumption DEF Init, TypeOK, Never, CallerState
<1>2. Remembered /\ RequestsSpaced /\ CooldownsKept
  BY DEF Init, Remembered, RequestsSpaced, CooldownsKept
<1>3. NobodyOversleeps
  BY DEF Init, NobodyOversleeps, Idle
<1> QED
  BY <1>1, <1>2, <1>3 DEF IInv

\* A thread that asks holds nothing up.
LEMMA AskPreserves ==
    ASSUME IInv, NEW c \in Caller, NEW p \in Path, Ask(c, p)
    PROVE  IInv'
<1>1. TypeOK'
  BY DEF IInv, TypeOK, Ask, CallerState, Trying, lasts, cooldowns
<1>2. (Remembered /\ RequestsSpaced /\ CooldownsKept)'
  BY DEF IInv, Ask, lasts, cooldowns, Remembered, RequestsSpaced, CooldownsKept
<1>3. NobodyOversleeps'
  BY DEF IInv, Ask, lasts, cooldowns, NobodyOversleeps, Ready, Trying, TypeOK
<1> QED
  BY <1>1, <1>2, <1>3 DEF IInv

\* A grant comes after every deadline that its request answers to.
LEMMA GrantPreserves ==
    ASSUME IInv, NEW c \in Caller, Grant(c)
    PROVE  IInv'
<1> DEFINE p == caller[c].path
           g == [path |-> p, at |-> now]
<1>1. p \in Path /\ g \in [path : Path, at : Nat] /\ Ready(p) <= now
  BY DEF IInv, TypeOK, CallerState, Grant, Idle
<1>2. /\ Ready(p) \in Int
      /\ last_request + Interval <= Ready(p)
      /\ Larger(global_cooldown_until, cooldown_until[p]) <= Ready(p)
      /\ p \in MarketPath => last_market_path[p] + Spacing <= Ready(p)
  BY <1>1, ReadyCovers DEF IInv
<1>3. TypeOK'
  BY <1>1 DEF IInv, TypeOK, Grant, CallerState, cooldowns
<1>4. /\ granted' = Append(granted, g)
      /\ granted \in Seq([path : Path, at : Nat])
      /\ Len(granted) \in Nat /\ Len(granted') = Len(granted) + 1
      /\ \A i \in 1..Len(granted) : granted'[i] = granted[i] /\ granted[i].at \in Nat
                                    /\ granted[i].path \in Path
      /\ granted'[Len(granted) + 1] = g
  <2>1. granted' = Append(granted, g)
    BY DEF Grant
  <2> DEFINE R == [path : Path, at : Nat]
  <2>2. granted \in Seq(R) /\ g \in R
    BY <1>1 DEF IInv, TypeOK
  <2> HIDE DEF g, R
  <2>3. /\ Len(granted) \in Nat /\ Len(granted') = Len(granted) + 1
        /\ \A i \in 1..Len(granted) : granted'[i] = granted[i]
                                      /\ granted[i] \in R
        /\ granted'[Len(granted) + 1] = g
    BY <2>1, <2>2, AppendFacts
  <2> QED
    BY <2>1, <2>2, <2>3 DEF R
<1>5. /\ last_request' = now /\ last_request <= now /\ now \in Nat /\ last_request \in Int
      /\ last_market_path \in [Path -> Int]
      /\ \A q \in Path : last_market_path[q] <= last_market_path'[q]
      /\ p \in MarketPath => last_market_path'[p] = now
  BY <1>1, <1>2, PolicyAssumption DEF IInv, TypeOK, Grant
<1>6. Remembered'
  <2>1. ASSUME NEW i \in 1..Len(granted')
        PROVE  /\ granted'[i].at <= last_request'
               /\ granted'[i].path \in MarketPath
                    => granted'[i].at <= last_market_path'[granted'[i].path]
    <3>1. CASE i = Len(granted) + 1
      BY <3>1, <1>1, <1>4, <1>5
    <3>2. CASE i # Len(granted) + 1
      <4>1. i \in 1..Len(granted)
        BY <3>2, <1>4
      <4>2. granted[i].at <= last_request /\ granted'[i] = granted[i]
        BY <4>1, <1>4 DEF IInv, Remembered
      <4>3. granted[i].path \in MarketPath => granted[i].at <= last_market_path[granted[i].path]
        BY <4>1 DEF IInv, Remembered
      <4>4. last_market_path'[granted[i].path] \in Int /\ last_market_path[granted[i].path] \in Int
        BY <4>1, <1>4, <1>3, <1>5 DEF TypeOK
      <4> QED
        BY <4>1, <4>2, <4>3, <4>4, <1>4, <1>5
    <3> QED
      BY <3>1, <3>2
  <2>2. ASSUME NEW d \in promised
        PROVE  /\ d.before <= Len(granted')
               /\ \A q \in d.paths : d.until <= Larger(global_cooldown_until, cooldown_until[q])
    BY <1>4 DEF IInv, TypeOK, Remembered
  <2> QED
    BY <2>1, <2>2 DEF Remembered, Grant, cooldowns, Larger
<1>7. RequestsSpaced'
  <2> SUFFICES ASSUME NEW i \in 1..Len(granted'), NEW j \in 1..Len(granted'), i < j
               PROVE  /\ granted'[j].at >= granted'[i].at + Interval
                      /\ granted'[i].path = granted'[j].path /\ granted'[i].path \in MarketPath
                           => granted'[j].at >= granted'[i].at + Spacing
    BY DEF RequestsSpaced
  <2>1. i \in 1..Len(granted) /\ granted'[i] = granted[i]
    BY <1>4
  <2>2. CASE j = Len(granted) + 1
    <3>1. granted[i].at <= last_request
      BY <2>1 DEF IInv, Remembered
    <3>2. granted[i].path \in MarketPath => granted[i].at <= last_market_path[granted[i].path]
      BY <2>1 DEF IInv, Remembered
    <3>3. granted'[j].at = now /\ granted'[j].path = p
      BY <2>2, <1>4
    <3>4. granted[i].at \in Nat /\ last_market_path[p] \in Int
      BY <2>1, <1>1, <1>4, <1>5
    <3>5. now >= granted[i].at + Interval
      BY <3>1, <3>4, <1>1, <1>2, <1>5, PolicyAssumption
    <3>6. ASSUME granted[i].path = p, p \in MarketPath
          PROVE  now >= granted[i].at + Spacing
      BY <3>2, <3>4, <3>6, <1>1, <1>2, <1>5, PolicyAssumption
    <3> QED
      BY <2>1, <3>3, <3>5, <3>6
  <2>3. CASE j # Len(granted) + 1
    BY <2>1, <2>3, <1>4 DEF IInv, RequestsSpaced
  <2> QED
    BY <2>2, <2>3
<1>8. CooldownsKept'
  <2> SUFFICES ASSUME NEW d \in promised, NEW j \in (d.before + 1)..Len(granted'),
                      granted'[j].path \in d.paths
               PROVE  granted'[j].at >= d.until
    BY DEF CooldownsKept, Grant
  <2>0. d.before \in Nat /\ d.until \in Int /\ d.paths \in SUBSET Path
    BY DEF IInv, TypeOK
  <2>1. CASE j = Len(granted) + 1
    <3>1. p \in d.paths /\ granted'[j].at = now
      BY <2>1, <1>4
    <3>2. d.until <= Larger(global_cooldown_until, cooldown_until[p])
      BY <3>1 DEF IInv, Remembered
    <3>3. Larger(global_cooldown_until, cooldown_until[p]) \in Int
      BY <1>1 DEF IInv, TypeOK, Larger
    <3> QED
      BY <2>0, <3>1, <3>2, <3>3, <1>1, <1>2, <1>5
  <2>2. CASE j # Len(granted) + 1
    <3>1. j \in (d.before + 1)..Len(granted) /\ granted'[j] = granted[j]
      BY <2>0, <2>2, <1>4
    <3> QED
      BY <3>1 DEF IInv, CooldownsKept
  <2> QED
    BY <2>1, <2>2
<1>9. NobodyOversleeps'
  <2>1. \A q \in Path : Ready(q) <= Ready(q)' /\ Ready(q)' \in Int /\ Ready(q) \in Int
    <3> SUFFICES ASSUME NEW q \in Path
                 PROVE  Ready(q) <= Ready(q)' /\ Ready(q)' \in Int /\ Ready(q) \in Int
      OBVIOUS
    <3>1. /\ cooldown_until[q] <= cooldown_until'[q]
          /\ global_cooldown_until <= global_cooldown_until'
      BY DEF Grant, cooldowns, IInv, TypeOK
    <3> QED
      BY <3>1, <1>3, <1>5, ReadyMonotone, ReadyCovers DEF IInv
  <2> SUFFICES ASSUME NEW e \in Caller, caller'[e].pc = "sleep"
               PROVE  (caller[e].wake <= Ready(caller[e].path))'
    BY DEF NobodyOversleeps, Ready
  <2>2. caller'[e] = caller[e]
    BY DEF Grant, Idle, IInv, TypeOK
  <2>3. caller[e].wake <= Ready(caller[e].path) /\ caller[e].path \in Path /\ caller[e].wake \in Int
    BY <2>2 DEF IInv, NobodyOversleeps, TypeOK, CallerState, Idle
  <2>4. PICK q \in Path : q = caller[e].path
    BY <2>3
  <2>5. caller[e].wake <= Ready(q)'
    BY <2>1, <2>3, <2>4
  <2> QED
    BY <2>2, <2>4, <2>5 DEF Ready
<1> QED
  BY <1>3, <1>6, <1>7, <1>8, <1>9 DEF IInv

\* A thread is told to sleep until its request is ready.
LEMMA PostponePreserves ==
    ASSUME IInv, NEW c \in Caller, Postpone(c)
    PROVE  IInv'
<1>1. caller[c].path \in Path
  BY DEF IInv, TypeOK, CallerState, Postpone, Idle
<1>2. Ready(caller[c].path) \in Int
  BY <1>1, ReadyCovers DEF IInv
<1>3. TypeOK'
  BY <1>1, <1>2 DEF IInv, TypeOK, Postpone, CallerState, Sleeping, lasts, cooldowns
<1>4. (Remembered /\ RequestsSpaced /\ CooldownsKept)'
  BY DEF IInv, Postpone, lasts, cooldowns, Remembered, RequestsSpaced, CooldownsKept
<1>5. NobodyOversleeps'
  BY <1>2 DEF IInv, TypeOK, Postpone, lasts, cooldowns, NobodyOversleeps, Ready, Sleeping
<1> QED
  BY <1>3, <1>4, <1>5 DEF IInv

\* A thread that has slept only tries again.
LEMMA WakePreserves ==
    ASSUME IInv, NEW c \in Caller, Wake(c)
    PROVE  IInv'
<1>1. caller[c].path \in Path
  BY DEF IInv, TypeOK, CallerState, Wake, Idle
<1>2. TypeOK'
  BY <1>1 DEF IInv, TypeOK, Wake, CallerState, Trying, lasts, cooldowns
<1>3. (Remembered /\ RequestsSpaced /\ CooldownsKept)'
  BY DEF IInv, Wake, lasts, cooldowns, Remembered, RequestsSpaced, CooldownsKept
<1>4. NobodyOversleeps'
  BY DEF IInv, TypeOK, Wake, lasts, cooldowns, NobodyOversleeps, Ready, Trying
<1> QED
  BY <1>2, <1>3, <1>4 DEF IInv

\* A cooldown moves deadlines forward, and from now on counts.
LEMMA CooldownPreserves ==
    ASSUME IInv, NEW p \in Path, NEW s \in Delay, NEW all \in BOOLEAN, Cooldown(p, s, all)
    PROVE  IInv'
<1> DEFINE deadline == now + Larger(0, s)
           d == [paths |-> IF all THEN Path ELSE {p}, until |-> deadline, before |-> Len(granted)]
<1>1. deadline \in Nat /\ d \in [paths : SUBSET Path, until : Nat, before : Nat]
  BY PolicyAssumption DEF IInv, TypeOK, Larger
<1>2. /\ UNCHANGED <<now, last_request, last_market_path, caller, granted>>
      /\ promised' = promised \cup {d}
  BY DEF Cooldown, lasts
<1>3. /\ cooldown_until' \in [Path -> Nat] /\ global_cooldown_until' \in Nat
      /\ \A q \in Path : cooldown_until[q] <= cooldown_until'[q]
      /\ global_cooldown_until <= global_cooldown_until'
      /\ \A q \in d.paths : deadline <= Larger(global_cooldown_until', cooldown_until'[q])
  <2>1. CASE all
    BY <2>1, <1>1 DEF Cooldown, IInv, TypeOK, Larger
  <2>2. CASE ~all
    <3>1. /\ cooldown_until' = [cooldown_until EXCEPT ![p] = Larger(cooldown_until[p], deadline)]
          /\ global_cooldown_until' = global_cooldown_until
          /\ d.paths = {p}
      BY <2>2 DEF Cooldown
    <3>2. /\ cooldown_until \in [Path -> Nat] /\ global_cooldown_until \in Nat
          /\ Larger(cooldown_until[p], deadline) \in Nat
          /\ cooldown_until[p] <= Larger(cooldown_until[p], deadline)
          /\ deadline <= Larger(cooldown_until[p], deadline)
      BY <1>1 DEF IInv, TypeOK, Larger
    <3> HIDE DEF deadline
    <3>3. /\ cooldown_until' \in [Path -> Nat]
          /\ cooldown_until'[p] = Larger(cooldown_until[p], deadline)
          /\ \A q \in Path : cooldown_until[q] <= cooldown_until'[q]
      BY <3>1, <3>2
    <3>4. deadline <= Larger(global_cooldown_until', cooldown_until'[p])
      BY <1>1, <3>1, <3>2, <3>3 DEF Larger
    <3> QED
      BY <3>1, <3>2, <3>3, <3>4
  <2> QED
    BY <2>1, <2>2
<1>4. TypeOK'
  BY <1>1, <1>2, <1>3 DEF IInv, TypeOK
<1>5. Remembered'
  <2>1. ASSUME NEW e \in promised'
        PROVE  /\ e.before <= Len(granted)
               /\ \A q \in e.paths :
                     e.until <= Larger(global_cooldown_until', cooldown_until'[q])
    <3>1. CASE e = d
      BY <3>1, <1>1, <1>3 DEF IInv, TypeOK
    <3>2. CASE e \in promised
      BY <3>2, <1>3 DEF IInv, Remembered, TypeOK, Larger
    <3> QED
      BY <3>1, <3>2, <1>2
  <2> QED
    BY <2>1, <1>2 DEF IInv, Remembered, Larger
<1>6. RequestsSpaced'
  BY <1>2 DEF IInv, RequestsSpaced
<1>7. CooldownsKept'
  <2> SUFFICES ASSUME NEW e \in promised', NEW j \in (e.before + 1)..Len(granted),
                      granted[j].path \in e.paths
               PROVE  granted[j].at >= e.until
    BY <1>2 DEF CooldownsKept
  <2>1. e # d
    BY DEF IInv, TypeOK
  <2> QED
    BY <2>1, <1>2 DEF IInv, CooldownsKept
<1>8. NobodyOversleeps'
  <2>1. \A q \in Path : Ready(q) <= Ready(q)' /\ Ready(q)' \in Int /\ Ready(q) \in Int
    <3> SUFFICES ASSUME NEW q \in Path
                 PROVE  Ready(q) <= Ready(q)' /\ Ready(q)' \in Int /\ Ready(q) \in Int
      OBVIOUS
    <3>1. last_request <= last_request' /\ last_market_path[q] <= last_market_path'[q]
      BY <1>2 DEF IInv, TypeOK
    <3> QED
      BY <3>1, <1>3, <1>4, ReadyMonotone, ReadyCovers DEF IInv
  <2> SUFFICES ASSUME NEW e \in Caller, caller[e].pc = "sleep"
               PROVE  (caller[e].wake <= Ready(caller[e].path))'
    BY <1>2 DEF NobodyOversleeps, Ready
  <2>3. caller[e].wake <= Ready(caller[e].path) /\ caller[e].path \in Path /\ caller[e].wake \in Int
    BY DEF IInv, NobodyOversleeps, TypeOK, CallerState, Idle
  <2>4. PICK q \in Path : q = caller[e].path
    BY <2>3
  <2>5. caller[e].wake <= Ready(q)'
    BY <2>1, <2>3, <2>4
  <2> QED
    BY <1>2, <2>4, <2>5 DEF Ready
<1> QED
  BY <1>4, <1>5, <1>6, <1>7, <1>8 DEF IInv

\* Every step preserves the invariant.
LEMMA NextPreserves == IInv /\ [Next]_vars => IInv'
<1> SUFFICES ASSUME IInv, [Next]_vars PROVE IInv'
  OBVIOUS
<1>1. ASSUME Tick PROVE IInv'
  <2>1. TypeOK'
    BY <1>1 DEF IInv, Tick, TypeOK, lasts, cooldowns
  <2>2. (Remembered /\ RequestsSpaced /\ CooldownsKept /\ NobodyOversleeps)'
    BY <1>1 DEF IInv, Tick, lasts, cooldowns, Remembered, RequestsSpaced, CooldownsKept,
                NobodyOversleeps, Ready
  <2> QED
    BY <2>1, <2>2 DEF IInv
<1>2. CASE UNCHANGED vars
  BY <1>2 DEF IInv, vars, TypeOK, lasts, cooldowns, Remembered, RequestsSpaced, CooldownsKept,
              NobodyOversleeps, Ready, Larger
<1>3. CASE Next
  BY <1>3, <1>1, AskPreserves, GrantPreserves, PostponePreserves, WakePreserves,
     CooldownPreserves DEF Next
<1> QED
  BY <1>2, <1>3

\* The inductive invariant holds in every reachable state.
LEMMA Invariance == Spec => []IInv
BY InitEstablishes, NextPreserves, PTL DEF Spec

\* Type correctness of the scheduler.
THEOREM SchedulerTypeCorrect == Spec => []TypeOK
<1>1. IInv => TypeOK
  BY DEF IInv
<1> QED
  BY <1>1, Invariance, PTL

\* However many threads share the scheduler, requests are spaced as the policy says.
THEOREM SpacingCorrect == Spec => []RequestsSpaced
<1>1. IInv => RequestsSpaced
  BY DEF IInv
<1> QED
  BY <1>1, Invariance, PTL

\* No request leaves during a cooldown that was asked for before it.
THEOREM CooldownCorrect == Spec => []CooldownsKept
<1>1. IInv => CooldownsKept
  BY DEF IInv
<1> QED
  BY <1>1, Invariance, PTL

\* No thread is told to sleep longer than its request has to wait.
THEOREM SleepCorrect == Spec => []NobodyOversleeps
<1>1. IInv => NobodyOversleeps
  BY DEF IInv
<1> QED
  BY <1>1, Invariance, PTL
=============================================================================
