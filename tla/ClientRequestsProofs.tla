------------------------ MODULE ClientRequestsProofs ------------------------
(***************************************************************************)
(* For every number of threads, any mix of calls and any bound on retries: *)
(* a mutation is carried out at most once, its caller is told the truth    *)
(* about it, a request that is made again carries another token, and no    *)
(* token is renewed twice.                                                 *)
(***************************************************************************)
EXTENDS ClientRequests, TLAPS

\* c is inside a block of _auth_lock.
Holding(c) ==
    \/ caller[c].pc \in {"renew", "renewing"}
    \/ caller[c].stage = "ladder" /\ caller[c].pc \notin {"ladder", "done"}

\* A renewal under way has its reason, and keeps it while the lock is held.
ReasonHolds(c) ==
    /\ caller[c].why # "none" <=> caller[c].pc \in {"renew", "renewing"}
    /\ caller[c].why = "ensure" => access = 0 \/ due
    /\ caller[c].why = "call" => caller[c].op \in {"authenticate", "refresh"}
    /\ caller[c].pc = "explicit" => caller[c].op \in {"authenticate", "refresh"}
    /\ caller[c].why = "rejected" =>
          access = caller[c].token /\ done[c].rejected = {caller[c].token}

\* Tokens that were rejected are older than the one a request is made again with.
RejectedOlder(c) ==
    /\ caller[c].token <= issued
    /\ caller[c].retry_auth /\ caller[c].pc \notin {"rejected", "done"}
          /\ caller[c].why # "rejected" => done[c].rejected = {}
    /\ caller[c].pc = "rejected" =>
          caller[c].retry_auth /\ done[c].rejected = {caller[c].token}
    /\ ~caller[c].retry_auth =>
          /\ caller[c].pc \in {"begin", "acquire", "sent"}
          /\ \A t \in done[c].rejected : t < access
    /\ caller[c].pc = "sent" /\ ~caller[c].retry_auth =>
          \A t \in done[c].rejected : t < caller[c].token

\* Nothing is carried out before the answer that ends the call.
CarriedByEnd(c) ==
    /\ caller[c].op = "cancel" => caller[c].stage = "main"
    /\ caller[c].pc # "done" \/ caller[c].op \notin {"order", "cancel"}
          => done[c].carried = 0
    /\ caller[c].pc = "done" =>
          /\ done[c].carried <= 1
          /\ caller[c].result = "failed" => done[c].carried = 0
          /\ caller[c].result = "ok" /\ caller[c].op \in {"order", "cancel"}
                => done[c].carried = 1

Good(c) ==
    /\ Holding(c) => auth = c
    /\ ReasonHolds(c)
    /\ RejectedOlder(c)
    /\ CarriedByEnd(c)

IInv ==
    /\ TypeOK
    /\ access = issued
    /\ \A c \in Caller : Good(c)

USE DEF At, Goto

\* The record of a thread that calls nothing, and of one whose call ended.
LEMMA CallTypes ==
    ASSUME NEW op \in Calls \cup {"none"}, NEW st \in {"ladder", "main"},
           NEW pc \in {"ensure", "done"}, NEW r \in {"none", "ok", "failed", "unknown"}
    PROVE  /\ NoCall \in CallState
           /\ [NoCall EXCEPT !.pc = pc, !.op = op, !.stage = st, !.result = r] \in CallState
<1>1. 0 \in 0..MaxRetry
  BY CallAssumption
<1>2. NoCall \in CallState
  BY <1>1 DEF NoCall, CallState
<1> HIDE DEF NoCall
<1>3. ASSUME NEW x \in CallState
      PROVE  [x EXCEPT !.pc = pc, !.op = op, !.stage = st, !.result = r] \in CallState
  BY ZenonT(60) DEF CallState
<1> QED
  BY <1>2, <1>3

\* The initial state satisfies the invariant.
LEMMA InitEstablishes == Init => IInv
<1> SUFFICES ASSUME Init PROVE IInv
  OBVIOUS
<1>1. TypeOK
  <2>1. NoCall \in CallState
    BY CallTypes
  <2>2. done \in [Caller -> [sent : Nat, carried : Nat, rejected : SUBSET Nat]]
    BY DEF Init
  <2>3. issued \in 0..MaxToken
    BY CallAssumption DEF Init
  <2> QED
    BY <2>1, <2>2, <2>3 DEF Init, TypeOK
<1>2. ASSUME NEW c \in Caller PROVE Good(c)
  BY DEF Init, NoCall, Good, Holding, ReasonHolds, RejectedOlder, CarriedByEnd
<1> QED
  BY <1>1, <1>2 DEF Init, IInv

\* What a thread does leaves the others good: it changes the lock only when it is free
\* or its own, and the token only while it holds the lock.
LEMMA OthersStayGood ==
    ASSUME IInv, NEW c \in Caller, NEW d \in Caller, d # c,
           caller'[d] = caller[d], done'[d] = done[d],
           auth' = auth \/ auth \in {c, Nobody},
           \/ UNCHANGED <<access, issued>> /\ (due => due')
           \/ auth = c /\ access' = issued + 1 /\ issued' = issued + 1
    PROVE  Good(d)'
<1>1. Good(d) /\ TypeOK /\ access = issued
  BY DEF IInv
<1>2. issued \in Nat /\ caller[d].token \in Nat /\ done[d].rejected \in SUBSET Nat
  BY <1>1, CallAssumption DEF TypeOK, CallState
<1>3. Holding(d)' => auth' = d
  BY <1>1, CallAssumption DEF Good, Holding
<1>4. caller[d].pc \in {"renew", "renewing"} => auth = d
  BY <1>1 DEF Good, Holding
<1>5. ReasonHolds(d)'
  BY <1>1, <1>4 DEF Good, ReasonHolds
<1>6. RejectedOlder(d)'
  BY <1>1, <1>2 DEF Good, RejectedOlder
<1>7. CarriedByEnd(d)'
  BY <1>1 DEF Good, CarriedByEnd
<1> QED
  BY <1>3, <1>5, <1>6, <1>7 DEF Good

\* A thread whose call ends is good, if it tells the truth.
LEMMA EndGood ==
    ASSUME IInv, NEW c \in Caller, NEW r \in {"ok", "failed", "unknown"}, End(c, r),
           issued' \in Nat,
           done'[c].carried \in {0, 1},
           r = "failed" \/ caller[c].op \notin {"order", "cancel"} => done'[c].carried = 0,
           r = "ok" /\ caller[c].op \in {"order", "cancel"} => done'[c].carried = 1
    PROVE  Good(c)'
<1>1. /\ caller'[c].pc = "done" /\ caller'[c].op = caller[c].op
      /\ caller'[c].stage = caller[c].stage /\ caller'[c].result = r
      /\ caller'[c].why = "none" /\ caller'[c].retry_auth = TRUE /\ caller'[c].token = 0
  BY DEF IInv, TypeOK, End, NoCall
<1>2. caller[c].op = "cancel" => caller[c].stage = "main"
  BY DEF IInv, Good, CarriedByEnd
<1> QED
  BY <1>1, <1>2 DEF Good, Holding, ReasonHolds, RejectedOlder, CarriedByEnd

\* The end of a call keeps the types of the threads and of the lock.
LEMMA EndTypes ==
    ASSUME TypeOK, NEW c \in Caller, NEW r \in {"ok", "failed", "unknown"}, End(c, r)
    PROVE  /\ caller' \in [Caller -> CallState] /\ auth' \in Caller \cup {Nobody}
           /\ \A d \in Caller : d # c => caller'[d] = caller[d]
           /\ auth' = auth \/ auth \in {c, Nobody}
<1> DEFINE ended == [NoCall EXCEPT !.pc = "done", !.op = caller[c].op,
                                   !.stage = caller[c].stage, !.result = r]
<1>1. ended \in CallState
  <2>1. caller[c].op \in Calls \cup {"none"} /\ caller[c].stage \in {"ladder", "main"}
    BY DEF TypeOK, CallState
  <2> QED
    BY <2>1, CallTypes
<1>2. caller' = [caller EXCEPT ![c] = ended] /\ auth' = IF auth = c THEN Nobody ELSE auth
  BY DEF End
<1> HIDE DEF ended
<1> QED
  BY SMTT(30), <1>1, <1>2, CallAssumption DEF TypeOK

\* What a step of c leaves alone.
Frame(c) ==
    /\ \A d \in Caller \ {c} : caller'[d] = caller[d] /\ done'[d] = done[d]
    /\ auth' = auth \/ auth \in {c, Nobody}
    /\ \/ UNCHANGED <<access, issued, due>>
       \/ auth = c /\ access' = issued + 1 /\ issued' = issued + 1

\* A step of c preserves the invariant if it does so for c.
LEMMA StepKeeps ==
    ASSUME IInv, NEW c \in Caller, TypeOK', Frame(c), Good(c)'
    PROVE  IInv'
<1>1. access' = issued'
  BY DEF IInv, Frame
<1>2. ASSUME NEW d \in Caller, d # c PROVE Good(d)'
  <2>1. caller'[d] = caller[d] /\ done'[d] = done[d]
    BY <1>2 DEF Frame
  <2>2. auth' = auth \/ auth \in {c, Nobody}
    BY DEF Frame
  <2>3. \/ UNCHANGED <<access, issued>> /\ (due => due')
        \/ auth = c /\ access' = issued + 1 /\ issued' = issued + 1
    BY DEF Frame
  <2> QED
    BY <1>2, <2>1, <2>2, <2>3, OthersStayGood
<1> QED
  BY <1>1, <1>2 DEF IInv

\* c may replace the token, if it holds the lock.
Supply(c) ==
    \/ UNCHANGED <<tokens, server>>
    \/ /\ auth = c /\ issued < MaxToken
       /\ issued' = issued + 1 /\ accepted' = accepted \cup {issued'}
       /\ access' = issued' /\ due' = FALSE

\* The token that c may put stays in range.
LEMMA SupplyTypes ==
    ASSUME IInv, NEW c \in Caller, Supply(c)
    PROVE  /\ access' \in Nat /\ issued' \in 0..MaxToken /\ accepted' \subseteq 1..issued'
           /\ due' \in BOOLEAN
           /\ \/ UNCHANGED <<access, issued, due>>
              \/ auth = c /\ access' = issued + 1 /\ issued' = issued + 1
<1>1. /\ access \in Nat /\ issued \in 0..MaxToken /\ accepted \subseteq 1..issued
      /\ due \in BOOLEAN /\ issued \in Nat /\ MaxToken \in Nat
  BY CallAssumption DEF IInv, TypeOK
<1>2. CASE UNCHANGED <<tokens, server>>
  BY <1>1, <1>2 DEF tokens, server
<1>3. CASE ~UNCHANGED <<tokens, server>>
  <2>1. /\ auth = c /\ issued < MaxToken /\ issued' = issued + 1
        /\ accepted' = accepted \cup {issued'} /\ access' = issued' /\ due' = FALSE
    BY <1>3 DEF Supply
  <2>2. issued' \in 0..MaxToken /\ access' \in Nat
    BY <1>1, <2>1
  <2>3. ASSUME NEW t \in accepted' PROVE t \in 1..issued'
    BY <1>1, <2>1, <2>3
  <2> QED
    BY <2>1, <2>2, <2>3
<1> QED
  BY <1>2, <1>3

\* A step that gives c the record r preserves the invariant if r is good for c.
LEMMA MoveKeeps ==
    ASSUME IInv, NEW c \in Caller, NEW r \in CallState,
           caller' = [caller EXCEPT ![c] = r],
           auth' = auth \/ (auth' \in {c, Nobody} /\ auth \in {c, Nobody}),
           Supply(c), closed' = closed, ladder' \in BOOLEAN,
           done' \in [Caller -> [sent : Nat, carried : Nat, rejected : SUBSET Nat]],
           \A d \in Caller \ {c} : done'[d] = done[d],
           Good(c)'
    PROVE  IInv'
<1>1. caller' \in [Caller -> CallState] /\ \A d \in Caller \ {c} : caller'[d] = caller[d]
  BY DEF IInv, TypeOK
<1>2. TypeOK'
  BY <1>1, SupplyTypes DEF IInv, TypeOK
<1>3. Frame(c)
  BY <1>1, SupplyTypes DEF Frame
<1> QED
  BY <1>2, <1>3, StepKeeps

\* A step that ends c's call preserves the invariant if it tells the truth.
LEMMA EndKeeps ==
    ASSUME IInv, NEW c \in Caller, NEW r \in {"ok", "failed", "unknown"}, End(c, r),
           Supply(c), closed' = closed, ladder' \in BOOLEAN,
           done' \in [Caller -> [sent : Nat, carried : Nat, rejected : SUBSET Nat]],
           \A d \in Caller \ {c} : done'[d] = done[d],
           done'[c].carried \in {0, 1},
           r = "failed" \/ caller[c].op \notin {"order", "cancel"} => done'[c].carried = 0,
           r = "ok" /\ caller[c].op \in {"order", "cancel"} => done'[c].carried = 1
    PROVE  IInv'
<1>1. TypeOK'
  BY EndTypes, SupplyTypes DEF IInv, TypeOK
<1>2. Frame(c)
  BY EndTypes, SupplyTypes DEF IInv, Frame
<1>3. Good(c)'
  <2>1. issued' \in Nat
    BY <1>1, CallAssumption DEF TypeOK
  <2> QED
    BY <2>1, EndGood
<1> QED
  BY <1>1, <1>2, <1>3, StepKeeps

\* What the invariant says of c.
LEMMA Known ==
    ASSUME IInv, NEW c \in Caller
    PROVE  /\ Good(c) /\ caller[c] \in CallState /\ access = issued
           /\ access \in Nat /\ issued \in Nat /\ caller[c].token \in Nat
           /\ 0 \in 0..MaxRetry /\ MaxRetry \in Nat /\ ladder \in BOOLEAN
           /\ auth \in Caller \cup {Nobody} /\ c # Nobody
           /\ caller \in [Caller -> CallState]
           /\ done \in [Caller -> [sent : Nat, carried : Nat, rejected : SUBSET Nat]]
           /\ done[c].carried \in Nat /\ done[c].sent \in Nat /\ done[c].rejected \in SUBSET Nat
<1>1. issued \in Nat /\ MaxRetry \in Nat /\ c # Nobody
  BY CallAssumption DEF IInv, TypeOK
<1>2. caller[c] \in CallState /\ done[c] \in [sent : Nat, carried : Nat, rejected : SUBSET Nat]
  BY DEF IInv, TypeOK
<1>3. caller[c].token \in Nat
  BY <1>2 DEF CallState
<1> QED
  BY <1>1, <1>2, <1>3 DEF IInv, TypeOK

\* A call begins.
LEMMA BeginPreserves ==
    ASSUME IInv, NEW c \in Caller, NEW op \in Calls, Begin(c, op)
    PROVE  IInv'
<1> DEFINE r == [caller[c] EXCEPT !.op = op,
                 !.stage = IF op \in {"order", "ladder"} THEN "ladder" ELSE "main",
                 !.pc = CASE op \in {"read", "cancel"} -> "begin"
                          [] op \in {"order", "ladder"} -> "ladder"
                          [] OTHER -> "explicit"]
<1>1. caller' = [caller EXCEPT ![c] = r]
  BY DEF Begin
<1>2. r \in CallState
  <2>1. caller[c] \in CallState /\ 0 \in 0..MaxRetry /\ access \in Nat
    BY Known
  <2>2. (CASE op \in {"read", "cancel"} -> "begin"
              [] op \in {"order", "ladder"} -> "ladder"
              [] OTHER -> "explicit") \in {"begin", "ladder", "explicit"}
    BY <2>1 DEF CallState, Calls
  <2>3. (IF op \in {"order", "ladder"} THEN "ladder" ELSE "main") \in {"ladder", "main"}
    BY <2>1 DEF CallState, Calls
  <2> QED
    BY ZenonT(60), <2>1, <2>2, <2>3 DEF CallState
<1>3. auth' = auth
  BY DEF Begin
<1>4. Supply(c) /\ closed' = closed /\ ladder' \in BOOLEAN
  BY Known DEF Begin, Supply
<1>5. done' = done
  BY DEF Begin
<1>6. /\ done' \in [Caller -> [sent : Nat, carried : Nat, rejected : SUBSET Nat]]
      /\ done'[c] = done[c]
  BY <1>5, Known
<1>7. caller'[c] = r
  BY <1>1, Known
<1>8. Good(c)'
  <2>1. Good(c) /\ caller[c].token \in Nat /\ access = issued /\ issued \in Nat
          /\ done[c].rejected \in SUBSET Nat /\ c # Nobody
    BY Known
  <2>2. /\ caller[c].pc = "idle" /\ caller[c].why = "none" /\ caller[c].token = 0
          /\ caller[c].retry_auth /\ caller[c].stage = "main"
    BY DEF Begin, NoCall, Calls
  <2>3. UNCHANGED <<access, due, issued>>
    BY DEF Begin, tokens, server
  <2>4. Holding(c)' => auth' = c
    BY <2>1, <2>2, <2>3, <1>3, <1>6, <1>7 DEF Good, Holding, NoCall, Calls
  <2>5. ReasonHolds(c)'
    BY <2>1, <2>2, <2>3, <1>3, <1>6, <1>7 DEF Good, ReasonHolds, RejectedOlder, NoCall,
       Calls
  <2>6. RejectedOlder(c)'
    BY <2>1, <2>2, <2>3, <1>3, <1>6, <1>7 DEF Good, ReasonHolds, RejectedOlder, NoCall,
       Calls
  <2>7. CarriedByEnd(c)'
    BY <2>1, <2>2, <2>3, <1>3, <1>6, <1>7 DEF Good, CarriedByEnd, NoCall, Calls
  <2> QED
    BY <2>4, <2>5, <2>6, <2>7 DEF Good
<1> HIDE DEF r
<1> QED
  BY <1>1, <1>2, <1>3, <1>4, <1>5, <1>6, <1>8, Known, MoveKeeps

\* A renewal on demand begins.
LEMMA ExplicitPreserves ==
    ASSUME IInv, NEW c \in Caller, Explicit(c)
    PROVE  IInv'
<1> DEFINE r == [caller[c] EXCEPT !.pc = "renew", !.why = "call",
                 !.renewal = IF caller[c].op = "refresh" /\ access # 0 THEN "refresh" ELSE "login"]
<1>1. caller' = [caller EXCEPT ![c] = r]
  BY DEF Explicit
<1>2. r \in CallState
  <2>1. caller[c] \in CallState /\ 0 \in 0..MaxRetry /\ access \in Nat
    BY Known
  <2> QED
    BY ZenonT(60), <2>1 DEF CallState
<1>3. auth' \in {c, Nobody} /\ auth \in {c, Nobody} /\ auth' = c
  BY DEF Explicit, Free
<1>4. Supply(c) /\ closed' = closed /\ ladder' \in BOOLEAN
  BY Known DEF Explicit, Supply
<1>5. done' = done
  BY DEF Explicit
<1>6. /\ done' \in [Caller -> [sent : Nat, carried : Nat, rejected : SUBSET Nat]]
      /\ done'[c] = done[c]
  BY <1>5, Known
<1>7. caller'[c] = r
  BY <1>1, Known
<1>8. Good(c)'
  <2>1. Good(c) /\ caller[c].token \in Nat /\ access = issued /\ issued \in Nat
          /\ done[c].rejected \in SUBSET Nat /\ c # Nobody
    BY Known
  <2>2. caller[c].pc = "explicit"
    BY DEF Explicit
  <2>3. UNCHANGED <<access, due, issued>>
    BY DEF Explicit, tokens, server
  <2>4. Holding(c)' => auth' = c
    BY <2>1, <2>2, <2>3, <1>3, <1>6, <1>7 DEF Good, Holding
  <2>5. ReasonHolds(c)'
    BY <2>1, <2>2, <2>3, <1>3, <1>6, <1>7 DEF Good, ReasonHolds, RejectedOlder
  <2>6. RejectedOlder(c)'
    BY <2>1, <2>2, <2>3, <1>3, <1>6, <1>7 DEF Good, ReasonHolds, RejectedOlder
  <2>7. CarriedByEnd(c)'
    BY <2>1, <2>2, <2>3, <1>3, <1>6, <1>7 DEF Good, CarriedByEnd
  <2> QED
    BY <2>4, <2>5, <2>6, <2>7 DEF Good
<1> HIDE DEF r
<1> QED
  BY <1>1, <1>2, <1>3, <1>4, <1>5, <1>6, <1>8, Known, MoveKeeps

\* An order uses the ladder that is known, or its request begins.
LEMMA GetLadderPreserves ==
    ASSUME IInv, NEW c \in Caller, GetLadder(c)
    PROVE  IInv'
<1>1. CASE ladder /\ caller[c].op = "order"
  <2> DEFINE r == [caller[c] EXCEPT !.stage = "main", !.pc = "ensure"]
  <2>1. caller' = [caller EXCEPT ![c] = r]
    BY <1>1 DEF GetLadder
  <2>2. r \in CallState
    <3>1. caller[c] \in CallState /\ 0 \in 0..MaxRetry /\ access \in Nat
      BY <1>1, Known
    <3> QED
      BY ZenonT(60), <3>1 DEF CallState
  <2>3. auth' = auth
    BY <1>1 DEF GetLadder
  <2>4. Supply(c) /\ closed' = closed /\ ladder' \in BOOLEAN
    BY <1>1, Known DEF GetLadder, Supply
  <2>5. done' = done
    BY <1>1 DEF GetLadder
  <2>6. /\ done' \in [Caller -> [sent : Nat, carried : Nat, rejected : SUBSET Nat]]
        /\ done'[c] = done[c]
    BY <2>5, Known
  <2>7. caller'[c] = r
    BY <2>1, Known
  <2>8. Good(c)'
    <3>1. Good(c) /\ caller[c].token \in Nat /\ access = issued /\ issued \in Nat
            /\ done[c].rejected \in SUBSET Nat /\ c # Nobody
      BY Known
    <3>2. caller[c].pc = "ladder"
      BY <1>1 DEF GetLadder
    <3>3. UNCHANGED <<access, due, issued>>
      BY <1>1 DEF GetLadder, tokens, server
    <3>4. Holding(c)' => auth' = c
      BY <1>1, <3>1, <3>2, <3>3, <2>3, <2>6, <2>7 DEF Good, Holding
    <3>5. ReasonHolds(c)'
      BY <1>1, <3>1, <3>2, <3>3, <2>3, <2>6, <2>7 DEF Good, ReasonHolds, RejectedOlder
    <3>6. RejectedOlder(c)'
      BY <1>1, <3>1, <3>2, <3>3, <2>3, <2>6, <2>7 DEF Good, ReasonHolds, RejectedOlder
    <3>7. CarriedByEnd(c)'
      BY <1>1, <3>1, <3>2, <3>3, <2>3, <2>6, <2>7 DEF Good, CarriedByEnd
    <3> QED
      BY <3>4, <3>5, <3>6, <3>7 DEF Good
  <2> HIDE DEF r
  <2> QED
    BY <2>1, <2>2, <2>3, <2>4, <2>5, <2>6, <2>8, Known, MoveKeeps
<1>2. CASE ~(ladder /\ caller[c].op = "order")
  <2> DEFINE r == [caller[c] EXCEPT !.pc = "begin"]
  <2>1. caller' = [caller EXCEPT ![c] = r]
    BY <1>2 DEF GetLadder
  <2>2. r \in CallState
    <3>1. caller[c] \in CallState /\ 0 \in 0..MaxRetry /\ access \in Nat
      BY <1>2, Known
    <3> QED
      BY <3>1 DEF CallState
  <2>3. auth' \in {c, Nobody} /\ auth \in {c, Nobody} /\ auth' = c
    BY <1>2 DEF GetLadder, Free
  <2>4. Supply(c) /\ closed' = closed /\ ladder' \in BOOLEAN
    BY <1>2, Known DEF GetLadder, Supply
  <2>5. done' = done
    BY <1>2 DEF GetLadder
  <2>6. /\ done' \in [Caller -> [sent : Nat, carried : Nat, rejected : SUBSET Nat]]
        /\ done'[c] = done[c]
    BY <2>5, Known
  <2>7. caller'[c] = r
    BY <2>1, Known
  <2>8. Good(c)'
    <3>1. Good(c) /\ caller[c].token \in Nat /\ access = issued /\ issued \in Nat
            /\ done[c].rejected \in SUBSET Nat /\ c # Nobody
      BY Known
    <3>2. caller[c].pc = "ladder"
      BY <1>2 DEF GetLadder
    <3>3. UNCHANGED <<access, due, issued>>
      BY <1>2 DEF GetLadder, tokens, server
    <3>4. Holding(c)' => auth' = c
      BY <1>2, <3>1, <3>2, <3>3, <2>3, <2>6, <2>7 DEF Good, Holding
    <3>5. ReasonHolds(c)'
      BY <1>2, <3>1, <3>2, <3>3, <2>3, <2>6, <2>7 DEF Good, ReasonHolds, RejectedOlder
    <3>6. RejectedOlder(c)'
      BY <1>2, <3>1, <3>2, <3>3, <2>3, <2>6, <2>7 DEF Good, ReasonHolds, RejectedOlder
    <3>7. CarriedByEnd(c)'
      BY <1>2, <3>1, <3>2, <3>3, <2>3, <2>6, <2>7 DEF Good, CarriedByEnd
    <3> QED
      BY <3>4, <3>5, <3>6, <3>7 DEF Good
  <2> HIDE DEF r
  <2> QED
    BY <2>1, <2>2, <2>3, <2>4, <2>5, <2>6, <2>8, Known, MoveKeeps
<1> QED
  BY <1>1, <1>2 DEF GetLadder

\* A request begins, or finds the client closed.
LEMMA BeginRequestPreserves ==
    ASSUME IInv, NEW c \in Caller, BeginRequest(c)
    PROVE  IInv'
<1>1. CASE closed
  <2>1. End(c, "failed")
    BY <1>1, Known DEF BeginRequest
  <2>2. Supply(c) /\ closed' = closed /\ ladder' \in BOOLEAN
    BY <1>1, Known DEF BeginRequest, Supply, Good, Holding, tokens, server
  <2>3. /\ done' \in [Caller -> [sent : Nat, carried : Nat, rejected : SUBSET Nat]]
        /\ \A d \in Caller \ {c} : done'[d] = done[d]
        /\ done'[c].carried \in {0, 1}
    BY <1>1, Known DEF BeginRequest, Good, CarriedByEnd
  <2> QED
    BY <1>1, <2>1, <2>2, <2>3, Known, EndKeeps DEF BeginRequest, Good, CarriedByEnd,
       ReasonHolds
<1>2. CASE ~closed
  <2> DEFINE r == [caller[c] EXCEPT !.pc = IF caller[c].retry_auth /\ ~Preflight(c)
                         THEN "ensure" ELSE "acquire"]
  <2>1. caller' = [caller EXCEPT ![c] = r]
    BY <1>2 DEF BeginRequest
  <2>2. r \in CallState
    <3>1. caller[c] \in CallState /\ 0 \in 0..MaxRetry /\ access \in Nat
      BY <1>2, Known
    <3> QED
      BY <3>1 DEF CallState
  <2>3. auth' = auth
    BY <1>2 DEF BeginRequest
  <2>4. Supply(c) /\ closed' = closed /\ ladder' \in BOOLEAN
    BY <1>2, Known DEF BeginRequest, Supply
  <2>5. done' = done
    BY <1>2 DEF BeginRequest
  <2>6. /\ done' \in [Caller -> [sent : Nat, carried : Nat, rejected : SUBSET Nat]]
        /\ done'[c] = done[c]
    BY <2>5, Known
  <2>7. caller'[c] = r
    BY <2>1, Known
  <2>8. Good(c)'
    <3>1. Good(c) /\ caller[c].token \in Nat /\ access = issued /\ issued \in Nat
            /\ done[c].rejected \in SUBSET Nat /\ c # Nobody
      BY Known
    <3>2. caller[c].pc = "begin"
      BY <1>2 DEF BeginRequest, Preflight
    <3>3. UNCHANGED <<access, due, issued>>
      BY <1>2 DEF BeginRequest, tokens, server
    <3>4. Holding(c)' => auth' = c
      BY <1>2, <3>1, <3>2, <3>3, <2>3, <2>6, <2>7 DEF Good, Holding, Preflight
    <3>5. ReasonHolds(c)'
      BY <1>2, <3>1, <3>2, <3>3, <2>3, <2>6, <2>7 DEF Good, ReasonHolds, RejectedOlder,
         Preflight
    <3>6. RejectedOlder(c)'
      BY <1>2, <3>1, <3>2, <3>3, <2>3, <2>6, <2>7 DEF Good, ReasonHolds, RejectedOlder,
         Preflight
    <3>7. CarriedByEnd(c)'
      BY <1>2, <3>1, <3>2, <3>3, <2>3, <2>6, <2>7 DEF Good, CarriedByEnd, Preflight
    <3> QED
      BY <3>4, <3>5, <3>6, <3>7 DEF Good
  <2> HIDE DEF r
  <2> QED
    BY <2>1, <2>2, <2>3, <2>4, <2>5, <2>6, <2>8, Known, MoveKeeps
<1> QED
  BY <1>1, <1>2 DEF BeginRequest

\* The token is looked at without the lock.
LEMMA EnsurePreserves ==
    ASSUME IInv, NEW c \in Caller, Ensure(c)
    PROVE  IInv'
<1> DEFINE r == [caller[c] EXCEPT !.pc = IF Fresh THEN Ensured(c) ELSE "lock"]
<1>1. caller' = [caller EXCEPT ![c] = r]
  BY DEF Ensure
<1>2. r \in CallState
  <2>1. caller[c] \in CallState /\ 0 \in 0..MaxRetry /\ access \in Nat
    BY Known
  <2>2. (IF Fresh THEN Ensured(c) ELSE "lock") \in {"begin", "acquire", "lock"}
    BY <2>1 DEF CallState, Ensured
  <2> QED
    BY <2>1, <2>2 DEF CallState
<1>3. auth' = auth
  BY DEF Ensure
<1>4. Supply(c) /\ closed' = closed /\ ladder' \in BOOLEAN
  BY Known DEF Ensure, Supply
<1>5. done' = done
  BY DEF Ensure
<1>6. /\ done' \in [Caller -> [sent : Nat, carried : Nat, rejected : SUBSET Nat]]
      /\ done'[c] = done[c]
  BY <1>5, Known
<1>7. caller'[c] = r
  BY <1>1, Known
<1>8. Good(c)'
  <2>1. Good(c) /\ caller[c].token \in Nat /\ access = issued /\ issued \in Nat
          /\ done[c].rejected \in SUBSET Nat /\ c # Nobody
    BY Known
  <2>2. caller[c].pc = "ensure"
    BY DEF Ensure, Ensured, Preflight
  <2>3. UNCHANGED <<access, due, issued>>
    BY DEF Ensure, tokens, server
  <2>4. Holding(c)' => auth' = c
    BY <2>1, <2>2, <2>3, <1>3, <1>6, <1>7 DEF Good, Holding, Ensured, Preflight
  <2>5. ReasonHolds(c)'
    BY <2>1, <2>2, <2>3, <1>3, <1>6, <1>7 DEF Good, ReasonHolds, RejectedOlder, Ensured,
       Preflight
  <2>6. RejectedOlder(c)'
    BY <2>1, <2>2, <2>3, <1>3, <1>6, <1>7 DEF Good, ReasonHolds, RejectedOlder, Ensured,
       Preflight
  <2>7. CarriedByEnd(c)'
    BY <2>1, <2>2, <2>3, <1>3, <1>6, <1>7 DEF Good, CarriedByEnd, Ensured, Preflight
  <2> QED
    BY <2>4, <2>5, <2>6, <2>7 DEF Good
<1> HIDE DEF r
<1> QED
  BY <1>1, <1>2, <1>3, <1>4, <1>5, <1>6, <1>8, Known, MoveKeeps

\* The token is looked at with the lock.
LEMMA EnsureLockedPreserves ==
    ASSUME IInv, NEW c \in Caller, EnsureLocked(c)
    PROVE  IInv'
<1>1. CASE Fresh
  <2> DEFINE r == [caller[c] EXCEPT !.pc = Ensured(c)]
  <2>1. caller' = [caller EXCEPT ![c] = r]
    BY <1>1 DEF EnsureLocked
  <2>2. r \in CallState
    <3>1. caller[c] \in CallState /\ 0 \in 0..MaxRetry /\ access \in Nat
      BY <1>1, Known
    <3>2. Ensured(c) \in {"begin", "acquire"}
      BY <3>1 DEF CallState, Ensured
    <3> QED
      BY <3>1, <3>2 DEF CallState
  <2>3. auth' = auth
    BY <1>1 DEF EnsureLocked
  <2>4. Supply(c) /\ closed' = closed /\ ladder' \in BOOLEAN
    BY <1>1, Known DEF EnsureLocked, Supply
  <2>5. done' = done
    BY <1>1 DEF EnsureLocked
  <2>6. /\ done' \in [Caller -> [sent : Nat, carried : Nat, rejected : SUBSET Nat]]
        /\ done'[c] = done[c]
    BY <2>5, Known
  <2>7. caller'[c] = r
    BY <2>1, Known
  <2>8. Good(c)'
    <3>1. Good(c) /\ caller[c].token \in Nat /\ access = issued /\ issued \in Nat
            /\ done[c].rejected \in SUBSET Nat /\ c # Nobody
      BY Known
    <3>2. caller[c].pc = "lock"
      BY <1>1 DEF EnsureLocked, Ensured, Preflight
    <3>3. UNCHANGED <<access, due, issued>>
      BY <1>1 DEF EnsureLocked, tokens, server
    <3>4. Holding(c)' => auth' = c
      BY <1>1, <3>1, <3>2, <3>3, <2>3, <2>6, <2>7 DEF Good, Holding, Ensured, Preflight
    <3>5. ReasonHolds(c)'
      BY <1>1, <3>1, <3>2, <3>3, <2>3, <2>6, <2>7 DEF Good, ReasonHolds, RejectedOlder,
         Ensured, Preflight
    <3>6. RejectedOlder(c)'
      BY <1>1, <3>1, <3>2, <3>3, <2>3, <2>6, <2>7 DEF Good, ReasonHolds, RejectedOlder,
         Ensured, Preflight
    <3>7. CarriedByEnd(c)'
      BY <1>1, <3>1, <3>2, <3>3, <2>3, <2>6, <2>7 DEF Good, CarriedByEnd, Ensured, Preflight
    <3> QED
      BY <3>4, <3>5, <3>6, <3>7 DEF Good
  <2> HIDE DEF r
  <2> QED
    BY <2>1, <2>2, <2>3, <2>4, <2>5, <2>6, <2>8, Known, MoveKeeps
<1>2. CASE ~Fresh
  <2> DEFINE r == [caller[c] EXCEPT !.pc = "renew",
                   !.renewal = IF access # 0 THEN "refresh" ELSE "login", !.why = "ensure",
                   !.retries = 0]
  <2>1. caller' = [caller EXCEPT ![c] = r]
    BY <1>2 DEF EnsureLocked, Renew
  <2>2. r \in CallState
    <3>1. caller[c] \in CallState /\ 0 \in 0..MaxRetry /\ access \in Nat
      BY <1>2, Known
    <3>2. (IF access # 0 THEN "refresh" ELSE "login") \in {"refresh", "login"}
      BY <3>1 DEF CallState
    <3> QED
      BY ZenonT(60), <3>1, <3>2 DEF CallState
  <2>3. auth' \in {c, Nobody} /\ auth \in {c, Nobody} /\ auth' = c
    BY <1>2 DEF EnsureLocked, Free, Renew
  <2>4. Supply(c) /\ closed' = closed /\ ladder' \in BOOLEAN
    BY <1>2, Known DEF EnsureLocked, Supply
  <2>5. done' = done
    BY <1>2 DEF EnsureLocked, Renew
  <2>6. /\ done' \in [Caller -> [sent : Nat, carried : Nat, rejected : SUBSET Nat]]
        /\ done'[c] = done[c]
    BY <2>5, Known
  <2>7. caller'[c] = r
    BY <2>1, Known
  <2>8. Good(c)'
    <3>1. Good(c) /\ caller[c].token \in Nat /\ access = issued /\ issued \in Nat
            /\ done[c].rejected \in SUBSET Nat /\ c # Nobody
      BY Known
    <3>2. caller[c].pc = "lock"
      BY <1>2 DEF EnsureLocked, Fresh, Renew
    <3>3. UNCHANGED <<access, due, issued>>
      BY <1>2 DEF EnsureLocked, tokens, server
    <3>4. Holding(c)' => auth' = c
      BY <1>2, <3>1, <3>2, <3>3, <2>3, <2>6, <2>7 DEF Good, Holding, Fresh
    <3>5. ReasonHolds(c)'
      BY <1>2, <3>1, <3>2, <3>3, <2>3, <2>6, <2>7 DEF Good, ReasonHolds, RejectedOlder,
         Fresh
    <3>6. RejectedOlder(c)'
      BY <1>2, <3>1, <3>2, <3>3, <2>3, <2>6, <2>7 DEF Good, ReasonHolds, RejectedOlder,
         Fresh
    <3>7. CarriedByEnd(c)'
      BY <1>2, <3>1, <3>2, <3>3, <2>3, <2>6, <2>7 DEF Good, CarriedByEnd, Fresh
    <3> QED
      BY <3>4, <3>5, <3>6, <3>7 DEF Good
  <2> HIDE DEF r
  <2> QED
    BY <2>1, <2>2, <2>3, <2>4, <2>5, <2>6, <2>8, Known, MoveKeeps
<1> QED
  BY <1>1, <1>2 DEF EnsureLocked

\* A token that was rejected is renewed, or was already.
LEMMA RenewRejectedPreserves ==
    ASSUME IInv, NEW c \in Caller, RenewRejected(c)
    PROVE  IInv'
<1>1. CASE access # caller[c].token
  <2> DEFINE r == [caller[c] EXCEPT !.pc = "begin", !.retry_auth = FALSE, !.retries = 0,
                   !.renewal = "none", !.why = "none"]
  <2>1. caller' = [caller EXCEPT ![c] = r]
    BY <1>1 DEF RenewRejected, Again
  <2>2. r \in CallState
    <3>1. caller[c] \in CallState /\ 0 \in 0..MaxRetry /\ access \in Nat
      BY <1>1, Known
    <3> QED
      BY ZenonT(60), <3>1 DEF CallState
  <2>3. auth' = auth
    BY <1>1 DEF RenewRejected, Again
  <2>4. Supply(c) /\ closed' = closed /\ ladder' \in BOOLEAN
    BY <1>1, Known DEF RenewRejected, Supply
  <2>5. done' = done
    BY <1>1 DEF RenewRejected, Again
  <2>6. /\ done' \in [Caller -> [sent : Nat, carried : Nat, rejected : SUBSET Nat]]
        /\ done'[c] = done[c]
    BY <2>5, Known
  <2>7. caller'[c] = r
    BY <2>1, Known
  <2>8. Good(c)'
    <3>1. Good(c) /\ caller[c].token \in Nat /\ access = issued /\ issued \in Nat
            /\ done[c].rejected \in SUBSET Nat /\ c # Nobody
      BY Known
    <3>2. caller[c].pc = "rejected"
      BY <1>1 DEF RenewRejected, Again
    <3>3. UNCHANGED <<access, due, issued>>
      BY <1>1 DEF RenewRejected, tokens, server
    <3>4. Holding(c)' => auth' = c
      BY <1>1, <3>1, <3>2, <3>3, <2>3, <2>6, <2>7 DEF Good, Holding
    <3>5. ReasonHolds(c)'
      BY <1>1, <3>1, <3>2, <3>3, <2>3, <2>6, <2>7 DEF Good, ReasonHolds, RejectedOlder
    <3>6. RejectedOlder(c)'
      BY <1>1, <3>1, <3>2, <3>3, <2>3, <2>6, <2>7 DEF Good, ReasonHolds, RejectedOlder
    <3>7. CarriedByEnd(c)'
      BY <1>1, <3>1, <3>2, <3>3, <2>3, <2>6, <2>7 DEF Good, CarriedByEnd
    <3> QED
      BY <3>4, <3>5, <3>6, <3>7 DEF Good
  <2> HIDE DEF r
  <2> QED
    BY <2>1, <2>2, <2>3, <2>4, <2>5, <2>6, <2>8, Known, MoveKeeps
<1>2. CASE access = caller[c].token
  <2> DEFINE r == [caller[c] EXCEPT !.pc = "renew",
                   !.renewal = "refresh", !.why = "rejected",
                   !.retries = 0]
  <2>1. caller' = [caller EXCEPT ![c] = r]
    BY <1>2 DEF RenewRejected, Renew
  <2>2. r \in CallState
    <3>1. caller[c] \in CallState /\ 0 \in 0..MaxRetry /\ access \in Nat
      BY <1>2, Known
    <3> QED
      BY ZenonT(60), <3>1 DEF CallState
  <2>3. auth' \in {c, Nobody} /\ auth \in {c, Nobody} /\ auth' = c
    BY <1>2 DEF RenewRejected, Free, Renew
  <2>4. Supply(c) /\ closed' = closed /\ ladder' \in BOOLEAN
    BY <1>2, Known DEF RenewRejected, Supply
  <2>5. done' = done
    BY <1>2 DEF RenewRejected, Renew
  <2>6. /\ done' \in [Caller -> [sent : Nat, carried : Nat, rejected : SUBSET Nat]]
        /\ done'[c] = done[c]
    BY <2>5, Known
  <2>7. caller'[c] = r
    BY <2>1, Known
  <2>8. Good(c)'
    <3>1. Good(c) /\ caller[c].token \in Nat /\ access = issued /\ issued \in Nat
            /\ done[c].rejected \in SUBSET Nat /\ c # Nobody
      BY Known
    <3>2. caller[c].pc = "rejected" /\ caller[c].retry_auth
          /\ done[c].rejected = {caller[c].token}
      BY <1>2, Known DEF RenewRejected, Renew, Good, RejectedOlder
    <3>3. UNCHANGED <<access, due, issued>>
      BY <1>2 DEF RenewRejected, tokens, server
    <3>4. Holding(c)' => auth' = c
      BY <1>2, <3>1, <3>2, <3>3, <2>3, <2>6, <2>7 DEF Good, Holding
    <3>5. ReasonHolds(c)'
      BY <1>2, <3>1, <3>2, <3>3, <2>3, <2>6, <2>7 DEF Good, ReasonHolds, RejectedOlder
    <3>6. RejectedOlder(c)'
      BY <1>2, <3>1, <3>2, <3>3, <2>3, <2>6, <2>7 DEF Good, ReasonHolds, RejectedOlder
    <3>7. CarriedByEnd(c)'
      BY <1>2, <3>1, <3>2, <3>3, <2>3, <2>6, <2>7 DEF Good, CarriedByEnd
    <3> QED
      BY <3>4, <3>5, <3>6, <3>7 DEF Good
  <2> HIDE DEF r
  <2> QED
    BY <2>1, <2>2, <2>3, <2>4, <2>5, <2>6, <2>8, Known, MoveKeeps
<1> QED
  BY <1>1, <1>2 DEF RenewRejected

\* A renewal is sent.
LEMMA SendRenewalPreserves ==
    ASSUME IInv, NEW c \in Caller, SendRenewal(c)
    PROVE  IInv'
<1>1. CASE closed
  <2>1. End(c, "failed")
    BY <1>1, Known DEF SendRenewal
  <2>2. Supply(c) /\ closed' = closed /\ ladder' \in BOOLEAN
    BY <1>1, Known DEF SendRenewal, Supply, Good, Holding, tokens, server
  <2>3. /\ done' \in [Caller -> [sent : Nat, carried : Nat, rejected : SUBSET Nat]]
        /\ \A d \in Caller \ {c} : done'[d] = done[d]
        /\ done'[c].carried \in {0, 1}
    BY <1>1, Known DEF SendRenewal, Good, CarriedByEnd
  <2> QED
    BY <1>1, <2>1, <2>2, <2>3, Known, EndKeeps DEF SendRenewal, Good, CarriedByEnd,
       ReasonHolds
<1>2. CASE ~closed
  <2> DEFINE r == [caller[c] EXCEPT !.pc = "renewing"]
  <2>1. caller' = [caller EXCEPT ![c] = r]
    BY <1>2 DEF SendRenewal
  <2>2. r \in CallState
    <3>1. caller[c] \in CallState /\ 0 \in 0..MaxRetry /\ access \in Nat
      BY <1>2, Known
    <3> QED
      BY <3>1 DEF CallState
  <2>3. auth' = auth
    BY <1>2 DEF SendRenewal
  <2>4. Supply(c) /\ closed' = closed /\ ladder' \in BOOLEAN
    BY <1>2, Known DEF SendRenewal, Supply
  <2>5. done' = done
    BY <1>2 DEF SendRenewal
  <2>6. /\ done' \in [Caller -> [sent : Nat, carried : Nat, rejected : SUBSET Nat]]
        /\ done'[c] = done[c]
    BY <2>5, Known
  <2>7. caller'[c] = r
    BY <2>1, Known
  <2>8. Good(c)'
    <3>1. Good(c) /\ caller[c].token \in Nat /\ access = issued /\ issued \in Nat
            /\ done[c].rejected \in SUBSET Nat /\ c # Nobody
      BY Known
    <3>2. caller[c].pc = "renew"
      BY <1>2 DEF SendRenewal
    <3>3. UNCHANGED <<access, due, issued>>
      BY <1>2 DEF SendRenewal, tokens, server
    <3>4. Holding(c)' => auth' = c
      BY <1>2, <3>1, <3>2, <3>3, <2>3, <2>6, <2>7 DEF Good, Holding
    <3>5. ReasonHolds(c)'
      BY <1>2, <3>1, <3>2, <3>3, <2>3, <2>6, <2>7 DEF Good, ReasonHolds, RejectedOlder
    <3>6. RejectedOlder(c)'
      BY <1>2, <3>1, <3>2, <3>3, <2>3, <2>6, <2>7 DEF Good, ReasonHolds, RejectedOlder
    <3>7. CarriedByEnd(c)'
      BY <1>2, <3>1, <3>2, <3>3, <2>3, <2>6, <2>7 DEF Good, CarriedByEnd
    <3> QED
      BY <3>4, <3>5, <3>6, <3>7 DEF Good
  <2> HIDE DEF r
  <2> QED
    BY <2>1, <2>2, <2>3, <2>4, <2>5, <2>6, <2>8, Known, MoveKeeps
<1> QED
  BY <1>1, <1>2 DEF SendRenewal

\* A token is issued.
LEMMA RenewedPreserves ==
    ASSUME IInv, NEW c \in Caller, Renewed(c)
    PROVE  IInv'
<1>1. CASE caller[c].why = "call"
  <2>1. End(c, "ok")
    BY <1>1, Known DEF Renewed
  <2>2. Supply(c) /\ closed' = closed /\ ladder' \in BOOLEAN
    BY <1>1, Known DEF Renewed, Supply, Good, Holding, tokens, server
  <2>3. /\ done' \in [Caller -> [sent : Nat, carried : Nat, rejected : SUBSET Nat]]
        /\ \A d \in Caller \ {c} : done'[d] = done[d]
        /\ done'[c].carried \in {0, 1}
    BY <1>1, Known DEF Renewed, Good, CarriedByEnd
  <2> QED
    BY <1>1, <2>1, <2>2, <2>3, Known, EndKeeps DEF Renewed, Good, CarriedByEnd, ReasonHolds
<1>2. CASE caller[c].why = "rejected"
  <2> DEFINE r == [caller[c] EXCEPT !.pc = "begin", !.retry_auth = FALSE, !.retries = 0,
                   !.renewal = "none", !.why = "none"]
  <2>1. caller' = [caller EXCEPT ![c] = r]
    BY <1>2 DEF Renewed, Again, Release
  <2>2. r \in CallState
    <3>1. caller[c] \in CallState /\ 0 \in 0..MaxRetry /\ access \in Nat
      BY <1>2, Known
    <3> QED
      BY <3>1 DEF CallState
  <2>3. auth' \in {c, Nobody} /\ auth \in {c, Nobody}
    BY <1>2, Known DEF Renewed, Free, Good, Holding, Again, Release
  <2>4. Supply(c) /\ closed' = closed /\ ladder' \in BOOLEAN
    BY <1>2, Known DEF Renewed, Supply, Holding, Good
  <2>5. done' = done
    BY <1>2 DEF Renewed, Again, Release
  <2>6. /\ done' \in [Caller -> [sent : Nat, carried : Nat, rejected : SUBSET Nat]]
        /\ done'[c] = done[c]
    BY <2>5, Known
  <2>7. caller'[c] = r
    BY <2>1, Known
  <2>8. Good(c)'
    <3>1. Good(c) /\ caller[c].token \in Nat /\ access = issued /\ issued \in Nat
            /\ done[c].rejected \in SUBSET Nat /\ c # Nobody
      BY Known
    <3>2. caller[c].pc = "renewing" /\ (caller[c].stage = "ladder" => auth' = auth)
      BY <1>2 DEF Renewed, Again, Release
    <3>3. access' = issued + 1 /\ issued' = issued + 1
      BY <1>2, Known DEF Renewed, tokens, server
    <3>4. Holding(c)' => auth' = c
      BY <1>2, <3>1, <3>2, <3>3, <2>3, <2>6, <2>7 DEF Good, Holding
    <3>5. ReasonHolds(c)'
      BY <1>2, <3>1, <3>2, <3>3, <2>3, <2>6, <2>7 DEF Good, ReasonHolds, RejectedOlder
    <3>6. RejectedOlder(c)'
      BY <1>2, <3>1, <3>2, <3>3, <2>3, <2>6, <2>7 DEF Good, ReasonHolds, RejectedOlder
    <3>7. CarriedByEnd(c)'
      BY <1>2, <3>1, <3>2, <3>3, <2>3, <2>6, <2>7 DEF Good, CarriedByEnd
    <3> QED
      BY <3>4, <3>5, <3>6, <3>7 DEF Good
  <2> HIDE DEF r
  <2> QED
    BY <2>1, <2>2, <2>3, <2>4, <2>5, <2>6, <2>8, Known, MoveKeeps
<1>3. CASE caller[c].why = "ensure"
  <2> DEFINE r == [caller[c] EXCEPT !.pc = Ensured(c), !.retries = 0, !.renewal = "none",
                   !.why = "none"]
  <2>1. caller' = [caller EXCEPT ![c] = r]
    BY <1>3 DEF Renewed, Release
  <2>2. r \in CallState
    <3>1. caller[c] \in CallState /\ 0 \in 0..MaxRetry /\ access \in Nat
      BY <1>3, Known
    <3>2. Ensured(c) \in {"begin", "acquire"}
      BY <3>1 DEF CallState, Ensured
    <3> QED
      BY ZenonT(60), <3>1, <3>2 DEF CallState
  <2>3. auth' \in {c, Nobody} /\ auth \in {c, Nobody}
    BY <1>3, Known DEF Renewed, Free, Good, Holding, Release
  <2>4. Supply(c) /\ closed' = closed /\ ladder' \in BOOLEAN
    BY <1>3, Known DEF Renewed, Supply, Holding, Good
  <2>5. done' = done
    BY <1>3 DEF Renewed, Release
  <2>6. /\ done' \in [Caller -> [sent : Nat, carried : Nat, rejected : SUBSET Nat]]
        /\ done'[c] = done[c]
    BY <2>5, Known
  <2>7. caller'[c] = r
    BY <2>1, Known
  <2>8. Good(c)'
    <3>1. Good(c) /\ caller[c].token \in Nat /\ access = issued /\ issued \in Nat
            /\ done[c].rejected \in SUBSET Nat /\ c # Nobody
      BY Known
    <3>2. caller[c].pc = "renewing" /\ (caller[c].stage = "ladder" => auth' = auth)
      BY <1>3 DEF Renewed, Ensured, Preflight, Release
    <3>3. access' = issued + 1 /\ issued' = issued + 1
      BY <1>3, Known DEF Renewed, tokens, server
    <3>4. Holding(c)' => auth' = c
      BY <1>3, <3>1, <3>2, <3>3, <2>3, <2>6, <2>7 DEF Good, Holding, Ensured, Preflight
    <3>5. ReasonHolds(c)'
      BY <1>3, <3>1, <3>2, <3>3, <2>3, <2>6, <2>7 DEF Good, ReasonHolds, RejectedOlder,
         Ensured, Preflight
    <3>6. RejectedOlder(c)'
      BY <1>3, <3>1, <3>2, <3>3, <2>3, <2>6, <2>7 DEF Good, ReasonHolds, RejectedOlder,
         Ensured, Preflight
    <3>7. CarriedByEnd(c)'
      BY <1>3, <3>1, <3>2, <3>3, <2>3, <2>6, <2>7 DEF Good, CarriedByEnd, Ensured, Preflight
    <3> QED
      BY <3>4, <3>5, <3>6, <3>7 DEF Good
  <2> HIDE DEF r
  <2> QED
    BY <2>1, <2>2, <2>3, <2>4, <2>5, <2>6, <2>8, Known, MoveKeeps
<1> QED
  BY <1>1, <1>2, <1>3 DEF Renewed

\* A renewal is rejected.
LEMMA RenewalRejectedPreserves ==
    ASSUME IInv, NEW c \in Caller, RenewalRejected(c)
    PROVE  IInv'
<1>1. CASE ~(caller[c].renewal = "refresh" /\ caller[c].why # "call")
  <2>1. End(c, "failed")
    BY <1>1, Known DEF RenewalRejected
  <2>2. Supply(c) /\ closed' = closed /\ ladder' \in BOOLEAN
    BY <1>1, Known DEF RenewalRejected, Supply, Good, Holding, tokens, server
  <2>3. /\ done' \in [Caller -> [sent : Nat, carried : Nat, rejected : SUBSET Nat]]
        /\ \A d \in Caller \ {c} : done'[d] = done[d]
        /\ done'[c].carried \in {0, 1}
    BY <1>1, Known DEF RenewalRejected, Good, CarriedByEnd
  <2> QED
    BY <1>1, <2>1, <2>2, <2>3, Known, EndKeeps DEF RenewalRejected, Good, CarriedByEnd,
       ReasonHolds
<1>2. CASE caller[c].renewal = "refresh" /\ caller[c].why # "call"
  <2> DEFINE r == [caller[c] EXCEPT !.pc = "renew", !.renewal = "login", !.retries = 0]
  <2>1. caller' = [caller EXCEPT ![c] = r]
    BY <1>2 DEF RenewalRejected
  <2>2. r \in CallState
    <3>1. caller[c] \in CallState /\ 0 \in 0..MaxRetry /\ access \in Nat
      BY <1>2, Known
    <3> QED
      BY ZenonT(60), <3>1 DEF CallState
  <2>3. auth' = auth
    BY <1>2 DEF RenewalRejected
  <2>4. Supply(c) /\ closed' = closed /\ ladder' \in BOOLEAN
    BY <1>2, Known DEF RenewalRejected, Supply
  <2>5. done' = done
    BY <1>2 DEF RenewalRejected
  <2>6. /\ done' \in [Caller -> [sent : Nat, carried : Nat, rejected : SUBSET Nat]]
        /\ done'[c] = done[c]
    BY <2>5, Known
  <2>7. caller'[c] = r
    BY <2>1, Known
  <2>8. Good(c)'
    <3>1. Good(c) /\ caller[c].token \in Nat /\ access = issued /\ issued \in Nat
            /\ done[c].rejected \in SUBSET Nat /\ c # Nobody
      BY Known
    <3>2. caller[c].pc = "renewing"
      BY <1>2 DEF RenewalRejected
    <3>3. UNCHANGED <<access, due, issued>>
      BY <1>2 DEF RenewalRejected, tokens, server
    <3>4. Holding(c)' => auth' = c
      BY <1>2, <3>1, <3>2, <3>3, <2>3, <2>6, <2>7 DEF Good, Holding
    <3>5. ReasonHolds(c)'
      BY <1>2, <3>1, <3>2, <3>3, <2>3, <2>6, <2>7 DEF Good, ReasonHolds, RejectedOlder
    <3>6. RejectedOlder(c)'
      BY <1>2, <3>1, <3>2, <3>3, <2>3, <2>6, <2>7 DEF Good, ReasonHolds, RejectedOlder
    <3>7. CarriedByEnd(c)'
      BY <1>2, <3>1, <3>2, <3>3, <2>3, <2>6, <2>7 DEF Good, CarriedByEnd
    <3> QED
      BY <3>4, <3>5, <3>6, <3>7 DEF Good
  <2> HIDE DEF r
  <2> QED
    BY <2>1, <2>2, <2>3, <2>4, <2>5, <2>6, <2>8, Known, MoveKeeps
<1> QED
  BY <1>1, <1>2 DEF RenewalRejected

\* A renewal is to be made later.
LEMMA RenewalLimitedPreserves ==
    ASSUME IInv, NEW c \in Caller, RenewalLimited(c)
    PROVE  IInv'
<1>1. CASE ~(caller[c].retries < MaxRetry)
  <2>1. End(c, "failed")
    BY <1>1, Known DEF RenewalLimited
  <2>2. Supply(c) /\ closed' = closed /\ ladder' \in BOOLEAN
    BY <1>1, Known DEF RenewalLimited, Supply, Good, Holding, tokens, server
  <2>3. /\ done' \in [Caller -> [sent : Nat, carried : Nat, rejected : SUBSET Nat]]
        /\ \A d \in Caller \ {c} : done'[d] = done[d]
        /\ done'[c].carried \in {0, 1}
    BY <1>1, Known DEF RenewalLimited, Good, CarriedByEnd
  <2> QED
    BY <1>1, <2>1, <2>2, <2>3, Known, EndKeeps DEF RenewalLimited, Good, CarriedByEnd,
       ReasonHolds
<1>2. CASE caller[c].retries < MaxRetry
  <2> DEFINE r == [caller[c] EXCEPT !.pc = "renew", !.retries = caller[c].retries + 1]
  <2>1. caller' = [caller EXCEPT ![c] = r]
    BY <1>2 DEF RenewalLimited
  <2>2. r \in CallState
    <3>1. caller[c] \in CallState /\ 0 \in 0..MaxRetry /\ access \in Nat
          /\ caller[c].retries + 1 \in 0..MaxRetry
      BY <1>2, Known DEF CallState
    <3> QED
      BY ZenonT(60), <3>1 DEF CallState
  <2>3. auth' = auth
    BY <1>2 DEF RenewalLimited
  <2>4. Supply(c) /\ closed' = closed /\ ladder' \in BOOLEAN
    BY <1>2, Known DEF RenewalLimited, Supply
  <2>5. done' = done
    BY <1>2 DEF RenewalLimited
  <2>6. /\ done' \in [Caller -> [sent : Nat, carried : Nat, rejected : SUBSET Nat]]
        /\ done'[c] = done[c]
    BY <2>5, Known
  <2>7. caller'[c] = r
    BY <2>1, Known
  <2>8. Good(c)'
    <3>1. Good(c) /\ caller[c].token \in Nat /\ access = issued /\ issued \in Nat
            /\ done[c].rejected \in SUBSET Nat /\ c # Nobody
      BY Known
    <3>2. caller[c].pc = "renewing"
      BY <1>2 DEF RenewalLimited
    <3>3. UNCHANGED <<access, due, issued>>
      BY <1>2 DEF RenewalLimited, tokens, server
    <3>4. Holding(c)' => auth' = c
      BY <1>2, <3>1, <3>2, <3>3, <2>3, <2>6, <2>7 DEF Good, Holding
    <3>5. ReasonHolds(c)'
      BY <1>2, <3>1, <3>2, <3>3, <2>3, <2>6, <2>7 DEF Good, ReasonHolds, RejectedOlder
    <3>6. RejectedOlder(c)'
      BY <1>2, <3>1, <3>2, <3>3, <2>3, <2>6, <2>7 DEF Good, ReasonHolds, RejectedOlder
    <3>7. CarriedByEnd(c)'
      BY <1>2, <3>1, <3>2, <3>3, <2>3, <2>6, <2>7 DEF Good, CarriedByEnd
    <3> QED
      BY <3>4, <3>5, <3>6, <3>7 DEF Good
  <2> HIDE DEF r
  <2> QED
    BY <2>1, <2>2, <2>3, <2>4, <2>5, <2>6, <2>8, Known, MoveKeeps
<1> QED
  BY <1>1, <1>2 DEF RenewalLimited

\* A renewal fails.
LEMMA RenewalFailsPreserves ==
    ASSUME IInv, NEW c \in Caller, RenewalFails(c)
    PROVE  IInv'
<1>1. End(c, "failed")
  BY Known DEF RenewalFails
<1>2. Supply(c) /\ closed' = closed /\ ladder' \in BOOLEAN
  BY Known DEF RenewalFails, Supply, Good, Holding, tokens, server
<1>3. /\ done' \in [Caller -> [sent : Nat, carried : Nat, rejected : SUBSET Nat]]
      /\ \A d \in Caller \ {c} : done'[d] = done[d]
      /\ done'[c].carried \in {0, 1}
  BY Known DEF RenewalFails, Good, CarriedByEnd
<1> QED
  BY <1>1, <1>2, <1>3, Known, EndKeeps DEF RenewalFails, Good, CarriedByEnd, ReasonHolds

\* A request is sent.
LEMMA SendPreserves ==
    ASSUME IInv, NEW c \in Caller, Send(c)
    PROVE  IInv'
<1>1. CASE closed
  <2>1. End(c, "failed")
    BY <1>1, Known DEF Send
  <2>2. Supply(c) /\ closed' = closed /\ ladder' \in BOOLEAN
    BY <1>1, Known DEF Send, Supply, Good, Holding, tokens, server
  <2>3. /\ done' \in [Caller -> [sent : Nat, carried : Nat, rejected : SUBSET Nat]]
        /\ \A d \in Caller \ {c} : done'[d] = done[d]
        /\ done'[c].carried \in {0, 1}
    BY <1>1, Known DEF Send, Good, CarriedByEnd
  <2> QED
    BY <1>1, <2>1, <2>2, <2>3, Known, EndKeeps DEF Send, Good, CarriedByEnd, ReasonHolds
<1>2. CASE ~closed
  <2> DEFINE r == [caller[c] EXCEPT !.pc = "sent", !.token = access]
  <2>1. caller' = [caller EXCEPT ![c] = r]
    BY <1>2 DEF Send
  <2>2. r \in CallState
    <3>1. caller[c] \in CallState /\ 0 \in 0..MaxRetry /\ access \in Nat
      BY <1>2, Known
    <3> QED
      BY ZenonT(60), <3>1 DEF CallState
  <2>3. auth' = auth
    BY <1>2 DEF Send
  <2>4. Supply(c) /\ closed' = closed /\ ladder' \in BOOLEAN
    BY <1>2, Known DEF Send, Supply
  <2>5. done' = [done EXCEPT ![c] = [done[c] EXCEPT !.sent = done[c].sent + 1]]
    BY <1>2 DEF Send
  <2>6. /\ done' \in [Caller -> [sent : Nat, carried : Nat, rejected : SUBSET Nat]]
        /\ \A d \in Caller \ {c} : done'[d] = done[d]
        /\ done'[c] = [done[c] EXCEPT !.sent = done[c].sent + 1]
    BY <2>5, Known
  <2>7. caller'[c] = r
    BY <2>1, Known
  <2>8. Good(c)'
    <3>1. Good(c) /\ caller[c].token \in Nat /\ access = issued /\ issued \in Nat
            /\ done[c].rejected \in SUBSET Nat /\ c # Nobody
      BY Known
    <3>2. caller[c].pc = "acquire"
      BY <1>2 DEF Send
    <3>3. UNCHANGED <<access, due, issued>>
      BY <1>2 DEF Send, tokens, server
    <3>4. Holding(c)' => auth' = c
      BY <1>2, <3>1, <3>2, <3>3, <2>3, <2>6, <2>7 DEF Good, Holding
    <3>5. ReasonHolds(c)'
      BY <1>2, <3>1, <3>2, <3>3, <2>3, <2>6, <2>7 DEF Good, ReasonHolds, RejectedOlder
    <3>6. RejectedOlder(c)'
      BY <1>2, <3>1, <3>2, <3>3, <2>3, <2>6, <2>7 DEF Good, ReasonHolds, RejectedOlder
    <3>7. CarriedByEnd(c)'
      BY <1>2, <3>1, <3>2, <3>3, <2>3, <2>6, <2>7 DEF Good, CarriedByEnd
    <3> QED
      BY <3>4, <3>5, <3>6, <3>7 DEF Good
  <2> HIDE DEF r
  <2> QED
    BY <2>1, <2>2, <2>3, <2>4, <2>5, <2>6, <2>8, Known, MoveKeeps
<1> QED
  BY <1>1, <1>2 DEF Send

\* A good answer.
LEMMA SucceedsPreserves ==
    ASSUME IInv, NEW c \in Caller, Succeeds(c)
    PROVE  IInv'
<1>1. CASE ~(caller[c].op = "order" /\ caller[c].stage = "ladder")
  <2>1. End(c, "ok")
    BY <1>1 DEF Succeeds
  <2>2. Supply(c) /\ closed' = closed /\ ladder' \in BOOLEAN
    BY Known DEF Succeeds, Supply
  <2>3. caller[c].op \in {"order", "cancel"} => Mutates(c)
    BY <1>1, Known DEF Mutates, Good, CarriedByEnd, CallState
  <2>4. done[c].carried = 0
    BY Known DEF Succeeds, Good, CarriedByEnd
  <2>5. done' = [done EXCEPT ![c].carried = IF Mutates(c) THEN @ + 1 ELSE @]
    BY <1>1 DEF Succeeds, Carry
  <2>6. /\ done' \in [Caller -> [sent : Nat, carried : Nat, rejected : SUBSET Nat]]
        /\ \A d \in Caller \ {c} : done'[d] = done[d]
        /\ done'[c].carried = IF Mutates(c) THEN 1 ELSE 0
    BY <2>4, <2>5, Known
  <2>7. caller[c].op \notin {"order", "cancel"} => ~Mutates(c)
    BY DEF Mutates
  <2> QED
    BY <2>1, <2>2, <2>3, <2>6, <2>7, EndKeeps
<1>2. CASE caller[c].op = "order" /\ caller[c].stage = "ladder"
  <2> DEFINE r == [NoCall EXCEPT !.pc = "ensure", !.op = "order"]
  <2>1. caller' = [caller EXCEPT ![c] = r]
    BY <1>2 DEF Succeeds
  <2>2. r \in CallState
    <3>1. caller[c] \in CallState /\ 0 \in 0..MaxRetry /\ access \in Nat
      BY <1>2, Known
    <3> QED
      BY ZenonT(60), <3>1 DEF CallState, NoCall, Calls
  <2>3. auth' \in {c, Nobody} /\ auth \in {c, Nobody}
    BY <1>2, Known DEF Succeeds, Free, Good, Holding
  <2>4. Supply(c) /\ closed' = closed /\ ladder' \in BOOLEAN
    BY <1>2, Known DEF Succeeds, Supply
  <2>5. done' = [done EXCEPT ![c] = [done[c] EXCEPT !.sent = 0, !.rejected = {}]]
    BY <1>2 DEF Succeeds
  <2>6. /\ done' \in [Caller -> [sent : Nat, carried : Nat, rejected : SUBSET Nat]]
        /\ \A d \in Caller \ {c} : done'[d] = done[d]
        /\ done'[c] = [done[c] EXCEPT !.sent = 0, !.rejected = {}]
    BY <2>5, Known
  <2>7. caller'[c] = r
    BY <2>1, Known
  <2>8. Good(c)'
    <3>1. Good(c) /\ caller[c].token \in Nat /\ access = issued /\ issued \in Nat
            /\ done[c].rejected \in SUBSET Nat /\ c # Nobody
      BY Known
    <3>2. caller[c].pc = "sent"
      BY <1>2 DEF Succeeds, NoCall
    <3>3. UNCHANGED <<access, due, issued>>
      BY <1>2 DEF Succeeds, tokens, server
    <3>4. Holding(c)' => auth' = c
      BY <1>2, <3>1, <3>2, <3>3, <2>3, <2>6, <2>7 DEF Good, Holding, NoCall
    <3>5. ReasonHolds(c)'
      BY <1>2, <3>1, <3>2, <3>3, <2>3, <2>6, <2>7 DEF Good, ReasonHolds, RejectedOlder,
         NoCall
    <3>6. RejectedOlder(c)'
      BY <1>2, <3>1, <3>2, <3>3, <2>3, <2>6, <2>7 DEF Good, ReasonHolds, RejectedOlder,
         NoCall
    <3>7. CarriedByEnd(c)'
      BY <1>2, <3>1, <3>2, <3>3, <2>3, <2>6, <2>7 DEF Good, CarriedByEnd, NoCall
    <3> QED
      BY <3>4, <3>5, <3>6, <3>7 DEF Good
  <2> HIDE DEF r
  <2> QED
    BY <2>1, <2>2, <2>3, <2>4, <2>5, <2>6, <2>8, Known, MoveKeeps
<1> QED
  BY <1>1, <1>2 DEF Succeeds

\* A good answer that cannot be read.
LEMMA UnreadablePreserves ==
    ASSUME IInv, NEW c \in Caller, Unreadable(c)
    PROVE  IInv'
<1>1. End(c, IF Mutates(c) THEN "unknown" ELSE "failed")
  BY Known DEF Unreadable, RaiseUncertain, Carry, Mutates
<1>2. Supply(c) /\ closed' = closed /\ ladder' \in BOOLEAN
  BY Known DEF Unreadable, Supply, Good, Holding, tokens, server
<1>3. /\ done' \in [Caller -> [sent : Nat, carried : Nat, rejected : SUBSET Nat]]
      /\ \A d \in Caller \ {c} : done'[d] = done[d]
      /\ done'[c].carried \in {0, 1}
  BY Known DEF Unreadable, Good, CarriedByEnd, RaiseUncertain, Carry, Mutates
<1> QED
  BY <1>1, <1>2, <1>3, Known, EndKeeps DEF Unreadable, Good, CarriedByEnd, ReasonHolds,
     RaiseUncertain, Carry, Mutates

\* An answer that leaves the outcome open.
LEMMA BreaksPreserves ==
    ASSUME IInv, NEW c \in Caller, Breaks(c)
    PROVE  IInv'
<1>1. End(c, IF Mutates(c) THEN "unknown" ELSE "failed")
  BY Known DEF Breaks, RaiseUncertain, Carry, Mutates
<1>2. Supply(c) /\ closed' = closed /\ ladder' \in BOOLEAN
  BY Known DEF Breaks, Supply, Good, Holding, tokens, server
<1>3. /\ done' \in [Caller -> [sent : Nat, carried : Nat, rejected : SUBSET Nat]]
      /\ \A d \in Caller \ {c} : done'[d] = done[d]
      /\ done'[c].carried \in {0, 1}
  BY Known DEF Breaks, Good, CarriedByEnd, RaiseUncertain, Carry, Mutates
<1> QED
  BY <1>1, <1>2, <1>3, Known, EndKeeps DEF Breaks, Good, CarriedByEnd, ReasonHolds,
     RaiseUncertain, Carry, Mutates

\* A request is refused.
LEMMA RefusedPreserves ==
    ASSUME IInv, NEW c \in Caller, Refused(c)
    PROVE  IInv'
<1>1. End(c, "failed")
  BY Known DEF Refused
<1>2. Supply(c) /\ closed' = closed /\ ladder' \in BOOLEAN
  BY Known DEF Refused, Supply, Good, Holding, tokens, server
<1>3. /\ done' \in [Caller -> [sent : Nat, carried : Nat, rejected : SUBSET Nat]]
      /\ \A d \in Caller \ {c} : done'[d] = done[d]
      /\ done'[c].carried \in {0, 1}
  BY Known DEF Refused, Good, CarriedByEnd
<1> QED
  BY <1>1, <1>2, <1>3, Known, EndKeeps DEF Refused, Good, CarriedByEnd, ReasonHolds

\* A request is rejected.
LEMMA RejectedPreserves ==
    ASSUME IInv, NEW c \in Caller, Rejected(c)
    PROVE  IInv'
<1>1. CASE ~caller[c].retry_auth
  <2>1. End(c, "failed")
    BY <1>1, Known DEF Rejected
  <2>2. Supply(c) /\ closed' = closed /\ ladder' \in BOOLEAN
    BY <1>1, Known DEF Rejected, Supply, Good, Holding, tokens, server
  <2>3. /\ done' \in [Caller -> [sent : Nat, carried : Nat, rejected : SUBSET Nat]]
        /\ \A d \in Caller \ {c} : done'[d] = done[d]
        /\ done'[c].carried \in {0, 1}
    BY <1>1, Known DEF Rejected, Good, CarriedByEnd
  <2> QED
    BY <1>1, <2>1, <2>2, <2>3, Known, EndKeeps DEF Rejected, Good, CarriedByEnd, ReasonHolds
<1>2. CASE caller[c].retry_auth
  <2> DEFINE r == [caller[c] EXCEPT !.pc = "rejected"]
  <2>1. caller' = [caller EXCEPT ![c] = r]
    BY <1>2 DEF Rejected
  <2>2. r \in CallState
    <3>1. caller[c] \in CallState /\ 0 \in 0..MaxRetry /\ access \in Nat
      BY <1>2, Known
    <3> QED
      BY <3>1 DEF CallState
  <2>3. auth' = auth
    BY <1>2 DEF Rejected
  <2>4. Supply(c) /\ closed' = closed /\ ladder' \in BOOLEAN
    BY <1>2, Known DEF Rejected, Supply
  <2>5. done' = [done EXCEPT ![c] = [done[c] EXCEPT !.rejected = done[c].rejected \cup {caller[c].token}]]
    BY <1>2 DEF Rejected
  <2>6. /\ done' \in [Caller -> [sent : Nat, carried : Nat, rejected : SUBSET Nat]]
        /\ \A d \in Caller \ {c} : done'[d] = done[d]
        /\ done'[c] = [done[c] EXCEPT !.rejected = done[c].rejected \cup {caller[c].token}]
    BY <2>5, Known
  <2>7. caller'[c] = r
    BY <2>1, Known
  <2>8. Good(c)'
    <3>1. Good(c) /\ caller[c].token \in Nat /\ access = issued /\ issued \in Nat
            /\ done[c].rejected \in SUBSET Nat /\ c # Nobody
      BY Known
    <3>2. caller[c].pc = "sent"
      BY <1>2 DEF Rejected
    <3>3. UNCHANGED <<access, due, issued>>
      BY <1>2 DEF Rejected, tokens, server
    <3>4. Holding(c)' => auth' = c
      BY <1>2, <3>1, <3>2, <3>3, <2>3, <2>6, <2>7 DEF Good, Holding
    <3>5. ReasonHolds(c)'
      BY <1>2, <3>1, <3>2, <3>3, <2>3, <2>6, <2>7 DEF Good, ReasonHolds, RejectedOlder
    <3>6. RejectedOlder(c)'
      BY <1>2, <3>1, <3>2, <3>3, <2>3, <2>6, <2>7 DEF Good, ReasonHolds, RejectedOlder
    <3>7. CarriedByEnd(c)'
      BY <1>2, <3>1, <3>2, <3>3, <2>3, <2>6, <2>7 DEF Good, CarriedByEnd
    <3> QED
      BY <3>4, <3>5, <3>6, <3>7 DEF Good
  <2> HIDE DEF r
  <2> QED
    BY <2>1, <2>2, <2>3, <2>4, <2>5, <2>6, <2>8, Known, MoveKeeps
<1> QED
  BY <1>1, <1>2 DEF Rejected

\* A request is to be made later.
LEMMA LimitedPreserves ==
    ASSUME IInv, NEW c \in Caller, Limited(c)
    PROVE  IInv'
<1>1. CASE ~(~Mutates(c) /\ caller[c].retries < MaxRetry)
  <2>1. End(c, "failed")
    BY <1>1, Known DEF Limited
  <2>2. Supply(c) /\ closed' = closed /\ ladder' \in BOOLEAN
    BY <1>1, Known DEF Limited, Supply, Good, Holding, tokens, server
  <2>3. /\ done' \in [Caller -> [sent : Nat, carried : Nat, rejected : SUBSET Nat]]
        /\ \A d \in Caller \ {c} : done'[d] = done[d]
        /\ done'[c].carried \in {0, 1}
    BY <1>1, Known DEF Limited, Good, CarriedByEnd
  <2> QED
    BY <1>1, <2>1, <2>2, <2>3, Known, EndKeeps DEF Limited, Good, CarriedByEnd, ReasonHolds
<1>2. CASE ~Mutates(c) /\ caller[c].retries < MaxRetry
  <2> DEFINE r == [caller[c] EXCEPT !.pc = "acquire", !.retries = caller[c].retries + 1]
  <2>1. caller' = [caller EXCEPT ![c] = r]
    BY <1>2 DEF Limited
  <2>2. r \in CallState
    <3>1. caller[c] \in CallState /\ 0 \in 0..MaxRetry /\ access \in Nat
          /\ caller[c].retries + 1 \in 0..MaxRetry
      BY <1>2, Known DEF CallState
    <3> QED
      BY ZenonT(60), <3>1 DEF CallState
  <2>3. auth' = auth
    BY <1>2 DEF Limited
  <2>4. Supply(c) /\ closed' = closed /\ ladder' \in BOOLEAN
    BY <1>2, Known DEF Limited, Supply
  <2>5. done' = done
    BY <1>2 DEF Limited
  <2>6. /\ done' \in [Caller -> [sent : Nat, carried : Nat, rejected : SUBSET Nat]]
        /\ done'[c] = done[c]
    BY <2>5, Known
  <2>7. caller'[c] = r
    BY <2>1, Known
  <2>8. Good(c)'
    <3>1. Good(c) /\ caller[c].token \in Nat /\ access = issued /\ issued \in Nat
            /\ done[c].rejected \in SUBSET Nat /\ c # Nobody
      BY Known
    <3>2. caller[c].pc = "sent"
      BY <1>2 DEF Limited
    <3>3. UNCHANGED <<access, due, issued>>
      BY <1>2 DEF Limited, tokens, server
    <3>4. Holding(c)' => auth' = c
      BY <1>2, <3>1, <3>2, <3>3, <2>3, <2>6, <2>7 DEF Good, Holding
    <3>5. ReasonHolds(c)'
      BY <1>2, <3>1, <3>2, <3>3, <2>3, <2>6, <2>7 DEF Good, ReasonHolds, RejectedOlder
    <3>6. RejectedOlder(c)'
      BY <1>2, <3>1, <3>2, <3>3, <2>3, <2>6, <2>7 DEF Good, ReasonHolds, RejectedOlder
    <3>7. CarriedByEnd(c)'
      BY <1>2, <3>1, <3>2, <3>3, <2>3, <2>6, <2>7 DEF Good, CarriedByEnd
    <3> QED
      BY <3>4, <3>5, <3>6, <3>7 DEF Good
  <2> HIDE DEF r
  <2> QED
    BY <2>1, <2>2, <2>3, <2>4, <2>5, <2>6, <2>8, Known, MoveKeeps
<1> QED
  BY <1>1, <1>2 DEF Limited

\* What changes around the threads: the token falls due, the server drops a token, or
\* the client is closed.
LEMMA SurroundingsPreserve ==
    ASSUME IInv, Age \/ Close \/ (\E t \in accepted : Revoke(t))
    PROVE  IInv'
<1>1. UNCHANGED <<access, issued, auth, caller, done, ladder>>
  BY DEF Age, Close, Revoke, tokens, server
<1>2. due' \in BOOLEAN /\ closed' \in BOOLEAN /\ accepted' \subseteq accepted /\ (due => due')
  BY DEF Age, Close, Revoke, tokens, server, IInv, TypeOK
<1>3. TypeOK'
  BY <1>1, <1>2 DEF IInv, TypeOK
<1>4. ASSUME NEW d \in Caller PROVE Good(d)'
  <2>1. Good(d)
    BY DEF IInv
  <2>2. Holding(d)' => auth' = d
    BY <1>1, <2>1 DEF Good, Holding
  <2>3. ReasonHolds(d)'
    BY <1>1, <1>2, <2>1 DEF Good, ReasonHolds
  <2>4. RejectedOlder(d)'
    BY <1>1, <2>1 DEF Good, RejectedOlder
  <2>5. CarriedByEnd(d)'
    BY <1>1, <2>1 DEF Good, CarriedByEnd
  <2> QED
    BY <2>2, <2>3, <2>4, <2>5 DEF Good
<1> QED
  BY <1>1, <1>3, <1>4 DEF IInv

\* Every step preserves the invariant.
LEMMA NextPreserves == IInv /\ [Next]_vars => IInv'
<1> SUFFICES ASSUME IInv, [Next]_vars PROVE IInv'
  OBVIOUS
<1>1. ASSUME NEW c \in Caller, NEW op \in Call, Begin(c, op) PROVE IInv'
  BY <1>1, CallAssumption, BeginPreserves
<1>2. ASSUME NEW c \in Caller, Step(c) PROVE IInv'
  <2>1. CASE Explicit(c) \/ GetLadder(c) \/ BeginRequest(c)
    BY <2>1, ExplicitPreserves, GetLadderPreserves, BeginRequestPreserves
  <2>2. CASE Ensure(c) \/ EnsureLocked(c) \/ RenewRejected(c)
    BY <2>2, EnsurePreserves, EnsureLockedPreserves, RenewRejectedPreserves
  <2>3. CASE Renewing(c)
    BY <2>3, SendRenewalPreserves, RenewedPreserves, RenewalRejectedPreserves,
       RenewalLimitedPreserves, RenewalFailsPreserves DEF Renewing
  <2>4. CASE Send(c) \/ Succeeds(c) \/ Unreadable(c) \/ Breaks(c)
    BY <2>4, SendPreserves, SucceedsPreserves, UnreadablePreserves, BreaksPreserves
  <2>5. CASE Refused(c) \/ Rejected(c) \/ Limited(c)
    BY <2>5, RefusedPreserves, RejectedPreserves, LimitedPreserves
  <2> QED
    BY <1>2, <2>1, <2>2, <2>3, <2>4, <2>5 DEF Step, Answer
<1>3. CASE UNCHANGED vars
  <2>1. UNCHANGED <<access, due, ladder, closed, auth, caller, issued, accepted, done>>
    BY <1>3 DEF vars, tokens, server
  <2>2. TypeOK'
    BY <2>1 DEF IInv, TypeOK
  <2>3. ASSUME NEW d \in Caller PROVE Good(d)'
    BY <2>1 DEF IInv, Good, Holding, ReasonHolds, RejectedOlder, CarriedByEnd
  <2> QED
    BY <2>1, <2>2, <2>3 DEF IInv
<1> QED
  BY <1>1, <1>2, <1>3, SurroundingsPreserve DEF Next

\* The invariant holds in every reachable state.
THEOREM Invariance == Spec => []IInv
BY InitEstablishes, NextPreserves, PTL DEF Spec

\* Tokens, the lock and the calls are of the expected kinds, and no request is retried
\* more often than max_429_retries.
THEOREM TypeCorrect == Spec => []TypeOK
<1>1. IInv => TypeOK
  BY DEF IInv
<1> QED
  BY <1>1, Invariance, PTL

\* No order and no cancellation is carried out twice, whatever happens on its way
\* (_request).
THEOREM CarriedOnceCorrect == Spec => []CarriedOnce
<1>1. IInv => CarriedOnce
  <2> SUFFICES ASSUME IInv, NEW c \in Caller PROVE done[c].carried <= 1
    BY DEF CarriedOnce
  <2> QED
    BY Known DEF Good, CarriedByEnd
<1> QED
  BY <1>1, Invariance, PTL

\* outcome_unknown is missing only from errors after which nothing was carried out.
THEOREM OutcomeCorrect == Spec => []OutcomeTruthful
<1>1. IInv => OutcomeTruthful
  BY Known DEF OutcomeTruthful, Good, CarriedByEnd
<1> QED
  BY <1>1, Invariance, PTL

\* A request that is made again after a 401 carries a token that was not rejected.
THEOREM RetryCorrect == Spec => []RetryCarriesAnotherToken
<1>1. IInv => RetryCarriesAnotherToken
  <2> SUFFICES ASSUME IInv, NEW c \in Caller, At(c, "sent")
               PROVE  caller[c].token \notin done[c].rejected
    BY DEF RetryCarriesAnotherToken
  <2>1. Good(c) /\ caller[c].token \in Nat
    BY Known
  <2>2. CASE caller[c].retry_auth
    BY <2>1, <2>2 DEF Good, ReasonHolds, RejectedOlder
  <2>3. CASE ~caller[c].retry_auth
    BY <2>1, <2>3 DEF Good, RejectedOlder
  <2> QED
    BY <2>2, <2>3
<1> QED
  BY <1>1, Invariance, PTL

\* Of threads whose token was rejected or fell due, one renews it
\* (_refresh_after_401, _ensure_access_token).
THEOREM RenewalCorrect == Spec => RenewedWhenNeeded
<1> DEFINE Needed == \/ access = 0 \/ due
                     \/ \E c \in Caller : access \in done[c].rejected \/ caller[c].why = "call"
<1>1. ASSUME IInv, [Next]_vars, access' # access PROVE Needed
  <2>1. PICK c \in Caller : Renewed(c)
    <3>1. ~UNCHANGED tokens
      BY <1>1 DEF tokens
    <3> QED
      BY <1>1, <3>1 DEF Next, Step, Renewing, Answer, vars, tokens, Begin, Explicit,
         GetLadder, BeginRequest, Ensure, EnsureLocked, RenewRejected, SendRenewal,
         RenewalRejected, RenewalLimited, RenewalFails, Send, Succeeds, Unreadable,
         Breaks, Refused, Rejected, Limited, Age, Close, Revoke
  <2>2. ReasonHolds(c) /\ caller[c].pc = "renewing" /\ caller[c].why \in {"call", "rejected", "ensure"}
    BY <1>1, <2>1, Known DEF Renewed, Good
  <2> QED
    BY SMTT(30), <2>2 DEF ReasonHolds
<1>2. IInv /\ [Next]_vars => [access' # access => Needed]_vars
  BY <1>1
<1>3. []IInv /\ [][Next]_vars => [][access' # access => Needed]_vars
  BY <1>2, PTL
<1> QED
  BY <1>3, Invariance, PTL DEF Spec, RenewedWhenNeeded

\* Requests sent on the earlier side of a 401, and at most on each side.
Base(c) == IF caller[c].retry_auth THEN 0 ELSE IF Mutates(c) THEN 1 ELSE MaxRetry + 1
Most(c) == IF Mutates(c) THEN 1 ELSE MaxRetry + 1

\* Each request after the first of its side took a retry, and a renewal on the way
\* starts no count anew: its own retries are forgotten when it is over.
SendsCounted(c) ==
    /\ ~caller[c].retry_auth => done[c].rejected # {}
    /\ caller[c].pc \in {"idle", "explicit", "ladder", "begin", "ensure", "lock"} =>
          done[c].sent <= Base(c) /\ caller[c].retries = 0
    /\ caller[c].why \in {"call", "ensure"} => done[c].sent = 0 /\ caller[c].retry_auth
    /\ caller[c].pc = "acquire" => done[c].sent <= Base(c) + caller[c].retries
    /\ caller[c].pc = "sent" => done[c].sent <= Base(c) + caller[c].retries + 1
    /\ caller[c].pc \in {"acquire", "sent"} /\ Mutates(c) => caller[c].retries = 0
    /\ caller[c].pc = "rejected" \/ caller[c].why = "rejected" => done[c].sent <= Most(c)
    /\ caller[c].pc = "done" =>
          /\ done[c].sent <= 2 * Most(c)
          /\ Mutates(c) /\ done[c].sent = 2 => done[c].rejected # {}

\* What counting needs to know of c.
LEMMA Counted ==
    ASSUME IInv, NEW c \in Caller
    PROVE  /\ caller \in [Caller -> CallState]
           /\ done \in [Caller -> [sent : Nat, carried : Nat, rejected : SUBSET Nat]]
           /\ done[c].sent \in Nat /\ MaxRetry \in Nat
           /\ caller[c].retries \in 0..MaxRetry /\ caller[c].retry_auth \in BOOLEAN
           /\ caller[c].why \in {"none", "call", "ensure", "rejected"}
           /\ caller[c].pc \in {"renew", "renewing"} <=> caller[c].why # "none"
           /\ ~caller[c].retry_auth => caller[c].pc \in {"begin", "acquire", "sent"}
           /\ caller[c].pc = "rejected" => caller[c].retry_auth /\ done[c].rejected # {}
           /\ caller[c].why = "rejected" => done[c].rejected # {}
<1>1. Good(c) /\ caller[c] \in CallState
  BY Known
<1>2. caller[c].retries \in 0..MaxRetry /\ caller[c].retry_auth \in BOOLEAN
      /\ caller[c].why \in {"none", "call", "ensure", "rejected"}
  BY <1>1 DEF CallState
<1> QED
  BY <1>1, <1>2, Known DEF Good, ReasonHolds, RejectedOlder

\* Where c can be.
LEMMA CallPlaces ==
    ASSUME IInv, NEW c \in Caller
    PROVE  caller[c].pc \in {"idle", "explicit", "ladder", "begin", "ensure", "lock", "renew",
                             "renewing", "acquire", "sent", "rejected", "done"}
BY Known DEF CallState

\* A call ends after at most as many requests as it may make.
LEMMA EndCounts ==
    ASSUME IInv, NEW c \in Caller, NEW r \in {"ok", "failed", "unknown"}, SendsCounted(c),
           End(c, r), done'[c].sent = done[c].sent,
           done[c].rejected # {} => done'[c].rejected # {}
    PROVE  SendsCounted(c)'
<1>1. /\ caller'[c].pc = "done" /\ caller'[c].op = caller[c].op
      /\ caller'[c].stage = caller[c].stage /\ caller'[c].why = "none"
      /\ caller'[c].retry_auth
  BY Counted DEF End, NoCall
<1>2. Mutates(c)' = Mutates(c)
  BY <1>1 DEF Mutates
<1>3. /\ done[c].sent <= 2 * Most(c)
      /\ Mutates(c) /\ done[c].sent = 2 => done[c].rejected # {}
  BY Counted, CallPlaces DEF SendsCounted, Base, Most
<1> QED
  BY <1>1, <1>2, <1>3 DEF SendsCounted, Most

\* A call begins.
LEMMA BeginCounts ==
    ASSUME IInv, NEW c \in Caller, NEW op \in Calls, SendsCounted(c), Begin(c, op)
    PROVE  SendsCounted(c)'
BY Counted DEF Begin, NoCall, SendsCounted, Base, Most, Mutates, Calls

\* A renewal on demand begins.
LEMMA ExplicitCounts ==
    ASSUME IInv, NEW c \in Caller, SendsCounted(c), Explicit(c)
    PROVE  SendsCounted(c)'
BY Counted DEF Explicit, SendsCounted, Base, Most, Mutates

\* The ladder is known, or is asked for.
LEMMA GetLadderCounts ==
    ASSUME IInv, NEW c \in Caller, SendsCounted(c), GetLadder(c)
    PROVE  SendsCounted(c)'
<1>1. CASE ladder /\ caller[c].op = "order"
  <2>1. caller'[c] = [caller[c] EXCEPT !.stage = "main", !.pc = "ensure"] /\ done' = done
    BY <1>1, Counted DEF GetLadder
  <2> QED
    BY <2>1, Counted DEF GetLadder, SendsCounted, Base, Most, Mutates
<1>2. CASE ~(ladder /\ caller[c].op = "order")
  <2>1. caller'[c] = [caller[c] EXCEPT !.pc = "begin"] /\ done' = done
    BY <1>2, Counted DEF GetLadder
  <2> QED
    BY <2>1, Counted DEF GetLadder, SendsCounted, Base, Most, Mutates
<1> QED
  BY <1>1, <1>2

\* A request begins.
LEMMA BeginRequestCounts ==
    ASSUME IInv, NEW c \in Caller, SendsCounted(c), BeginRequest(c)
    PROVE  SendsCounted(c)'
<1>1. CASE End(c, "failed") /\ done' = done
  BY <1>1, EndCounts, Counted DEF BeginRequest
<1>2. CASE caller[c].retry_auth /\ ~Preflight(c) /\ Goto(c, "ensure") /\ done' = done
  <2>1. caller'[c] = [caller[c] EXCEPT !.pc = "ensure"] /\ done' = done
    BY <1>2, Counted DEF BeginRequest
  <2> QED
    BY <1>2, <2>1, Counted DEF BeginRequest, SendsCounted, Base, Most, Mutates
<1>3. CASE ~(caller[c].retry_auth /\ ~Preflight(c)) /\ Goto(c, "acquire") /\ done' = done
  <2>1. caller'[c] = [caller[c] EXCEPT !.pc = "acquire"] /\ done' = done
    BY <1>3, Counted DEF BeginRequest
  <2> QED
    BY <1>3, <2>1, Counted DEF BeginRequest, SendsCounted, Base, Most, Mutates
<1> QED
  BY <1>1, <1>2, <1>3 DEF BeginRequest

\* The token is looked at.
LEMMA EnsureCounts ==
    ASSUME IInv, NEW c \in Caller, SendsCounted(c), Ensure(c)
    PROVE  SendsCounted(c)'
BY Counted DEF Ensure, SendsCounted, Base, Most, Mutates, Ensured, Preflight

\* The token is looked at with the lock.
LEMMA EnsureLockedCounts ==
    ASSUME IInv, NEW c \in Caller, SendsCounted(c), EnsureLocked(c)
    PROVE  SendsCounted(c)'
<1>1. CASE Fresh /\ Preflight(c)
  <2>1. caller'[c] = [caller[c] EXCEPT !.pc = "begin"] /\ done' = done
    BY <1>1, Counted DEF EnsureLocked, Ensured, Renew
  <2> QED
    BY <1>1, <2>1, Counted DEF EnsureLocked, SendsCounted, Base, Most, Mutates
<1>2. CASE Fresh /\ ~Preflight(c)
  <2>1. caller'[c] = [caller[c] EXCEPT !.pc = "acquire"] /\ done' = done
    BY <1>2, Counted DEF EnsureLocked, Ensured, Renew
  <2> QED
    BY <1>2, <2>1, Counted DEF EnsureLocked, SendsCounted, Base, Most, Mutates
<1>3. CASE ~Fresh
  <2>1. caller'[c] = [caller[c] EXCEPT !.pc = "renew",
                  !.renewal = IF access # 0 THEN "refresh" ELSE "login",
                  !.why = "ensure", !.retries = 0] /\ done' = done
    BY <1>3, Counted DEF EnsureLocked, Ensured, Renew
  <2> QED
    BY <1>3, <2>1, Counted DEF EnsureLocked, SendsCounted, Base, Most, Mutates
<1> QED
  BY <1>1, <1>2, <1>3 DEF EnsureLocked

\* A rejected token is looked at.
LEMMA RenewRejectedCounts ==
    ASSUME IInv, NEW c \in Caller, SendsCounted(c), RenewRejected(c)
    PROVE  SendsCounted(c)'
<1>1. CASE access # caller[c].token
  <2>1. caller'[c] = [caller[c] EXCEPT !.pc = "begin", !.retry_auth = FALSE,
                  !.retries = 0, !.renewal = "none", !.why = "none"] /\ done' = done
    BY <1>1, Counted DEF RenewRejected, Again, Renew
  <2> QED
    BY <1>1, <2>1, Counted DEF RenewRejected, SendsCounted, Base, Most, Mutates
<1>2. CASE access = caller[c].token
  <2>1. caller'[c] = [caller[c] EXCEPT !.pc = "renew", !.renewal = "refresh", !.why = "rejected", !.retries = 0] /\ done' = done
    BY <1>2, Counted DEF RenewRejected, Again, Renew
  <2> QED
    BY <1>2, <2>1, Counted DEF RenewRejected, SendsCounted, Base, Most, Mutates
<1> QED
  BY <1>1, <1>2 DEF RenewRejected

\* A renewal is sent.
LEMMA SendRenewalCounts ==
    ASSUME IInv, NEW c \in Caller, SendsCounted(c), SendRenewal(c)
    PROVE  SendsCounted(c)'
<1>1. CASE closed
  BY <1>1, EndCounts, Counted DEF SendRenewal
<1>2. CASE ~closed
  <2>1. caller'[c] = [caller[c] EXCEPT !.pc = "renewing"] /\ done' = done
    BY <1>2, Counted DEF SendRenewal
  <2> QED
    BY <1>2, <2>1, Counted DEF SendRenewal, SendsCounted, Base, Most, Mutates
<1> QED
  BY <1>1, <1>2 DEF SendRenewal

\* A token is issued.
LEMMA RenewedCounts ==
    ASSUME IInv, NEW c \in Caller, SendsCounted(c), Renewed(c)
    PROVE  SendsCounted(c)'
<1>1. CASE caller[c].why = "call"
  BY <1>1, EndCounts, Counted DEF Renewed
<1>2. CASE caller[c].why = "rejected"
  <2>1. caller'[c] = [caller[c] EXCEPT !.pc = "begin", !.retry_auth = FALSE,
                  !.retries = 0, !.renewal = "none", !.why = "none"] /\ done' = done
    BY <1>2, Counted DEF Renewed, Again, Ensured
  <2> QED
    BY <1>2, <2>1, Counted DEF Renewed, SendsCounted, Base, Most, Mutates
<1>3. CASE caller[c].why = "ensure" /\ Preflight(c)
  <2>1. caller'[c] = [caller[c] EXCEPT !.pc = "begin", !.retries = 0,
                  !.renewal = "none", !.why = "none"] /\ done' = done
    BY <1>3, Counted DEF Renewed, Again, Ensured
  <2> QED
    BY <1>3, <2>1, Counted DEF Renewed, SendsCounted, Base, Most, Mutates
<1>4. CASE caller[c].why = "ensure" /\ ~Preflight(c)
  <2>1. caller'[c] = [caller[c] EXCEPT !.pc = "acquire", !.retries = 0,
                  !.renewal = "none", !.why = "none"] /\ done' = done
    BY <1>4, Counted DEF Renewed, Again, Ensured
  <2> QED
    BY <1>4, <2>1, Counted DEF Renewed, SendsCounted, Base, Most, Mutates
<1> QED
  BY <1>1, <1>2, <1>3, <1>4 DEF Renewed

\* A renewal is rejected.
LEMMA RenewalRejectedCounts ==
    ASSUME IInv, NEW c \in Caller, SendsCounted(c), RenewalRejected(c)
    PROVE  SendsCounted(c)'
<1>1. CASE ~(caller[c].renewal = "refresh" /\ caller[c].why # "call")
  BY <1>1, EndCounts, Counted DEF RenewalRejected
<1>2. CASE caller[c].renewal = "refresh" /\ caller[c].why # "call"
  <2>1. caller'[c] = [caller[c] EXCEPT !.pc = "renew", !.renewal = "login", !.retries = 0] /\ done' = done
    BY <1>2, Counted DEF RenewalRejected
  <2> QED
    BY <1>2, <2>1, Counted DEF RenewalRejected, SendsCounted, Base, Most, Mutates
<1> QED
  BY <1>1, <1>2 DEF RenewalRejected

\* A renewal is to be made later.
LEMMA RenewalLimitedCounts ==
    ASSUME IInv, NEW c \in Caller, SendsCounted(c), RenewalLimited(c)
    PROVE  SendsCounted(c)'
<1>1. CASE ~(caller[c].retries < MaxRetry)
  BY <1>1, EndCounts, Counted DEF RenewalLimited
<1>2. CASE caller[c].retries < MaxRetry
  <2>1. caller'[c] = [caller[c] EXCEPT !.pc = "renew", !.retries = @ + 1] /\ done' = done
    BY <1>2, Counted DEF RenewalLimited
  <2> QED
    BY <1>2, <2>1, Counted DEF RenewalLimited, SendsCounted, Base, Most, Mutates
<1> QED
  BY <1>1, <1>2 DEF RenewalLimited

\* A renewal fails.
LEMMA RenewalFailsCounts ==
    ASSUME IInv, NEW c \in Caller, SendsCounted(c), RenewalFails(c)
    PROVE  SendsCounted(c)'
BY Counted DEF RenewalFails, SendsCounted, Base, Most, Mutates, End, NoCall

\* A request is sent.
LEMMA SendCounts ==
    ASSUME IInv, NEW c \in Caller, SendsCounted(c), Send(c)
    PROVE  SendsCounted(c)'
<1>1. CASE closed
  BY <1>1, EndCounts, Counted DEF Send
<1>2. CASE ~closed
  <2>1. caller'[c] = [caller[c] EXCEPT !.pc = "sent", !.token = access] /\ done'[c] = [done[c] EXCEPT !.sent = @ + 1]
    BY <1>2, Counted DEF Send
  <2> QED
    BY <1>2, <2>1, Counted DEF Send, SendsCounted, Base, Most, Mutates
<1> QED
  BY <1>1, <1>2 DEF Send

\* A good answer.
LEMMA SucceedsCounts ==
    ASSUME IInv, NEW c \in Caller, SendsCounted(c), Succeeds(c)
    PROVE  SendsCounted(c)'
<1>1. CASE ~(caller[c].op = "order" /\ caller[c].stage = "ladder")
  BY <1>1, EndCounts, Counted DEF Succeeds, Carry
<1>2. CASE caller[c].op = "order" /\ caller[c].stage = "ladder"
  <2>1. caller'[c] = [NoCall EXCEPT !.pc = "ensure", !.op = "order"] /\ done'[c] = [done[c] EXCEPT !.sent = 0, !.rejected = {}]
    BY <1>2, Counted DEF Succeeds
  <2> QED
    BY <1>2, <2>1, Counted DEF Succeeds, SendsCounted, Base, Most, Mutates, NoCall
<1> QED
  BY <1>1, <1>2 DEF Succeeds

\* A good answer that cannot be read.
LEMMA UnreadableCounts ==
    ASSUME IInv, NEW c \in Caller, SendsCounted(c), Unreadable(c)
    PROVE  SendsCounted(c)'
BY Counted DEF Unreadable, SendsCounted, Base, Most, Mutates, End, NoCall, Carry, RaiseUncertain

\* An answer that leaves the outcome open.
LEMMA BreaksCounts ==
    ASSUME IInv, NEW c \in Caller, SendsCounted(c), Breaks(c)
    PROVE  SendsCounted(c)'
BY Counted DEF Breaks, SendsCounted, Base, Most, Mutates, End, NoCall, Carry, RaiseUncertain

\* A request is refused.
LEMMA RefusedCounts ==
    ASSUME IInv, NEW c \in Caller, SendsCounted(c), Refused(c)
    PROVE  SendsCounted(c)'
BY Counted DEF Refused, SendsCounted, Base, Most, Mutates, End, NoCall

\* A request is rejected.
LEMMA RejectedCounts ==
    ASSUME IInv, NEW c \in Caller, SendsCounted(c), Rejected(c)
    PROVE  SendsCounted(c)'
<1>1. CASE ~caller[c].retry_auth
  BY <1>1, EndCounts, Counted DEF Rejected
<1>2. CASE caller[c].retry_auth
  <2>1. caller'[c] = [caller[c] EXCEPT !.pc = "rejected"] /\ done'[c] = [done[c] EXCEPT !.rejected = @ \cup {caller[c].token}]
    BY <1>2, Counted DEF Rejected
  <2> QED
    BY <1>2, <2>1, Counted DEF Rejected, SendsCounted, Base, Most, Mutates
<1> QED
  BY <1>1, <1>2 DEF Rejected

\* A request is to be made later.
LEMMA LimitedCounts ==
    ASSUME IInv, NEW c \in Caller, SendsCounted(c), Limited(c)
    PROVE  SendsCounted(c)'
<1>1. CASE ~(~Mutates(c) /\ caller[c].retries < MaxRetry)
  BY <1>1, EndCounts, Counted DEF Limited
<1>2. CASE ~Mutates(c) /\ caller[c].retries < MaxRetry
  <2>1. caller'[c] = [caller[c] EXCEPT !.pc = "acquire", !.retries = @ + 1] /\ done' = done
    BY <1>2, Counted DEF Limited
  <2> QED
    BY <1>2, <2>1, Counted DEF Limited, SendsCounted, Base, Most, Mutates
<1> QED
  BY <1>1, <1>2 DEF Limited

\* Every step keeps the count of every call.
LEMMA NextCounts ==
    ASSUME IInv, [Next]_vars, \A c \in Caller : SendsCounted(c)
    PROVE  \A c \in Caller : SendsCounted(c)'
<1>1. ASSUME NEW c \in Caller, UNCHANGED <<caller, done>> PROVE SendsCounted(c)'
  BY <1>1 DEF SendsCounted, Base, Most, Mutates
<1>2. ASSUME NEW c \in Caller, NEW d \in Caller, d # c, SendsCounted(d),
             caller'[d] = caller[d], done'[d] = done[d]
      PROVE  SendsCounted(d)'
  BY <1>2 DEF SendsCounted, Base, Most, Mutates
<1>3. ASSUME NEW c \in Caller, Step(c) \/ (\E op \in Call : Begin(c, op))
      PROVE  \A d \in Caller \ {c} : caller'[d] = caller[d] /\ done'[d] = done[d]
  <2>1. /\ caller \in [Caller -> CallState]
        /\ done \in [Caller -> [sent : Nat, carried : Nat, rejected : SUBSET Nat]]
    BY <1>3, Counted
  <2>2. CASE \E op \in Call : Begin(c, op)
    BY <2>1, <2>2 DEF Begin
  <2>3. CASE Explicit(c) \/ GetLadder(c) \/ BeginRequest(c) \/ Ensure(c)
    BY <2>1, <2>3 DEF Explicit, GetLadder, BeginRequest, Ensure, End
  <2>4. CASE EnsureLocked(c) \/ RenewRejected(c) \/ Send(c)
    BY <2>1, <2>4 DEF EnsureLocked, RenewRejected, Send, End, Renew, Again
  <2>5. CASE Renewing(c)
    BY <2>1, <2>5 DEF Renewing, SendRenewal, Renewed, RenewalRejected, RenewalLimited,
       RenewalFails, End, Again
  <2>6. CASE Answer(c)
    BY <2>1, <2>6 DEF Answer, Succeeds, Unreadable, Breaks, Refused, Rejected, Limited,
       End, Carry, RaiseUncertain
  <2> QED
    BY <1>3, <2>2, <2>3, <2>4, <2>5, <2>6 DEF Step
<1>4. ASSUME NEW c \in Caller, Step(c) PROVE SendsCounted(c)'
  <2>1. CASE Explicit(c) \/ GetLadder(c) \/ BeginRequest(c)
    BY <2>1, ExplicitCounts, GetLadderCounts, BeginRequestCounts
  <2>2. CASE Ensure(c) \/ EnsureLocked(c) \/ RenewRejected(c)
    BY <2>2, EnsureCounts, EnsureLockedCounts, RenewRejectedCounts
  <2>3. CASE Renewing(c)
    BY <2>3, SendRenewalCounts, RenewedCounts, RenewalRejectedCounts, RenewalLimitedCounts,
       RenewalFailsCounts DEF Renewing
  <2>4. CASE Send(c) \/ Answer(c)
    BY <2>4, SendCounts, SucceedsCounts, UnreadableCounts, BreaksCounts, RefusedCounts,
       RejectedCounts, LimitedCounts DEF Answer
  <2> QED
    BY <1>4, <2>1, <2>2, <2>3, <2>4 DEF Step
<1>5. ASSUME NEW c \in Caller, NEW op \in Call, Begin(c, op) PROVE SendsCounted(c)'
  BY <1>5, CallAssumption, BeginCounts
<1>6. CASE \E c \in Caller : Step(c) \/ (\E op \in Call : Begin(c, op))
  BY <1>2, <1>3, <1>4, <1>5, <1>6
<1>7. CASE Age \/ Close \/ (\E t \in accepted : Revoke(t)) \/ UNCHANGED vars
  <2>1. UNCHANGED <<caller, done>>
    BY <1>7 DEF Age, Close, Revoke, vars
  <2> QED
    BY <1>1, <2>1
<1> QED
  BY <1>6, <1>7 DEF Next

\* No call makes more requests than its retries and its one renewal allow, and an order
\* or a cancellation is sent again only after a 401 (_request).
THEOREM SendsCorrect == Spec => []SendsBounded
<1> DEFINE Counts == \A c \in Caller : SendsCounted(c)
<1>1. Init => Counts
  BY CallAssumption DEF Init, NoCall, SendsCounted, Base, Most, Mutates
<1>2. IInv /\ Counts /\ [Next]_vars => Counts'
  BY NextCounts
<1>3. IInv /\ Counts => SendsBounded
  <2> SUFFICES ASSUME IInv, Counts, NEW c \in Caller
               PROVE  /\ done[c].sent <= IF Mutates(c) THEN 2 ELSE 2 * (MaxRetry + 1)
                      /\ Mutates(c) /\ done[c].sent = 2 => done[c].rejected # {}
    BY DEF SendsBounded
  <2>1. SendsCounted(c)
    OBVIOUS
  <2> HIDE DEF Counts
  <2> QED
    BY <2>1, Counted, CallPlaces DEF SendsCounted, Base, Most
<1> HIDE DEF Counts
<1> QED
  BY <1>1, <1>2, <1>3, Invariance, PTL DEF Spec
=============================================================================
