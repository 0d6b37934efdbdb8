-------------------------- MODULE MarketStoreProofs --------------------------
(* What is proved of MarketStore for every number of events, selections and *)
(* threads, every answer, and any order of their steps.                     *)
EXTENDS MarketStore, FiniteSetTheorems, TLAPS

-----------------------------------------------------------------------------
(* Types.                                                                   *)

LEMMA ContentType == \A c \in Content : c \in [Sel -> Int]
  BY StoreAssumption

LEMMA BlankType == Blank \in Content
  BY BooksAssumption

\* Each event of S gets a version above all that were given.
LEMMA VersionsType ==
    ASSUME bumps \in Nat, version \in [Event -> Nat],
           NEW S \in SUBSET Event, NewVersions(S)
    PROVE  /\ bumps' \in Nat /\ bumps <= bumps'
           /\ version' \in [Event -> Nat]
           /\ \A e \in S : bumps < version'[e] /\ version'[e] <= bumps'
           /\ \A e \in Event \ S : version'[e] = version[e]
  <1>1. IsFiniteSet(S) /\ Event \subseteq Nat
    BY FS_Subset, BooksAssumption
  <1>2. Cardinality(S) \in Nat
    BY <1>1, FS_CardinalityType
  <1>3. ASSUME NEW e \in S
        PROVE  LET T == {x \in S : x <= e}
               IN  Cardinality(T) \in Nat /\ 0 < Cardinality(T) /\ Cardinality(T) <= Cardinality(S)
    <2> DEFINE T == {x \in S : x <= e}
    <2>1. T \in SUBSET S /\ e \in T
      BY <1>1
    <2>2. IsFiniteSet(T) /\ Cardinality(T) <= Cardinality(S)
      BY <1>1, <2>1, FS_Subset
    <2>3. Cardinality(T) \in Nat /\ Cardinality(T) # 0
      BY <2>1, <2>2, FS_CardinalityType, FS_EmptySet
    <2> QED  BY <2>2, <2>3
  <1>4. version' = [e \in Event |->
            IF e \in S THEN bumps + Cardinality({x \in S : x <= e}) ELSE version[e]]
    BY DEF NewVersions
  <1>5. bumps' = bumps + Cardinality(S)
    BY DEF NewVersions
  <1>6. bumps' \in Nat /\ bumps <= bumps'
    BY <1>2, <1>5
  <1>7. \A e \in S : bumps < version'[e] /\ version'[e] <= bumps' /\ version'[e] \in Nat
    BY <1>2, <1>3, <1>4, <1>5
  <1>8. \A e \in Event \ S : version'[e] = version[e]
    BY <1>4
  <1>9. version' \in [Event -> Nat]
    BY <1>4, <1>7, <1>8
  <1> QED  BY <1>6, <1>7, <1>8, <1>9

LEMMA NoMarkets == NotBuilt \in BuiltMarkets /\ NotBuilt.version = Never
  BY DEF NotBuilt, BuiltMarkets, Shown, Never, Unlisted, Unknown

LEMMA IdleType ==
    /\ Idle \in CallState /\ Idle.pc = "idle" /\ Idle.current = {}
    /\ Idle.result = [e \in Event |-> NotBuilt]
    /\ Idle.seen = [e \in Event |-> NotSeen]
  <1>1. NotSeen \in [version : Nat \cup {Never}, valid : BOOLEAN] /\ NoAnswer \in Answer
    BY DEF NotSeen, NoAnswer, Answer
  <1> QED  BY <1>1, NoMarkets DEF Idle, CallState

LEMMA MarketsType ==
    ASSUME StoreTypeOK, NEW e \in Event
    PROVE  /\ MarketsOf(e) \in [Sel -> Shown]
           /\ [version |-> version[e], markets |-> MarketsOf(e)] \in BuiltMarkets
  <1>1. content[e] \in [Sel -> Int]
    BY ContentType DEF StoreTypeOK
  <1>2. MarketsOf(e) \in [Sel -> Shown]
    BY <1>1 DEF MarketsOf, Overlay, Shown, Unlisted, Unknown
  <1>3. version[e] \in Nat
    BY DEF StoreTypeOK
  <1> QED  BY <1>2, <1>3 DEF BuiltMarkets

WithResult(t, e, m) ==
    [call EXCEPT ![t].todo = call[t].todo \ {e}, ![t].result[e] = m]

\* Materializing gives t markets of the event, and keeps them.
LEMMA MaterializeType ==
    ASSUME StoreTypeOK, NEW t \in Thread, NEW e \in Event, Materialize(t, e)
    PROVE  \E m \in BuiltMarkets :
              /\ built' = [built EXCEPT ![e] = m]
              /\ call' = WithResult(t, e, m)
              /\ m.version = version[e]
              /\ m = built[e] \/ m.markets = MarketsOf(e)
  <1> DEFINE new == [version |-> version[e], markets |-> MarketsOf(e)]
             m == IF Reusable(e, version[e]) THEN built[e] ELSE new
  <1>1. new \in BuiltMarkets /\ built[e] \in BuiltMarkets
    BY MarketsType DEF StoreTypeOK
  <1>2. new.version = version[e] /\ new.markets = MarketsOf(e)
    OBVIOUS
  <1> HIDE DEF new
  <1>3. m \in BuiltMarkets /\ m.version = version[e] /\ (m = built[e] \/ m.markets = MarketsOf(e))
    BY <1>1, <1>2 DEF Reusable
  <1>4. /\ built' = [built EXCEPT ![e] = m]
        /\ call' = WithResult(t, e, m)
    BY DEF Materialize, new, WithResult
  <1> QED  BY <1>3, <1>4

BooksOK ==
    /\ invalid \subseteq Event /\ content \in [Event -> Content]
    /\ bumps \in Nat /\ version \in [Event -> Nat]
    /\ fresh \in [Thread -> SUBSET Event]

\* The steps of Books keep its types.
LEMMA BooksType ==
    ASSUME BooksOK, NEW t \in Thread, NEW e \in Event, NEW S \in SUBSET Event,
           \/ Request(t, S) \/ Accept(t, e, S) \/ GiveUp(t)
           \/ Write(S) \/ Invalidate(S) \/ Forget(e) \/ UNCHANGED books
    PROVE  BooksOK'
  <1>1. ASSUME NEW T \in SUBSET Event, NewVersions(T)
        PROVE  bumps' \in Nat /\ version' \in [Event -> Nat]
    BY <1>1, VersionsType DEF BooksOK
  <1>2. CASE Request(t, S)
    BY <1>2 DEF Request, Lose, BooksOK
  <1>3. CASE Accept(t, e, S)
    BY <1>1, <1>3 DEF Accept, OnlyOf, BooksOK
  <1>4. CASE GiveUp(t)
    BY <1>4 DEF GiveUp, BooksOK
  <1>5. CASE Write(S)
    BY <1>1, <1>5 DEF Write, OnlyOf, BooksOK
  <1>6. CASE Invalidate(S)
    BY <1>1, <1>6 DEF Invalidate, Lose, BooksOK
  <1>7. CASE Forget(e)
    <2>1. bumps' \in Nat /\ version' \in [Event -> Nat]
      BY <1>1, <1>7 DEF Forget
    <2> QED  BY <1>7, <2>1, BlankType DEF Forget, Lose, BooksOK
  <1>8. CASE UNCHANGED books
    BY <1>8 DEF books, BooksOK
  <1> QED  BY <1>2, <1>3, <1>4, <1>5, <1>6, <1>7, <1>8

EntriesOK ==
    /\ structure \in [Event -> SUBSET Sel] /\ blueprint \in [Event -> SUBSET Sel]
    /\ noted \subseteq Event
    /\ basis \in [Event -> SUBSET Sel] /\ torn \subseteq Event

LEMMA TypeParts ==
    StoreTypeOK <=>
        /\ BooksOK /\ EntriesOK
        /\ built \in [Event -> BuiltMarkets]
        /\ storeLock \subseteq Thread
        /\ call \in [Thread -> CallState]
        /\ calls \in Nat /\ feeds \in Nat
  BY DEF StoreTypeOK, BooksOK, EntriesOK

LEMMA ReplyType ==
    ASSUME NEW ids \in SUBSET Event, NEW r \in Replies(ids)
    PROVE  r \in [Event -> Answer]
  <1>1. NoAnswer \in Answer /\ \A e \in Event : Answers[e] \subseteq Answer
    BY StoreAssumption DEF NoAnswer, Answer
  <1> QED  BY <1>1 DEF Replies

LEMMA DoneType ==
    ASSUME call \in [Thread -> CallState], NEW t \in Thread, NEW e \in Event, Done(t, e)
    PROVE  /\ call' \in [Thread -> CallState]
           /\ \A s \in Thread \ {t} : call'[s] = call[s]
           /\ call'[t].pc \in {"apply", "build"}
           /\ call'[t].result = call[t].result /\ call'[t].since = call[t].since
           /\ call'[t].seen = call[t].seen
  <1> DEFINE left == call[t].todo \ {e}
             pc == IF left = {} THEN "build" ELSE "apply"
             todo == IF left = {} THEN call[t].ids ELSE left
  <1>1. NoAnswer \in Answer
    BY DEF NoAnswer, Answer
  <1>2. call[t] \in CallState
    OBVIOUS
  <1>3. todo \in SUBSET Event /\ pc \in {"apply", "build"}
    BY <1>2 DEF CallState
  <1>4. call' = [call EXCEPT ![t].pc = pc, ![t].todo = todo,
                             ![t].answer[e] = NoAnswer, ![t].current = {}]
    BY DEF Done
  <1> HIDE DEF pc, todo
  <1>5. [call[t].answer EXCEPT ![e] = NoAnswer] \in [Event -> Answer]
    BY <1>1, <1>2 DEF CallState
  <1>6. call'[t] = [call[t] EXCEPT !.pc = pc, !.todo = todo,
                        !.answer = [call[t].answer EXCEPT ![e] = NoAnswer], !.current = {}]
    BY <1>4
  <1>7. call'[t] \in CallState
    BY <1>2, <1>3, <1>5, <1>6 DEF CallState
  <1>8. /\ call'[t].pc = pc
        /\ call'[t].result = call[t].result /\ call'[t].since = call[t].since
        /\ call'[t].seen = call[t].seen
    BY <1>2, <1>6 DEF CallState
  <1> QED  BY <1>3, <1>4, <1>7, <1>8

LEMMA NotCurrentType ==
    ASSUME call \in [Thread -> CallState], NEW t \in Thread, NotCurrent(t)
    PROVE  /\ call' \in [Thread -> CallState] /\ storeLock' = {}
           /\ \A s \in Thread \ {t} : call'[s] = call[s]
           /\ call'[t].pc \in {"begin", "queue"}
           /\ call'[t].result = [e \in Event |-> NotBuilt]
           /\ call'[t].since = call[t].since
  <1> DEFINE pc == IF call[t].queued THEN "begin" ELSE "queue"
  <1>1. call[t] \in CallState /\ pc \in {"begin", "queue"}
    OBVIOUS
  <1>2. call' = [call EXCEPT ![t].pc = pc, ![t].todo = {}, ![t].seen = Idle.seen,
                             ![t].result = Idle.result]
    BY DEF NotCurrent
  <1> HIDE DEF pc
  <1>3. Idle.seen \in [Event -> [version : Nat \cup {Never}, valid : BOOLEAN]]
        /\ Idle.result \in [Event -> BuiltMarkets]
    BY IdleType DEF CallState
  <1>4. call'[t] = [call[t] EXCEPT !.pc = pc, !.todo = {}, !.seen = Idle.seen,
                                   !.result = Idle.result]
    BY <1>2
  <1>5. call'[t] \in CallState
    BY <1>1, <1>3, <1>4 DEF CallState
  <1>6. /\ call'[t].pc = pc /\ call'[t].result = Idle.result
        /\ call'[t].since = call[t].since
    BY <1>1, <1>4 DEF CallState
  <1> QED  BY <1>1, <1>2, <1>5, <1>6, IdleType DEF NotCurrent, LeavesLock

\* What a call changes is its own; everything stays in its range.
LEMMA CallType ==
    ASSUME StoreTypeOK, NEW t \in Thread, NEW kind, NEW ids \in SUBSET Event,
           Call(t, kind, ids)
    PROVE  /\ StoreTypeOK' /\ \A s \in Thread \ {t} : call'[s] = call[s]
           /\ call'[t].pc \in {"look", "queue"}
           /\ call'[t].result = [e \in Event |-> NotBuilt]
           /\ \A e \in Event : call'[t].since[e] \in {version[e], Never}
  <1> DEFINE since == [e \in Event |-> IF e \in ids THEN version[e] ELSE Never]
             new == [Idle EXCEPT !.pc = IF kind = "markets" THEN "look" ELSE "queue",
                                 !.force = kind = "forced", !.ids = ids, !.since = since]
  <1>1. ids \in SUBSET Event /\ since \in [Event -> Nat \cup {Never}]
    BY DEF StoreTypeOK
  <1>2. call' = [call EXCEPT ![t] = new]
    BY DEF Call
  <1>3. \A e \in Event : since[e] \in {version[e], Never}
    OBVIOUS
  <1> HIDE DEF since
  <1>4. /\ new \in CallState /\ new.pc \in {"look", "queue"}
        /\ new.result = Idle.result /\ new.since = since
    BY <1>1, IdleType DEF CallState
  <1> HIDE DEF new
  <1>5. UNCHANGED <<books, entries, built, storeLock, feeds>> /\ calls' = calls + 1
    BY DEF Call
  <1>6. StoreTypeOK'
    BY <1>2, <1>4, <1>5 DEF StoreTypeOK, books, entries
  <1> QED  BY <1>2, <1>3, <1>4, <1>6, IdleType DEF StoreTypeOK

LEMMA LookType ==
    ASSUME StoreTypeOK, NEW t \in Thread, Look(t)
    PROVE  /\ StoreTypeOK' /\ \A s \in Thread \ {t} : call'[s] = call[s]
           /\ \/ /\ call'[t].pc \in {"begin", "queue"} /\ storeLock' = {}
                 /\ call'[t].result = [e \in Event |-> NotBuilt]
              \/ /\ call'[t].pc = "fill" /\ storeLock' = {t}
                 /\ call'[t].result = call[t].result
                 /\ \A e \in Event : call'[t].seen[e].valid =>
                        call'[t].seen[e].version = version[e]
           /\ call'[t].since = call[t].since
  <1>1. UNCHANGED <<books, entries, built, calls, feeds>>
    BY DEF Look
  <1>2. CASE NotCurrent(t)
    <2>1. /\ call' \in [Thread -> CallState] /\ storeLock' = {}
          /\ \A s \in Thread \ {t} : call'[s] = call[s]
          /\ call'[t].pc \in {"begin", "queue"}
          /\ call'[t].result = [e \in Event |-> NotBuilt]
          /\ call'[t].since = call[t].since
      BY <1>2, NotCurrentType DEF StoreTypeOK
    <2> QED  BY <1>1, <2>1 DEF StoreTypeOK, books, entries
  <1>3. CASE ~NotCurrent(t)
    <2> DEFINE seen == [e \in Event |-> IF e \in call[t].ids
                            THEN [version |-> version[e], valid |-> e \notin invalid]
                            ELSE NotSeen]
    <2>1. storeLock' = {t}
          /\ call' = [call EXCEPT ![t].pc = "fill", ![t].todo = call[t].ids, ![t].seen = seen]
      BY <1>3 DEF Look
    <2>2. seen \in [Event -> [version : Nat \cup {Never}, valid : BOOLEAN]]
      BY DEF StoreTypeOK, NotSeen
    <2>3. \A e \in Event : seen[e].valid => seen[e].version = version[e]
      BY DEF NotSeen
    <2> HIDE DEF seen
    <2>4. call[t] \in CallState
      BY DEF StoreTypeOK
    <2>5. call'[t] = [call[t] EXCEPT !.pc = "fill", !.todo = call[t].ids, !.seen = seen]
      BY <2>1 DEF StoreTypeOK
    <2>6. call'[t] \in CallState
      BY <2>2, <2>4, <2>5 DEF CallState
    <2>7. /\ call'[t].pc = "fill" /\ call'[t].result = call[t].result
          /\ call'[t].since = call[t].since /\ call'[t].seen = seen
      BY <2>4, <2>5 DEF CallState
    <2>8. \A s \in Thread \ {t} : call'[s] = call[s]
      BY <2>1 DEF StoreTypeOK
    <2>9. call' \in [Thread -> CallState]
      BY <2>1, <2>6, <2>8 DEF StoreTypeOK
    <2>10. StoreTypeOK'
      BY <1>1, <2>1, <2>9 DEF StoreTypeOK, books, entries
    <2> QED  BY <2>1, <2>3, <2>7, <2>8, <2>10
  <1> QED  BY <1>2, <1>3

\* The markets of one event are added to the result of t.
LEMMA ResultType ==
    ASSUME StoreTypeOK, NEW t \in Thread, NEW e \in Event, NEW m \in BuiltMarkets,
           call' = WithResult(t, e, m)
    PROVE  /\ call' \in [Thread -> CallState]
           /\ \A s \in Thread \ {t} : call'[s] = call[s]
           /\ call'[t].pc = call[t].pc /\ call'[t].since = call[t].since
           /\ call'[t].seen = call[t].seen
           /\ call'[t].result = [call[t].result EXCEPT ![e] = m]
  <1>1. call[t] \in CallState /\ call \in [Thread -> CallState]
    BY DEF StoreTypeOK
  <1>2. [call[t].result EXCEPT ![e] = m] \in [Event -> BuiltMarkets]
    BY <1>1 DEF CallState
  <1>3. call[t].todo \ {e} \in SUBSET Event
    BY <1>1 DEF CallState
  <1>4. call'[t] = [call[t] EXCEPT !.todo = call[t].todo \ {e},
                                   !.result = [call[t].result EXCEPT ![e] = m]]
    BY <1>1 DEF WithResult
  <1>5. call'[t] \in CallState
    BY <1>1, <1>2, <1>3, <1>4 DEF CallState
  <1>6. /\ call'[t].pc = call[t].pc /\ call'[t].since = call[t].since
        /\ call'[t].seen = call[t].seen
        /\ call'[t].result = [call[t].result EXCEPT ![e] = m]
    BY <1>1, <1>4 DEF CallState
  <1> QED  BY <1>1, <1>5, <1>6 DEF WithResult

\* Fill gives t markets that were built, builds them, or gives up.
LEMMA FillType ==
    ASSUME StoreTypeOK, NEW t \in Thread, NEW e \in Event, Fill(t, e)
    PROVE  /\ StoreTypeOK' /\ \A s \in Thread \ {t} : call'[s] = call[s]
           /\ call'[t].since = call[t].since
           /\ \/ /\ call'[t].pc \in {"begin", "queue"} /\ storeLock' = {} /\ built' = built
                 /\ call'[t].result = [x \in Event |-> NotBuilt]
              \/ /\ call'[t].pc = "fill" /\ storeLock' = storeLock
                 /\ call'[t].seen = call[t].seen
                 /\ \E m \in BuiltMarkets :
                       /\ call'[t].result = [call[t].result EXCEPT ![e] = m]
                       /\ \/ /\ built' = built /\ m = built[e]
                             /\ call[t].seen[e].valid /\ m.version = call[t].seen[e].version
                          \/ /\ e \notin invalid
                             /\ built' = [built EXCEPT ![e] = m] /\ m.version = version[e]
                             /\ m = built[e] \/ m.markets = MarketsOf(e)
  <1>1. UNCHANGED <<books, entries, calls, feeds>> /\ call[t].pc = "fill"
    BY DEF Fill
  <1>2. CASE NotCurrent(t) /\ UNCHANGED built
    <2>1. /\ call' \in [Thread -> CallState] /\ storeLock' = {}
          /\ \A s \in Thread \ {t} : call'[s] = call[s]
          /\ call'[t].pc \in {"begin", "queue"}
          /\ call'[t].result = [x \in Event |-> NotBuilt]
          /\ call'[t].since = call[t].since
      BY <1>2, NotCurrentType DEF StoreTypeOK
    <2> QED  BY <1>1, <1>2, <2>1 DEF StoreTypeOK, books, entries
  <1>3. CASE Materialize(t, e) /\ UNCHANGED storeLock /\ e \notin invalid
    <2> PICK m \in BuiltMarkets :
              /\ built' = [built EXCEPT ![e] = m]
              /\ call' = WithResult(t, e, m)
              /\ m.version = version[e]
              /\ m = built[e] \/ m.markets = MarketsOf(e)
      BY <1>3, MaterializeType
    <2>1. /\ call' \in [Thread -> CallState]
          /\ \A s \in Thread \ {t} : call'[s] = call[s]
          /\ call'[t].pc = call[t].pc /\ call'[t].since = call[t].since
          /\ call'[t].seen = call[t].seen
          /\ call'[t].result = [call[t].result EXCEPT ![e] = m]
      BY ResultType
    <2>2. StoreTypeOK'
      BY <1>1, <1>3, <2>1 DEF StoreTypeOK, books, entries
    <2> QED  BY <1>1, <1>3, <2>1, <2>2
  <1>4. CASE /\ call[t].seen[e].valid /\ Reusable(e, call[t].seen[e].version)
             /\ call' = [call EXCEPT ![t].todo = @ \ {e}, ![t].result[e] = built[e]]
             /\ UNCHANGED <<built, storeLock>>
    <2>1. built[e] \in BuiltMarkets
      BY DEF StoreTypeOK
    <2>2. call' = WithResult(t, e, built[e])
      BY <1>4 DEF WithResult
    <2>3. /\ call' \in [Thread -> CallState]
          /\ \A s \in Thread \ {t} : call'[s] = call[s]
          /\ call'[t].pc = call[t].pc /\ call'[t].since = call[t].since
          /\ call'[t].seen = call[t].seen
          /\ call'[t].result = [call[t].result EXCEPT ![e] = built[e]]
      BY <2>1, <2>2, ResultType
    <2>4. StoreTypeOK'
      BY <1>1, <1>4, <2>3 DEF StoreTypeOK, books, entries
    <2> QED  BY <1>1, <1>4, <2>1, <2>3, <2>4 DEF Reusable
  <1> QED  BY <1>2, <1>3, <1>4 DEF Fill

\* The steps that only move the call on, with or without a request.
LEMMA MoveType ==
    ASSUME StoreTypeOK, NEW t \in Thread,
           TakeTurn(t) \/ Begin(t) \/ \E r \in Replies(call[t].ids) : Fetched(t, r)
    PROVE  /\ StoreTypeOK' /\ \A s \in Thread \ {t} : call'[s] = call[s]
           /\ call'[t].pc \in {"look", "begin", "fetch", "apply"}
           /\ call'[t].result = call[t].result /\ call'[t].since = call[t].since
           /\ UNCHANGED <<entries, built, storeLock, version, bumps, content, invalid>>
  <1>1. call[t] \in CallState /\ call[t].ids \in SUBSET Event
    BY DEF StoreTypeOK, CallState
  <1>2. CASE TakeTurn(t)
    <2> DEFINE pc == IF call[t].force THEN "begin" ELSE "look"
    <2>1. call' = [call EXCEPT ![t].queued = TRUE, ![t].pc = pc]
          /\ UNCHANGED <<books, entries, built, storeLock, calls, feeds>>
      BY <1>2 DEF TakeTurn
    <2>2. pc \in {"look", "begin"}
      OBVIOUS
    <2> HIDE DEF pc
    <2>3. call'[t] = [call[t] EXCEPT !.queued = TRUE, !.pc = pc]
      BY <2>1 DEF StoreTypeOK
    <2>4. /\ call'[t] \in CallState /\ call'[t].pc = pc
          /\ call'[t].result = call[t].result /\ call'[t].since = call[t].since
      BY <1>1, <2>2, <2>3 DEF CallState
    <2> QED  BY <2>1, <2>2, <2>4 DEF StoreTypeOK, books, entries
  <1>3. CASE Begin(t)
    <2>1. call' = [call EXCEPT ![t].pc = "fetch"]
          /\ UNCHANGED <<entries, built, storeLock, calls, feeds>>
          /\ Request(t, call[t].ids)
      BY <1>3 DEF Begin
    <2>2. call'[t] = [call[t] EXCEPT !.pc = "fetch"]
      BY <2>1 DEF StoreTypeOK
    <2>3. /\ call'[t] \in CallState /\ call'[t].pc = "fetch"
          /\ call'[t].result = call[t].result /\ call'[t].since = call[t].since
      BY <1>1, <2>2 DEF CallState
    <2>4. BooksOK'
      BY <1>1, <2>1, TypeParts DEF BooksOK, Request, Lose
    <2>5. UNCHANGED <<version, bumps, content, invalid>>
      BY <2>1 DEF Request
    <2> QED  BY <2>1, <2>3, <2>4, <2>5 DEF StoreTypeOK, BooksOK, entries
  <1>4. ASSUME NEW r \in Replies(call[t].ids), Fetched(t, r)
        PROVE  /\ StoreTypeOK' /\ \A s \in Thread \ {t} : call'[s] = call[s]
               /\ call'[t].pc = "apply"
               /\ call'[t].result = call[t].result /\ call'[t].since = call[t].since
               /\ UNCHANGED <<entries, built, storeLock, version, bumps, content, invalid>>
    <2>1. call' = [call EXCEPT ![t].pc = "apply", ![t].answer = r, ![t].todo = call[t].ids]
          /\ UNCHANGED <<books, entries, built, storeLock, calls, feeds>>
      BY <1>4 DEF Fetched
    <2>2. r \in [Event -> Answer]
      BY <1>1, ReplyType
    <2>3. call'[t] = [call[t] EXCEPT !.pc = "apply", !.answer = r, !.todo = call[t].ids]
      BY <2>1 DEF StoreTypeOK
    <2>4. /\ call'[t] \in CallState /\ call'[t].pc = "apply"
          /\ call'[t].result = call[t].result /\ call'[t].since = call[t].since
      BY <1>1, <2>2, <2>3 DEF CallState
    <2> QED  BY <2>1, <2>4 DEF StoreTypeOK, books, entries
  <1> QED  BY <1>2, <1>3, <1>4

\* The two ends of a call.
LEMMA EndType ==
    ASSUME StoreTypeOK, NEW t \in Thread, Return(t) \/ Raise(t)
    PROVE  /\ StoreTypeOK' /\ \A s \in Thread \ {t} : call'[s] = call[s]
           /\ call'[t] = Idle /\ torn \subseteq torn' /\ storeLock' \subseteq storeLock
           /\ call[t].pc \in {"fill", "build"} \/ storeLock \ {t} \subseteq storeLock'
           /\ UNCHANGED <<structure, blueprint, noted, basis, built,
                          version, bumps, content, invalid>>
  <1>1. call' = [call EXCEPT ![t] = Idle]
    BY DEF Return, Raise
  <1>2. call' \in [Thread -> CallState]
    BY <1>1, IdleType DEF StoreTypeOK
  <1>3. \A s \in Thread \ {t} : call'[s] = call[s] /\ call'[t] = Idle
    BY <1>1 DEF StoreTypeOK
  <1>4. call[t].current \in SUBSET Event
    BY DEF StoreTypeOK, CallState
  <1>5. CASE Return(t)
    BY <1>2, <1>3, <1>5, <1>1 DEF Return, StoreTypeOK, books, entries
  <1>6. CASE Raise(t)
    <2>1. BooksOK' /\ UNCHANGED <<version, bumps, content, invalid>>
      BY <1>6, TypeParts DEF BooksOK, Raise, GiveUp
    <2>2. UNCHANGED <<structure, blueprint, noted, basis, built, calls, feeds>>
          /\ torn' = torn \cup call[t].current /\ storeLock' = storeLock \ {t}
      BY <1>6 DEF Raise
    <2> QED  BY <1>1, <1>2, <1>3, <1>4, <2>1, <2>2 DEF StoreTypeOK, BooksOK
  <1> QED  BY <1>5, <1>6

\* Apply is accepted, and then noted; or it is refused and leaves all alone.
LEMMA ApplyType ==
    ASSUME StoreTypeOK, NEW t \in Thread, NEW e \in Event, Apply(t, e)
    PROVE  /\ StoreTypeOK' /\ \A s \in Thread \ {t} : call'[s] = call[s]
           /\ MayHold(t) /\ storeLock' = {t} /\ call[t].pc = "apply"
           /\ call'[t].result = call[t].result /\ call'[t].since = call[t].since
           /\ UNCHANGED <<structure, blueprint, noted, torn, built>>
           /\ \/ /\ Accept(t, e, {e}) /\ call'[t].pc = "note" /\ call'[t].current = {e}
                 /\ call'[t].answer = call[t].answer
                 /\ basis' = [basis EXCEPT ![e] = Implied(e, call[t].answer[e])]
              \/ /\ UNCHANGED <<version, bumps, content, invalid, basis>>
                 /\ call'[t].pc \in {"apply", "build"}
  <1>1. call[t] \in CallState /\ call[t].answer[e] \in Answer
    BY DEF StoreTypeOK, CallState
  <1>2. MayHold(t) /\ storeLock' = {t} /\ call[t].pc = "apply" /\ UNCHANGED <<built, calls, feeds>>
    BY DEF Apply
  <1>3. CASE Accept(t, e, {e}) /\ call' = [call EXCEPT ![t].pc = "note", ![t].current = {e}]
             /\ basis' = [basis EXCEPT ![e] = Implied(e, call[t].answer[e])]
             /\ UNCHANGED <<structure, blueprint, noted, torn>>
    <2>1. BooksOK'
      BY <1>3, BooksType, TypeParts
    <2>2. Implied(e, call[t].answer[e]) \in SUBSET Sel
      BY <1>1 DEF Implied, Answer, StoreTypeOK
    <2>3. EntriesOK'
      BY <1>3, <2>2, TypeParts DEF EntriesOK
    <2>4. call'[t] = [call[t] EXCEPT !.pc = "note", !.current = {e}]
      BY <1>3 DEF StoreTypeOK
    <2>5. /\ call'[t] \in CallState /\ call'[t].pc = "note" /\ call'[t].current = {e}
          /\ call'[t].answer = call[t].answer
          /\ call'[t].result = call[t].result /\ call'[t].since = call[t].since
      <3> DEFINE current == {e}
      <3>1. current \in SUBSET Event /\ call[t] \in CallState
        BY <1>1
      <3>2. call'[t] = [call[t] EXCEPT !.pc = "note", !.current = current]
        BY <2>4
      <3> HIDE DEF current
      <3>3. /\ call'[t] \in CallState /\ call'[t].pc = "note" /\ call'[t].current = current
            /\ call'[t].answer = call[t].answer
            /\ call'[t].result = call[t].result /\ call'[t].since = call[t].since
        BY <3>1, <3>2 DEF CallState
      <3> QED  BY <3>3 DEF current
    <2>6. \A s \in Thread \ {t} : call'[s] = call[s]
      BY <1>3 DEF StoreTypeOK
    <2>7. call' \in [Thread -> CallState]
      BY <1>3, <2>5, <2>6 DEF StoreTypeOK
    <2> QED  BY <1>2, <1>3, <2>1, <2>3, <2>5, <2>6, <2>7 DEF StoreTypeOK, BooksOK, EntriesOK
  <1>4. CASE Done(t, e) /\ UNCHANGED <<books, entries>>
    <2>1. /\ call' \in [Thread -> CallState]
          /\ \A s \in Thread \ {t} : call'[s] = call[s]
          /\ call'[t].pc \in {"apply", "build"}
          /\ call'[t].result = call[t].result /\ call'[t].since = call[t].since
      BY <1>4, DoneType DEF StoreTypeOK
    <2> QED  BY <1>2, <1>4, <2>1 DEF StoreTypeOK, books, entries
  <1> QED  BY <1>3, <1>4 DEF Apply

LEMMA NoteType ==
    ASSUME StoreTypeOK, NEW t \in Thread, NEW e \in Event, Note(t, e)
    PROVE  /\ StoreTypeOK' /\ \A s \in Thread \ {t} : call'[s] = call[s]
           /\ call[t].pc = "note" /\ e \in call[t].current
           /\ call'[t].pc \in {"apply", "build"}
           /\ call'[t].result = call[t].result /\ call'[t].since = call[t].since
           /\ blueprint' = [blueprint EXCEPT ![e] = Implied(e, call[t].answer[e])]
           /\ structure' = [structure EXCEPT ![e] = NewStructure(e, call[t].answer[e])]
           /\ noted' = noted \cup {e} /\ torn' = torn \ {e}
           /\ built' = [built EXCEPT ![e] = NotBuilt]
           /\ UNCHANGED <<version, bumps, content, invalid, basis, storeLock>>
  <1>1. call[t].answer[e] \in Answer
    BY DEF StoreTypeOK, CallState
  <1>2. /\ blueprint' = [blueprint EXCEPT ![e] = Implied(e, call[t].answer[e])]
        /\ structure' = [structure EXCEPT ![e] = NewStructure(e, call[t].answer[e])]
        /\ noted' = noted \cup {e} /\ torn' = torn \ {e}
        /\ built' = [built EXCEPT ![e] = NotBuilt]
        /\ UNCHANGED <<books, basis, storeLock, calls, feeds>>
        /\ Done(t, e) /\ call[t].pc = "note" /\ e \in call[t].current
    BY DEF Note
  <1>3. /\ call' \in [Thread -> CallState]
        /\ \A s \in Thread \ {t} : call'[s] = call[s]
        /\ call'[t].pc \in {"apply", "build"}
        /\ call'[t].result = call[t].result /\ call'[t].since = call[t].since
    BY <1>2, DoneType DEF StoreTypeOK
  <1>4. Implied(e, call[t].answer[e]) \in SUBSET Sel
    BY <1>1 DEF Implied, Answer, StoreTypeOK
  <1>5. NewStructure(e, call[t].answer[e]) \in SUBSET Sel
    BY <1>1, <1>4 DEF NewStructure, Retained, Answer
  <1>6. blueprint' \in [Event -> SUBSET Sel] /\ structure' \in [Event -> SUBSET Sel]
        /\ built' \in [Event -> BuiltMarkets] /\ noted' \subseteq Event /\ torn' \subseteq Event
    BY <1>2, <1>4, <1>5, NoMarkets DEF StoreTypeOK
  <1>7. StoreTypeOK'
    BY <1>2, <1>3, <1>6 DEF StoreTypeOK, books
  <1> QED  BY <1>2, <1>3, <1>7 DEF books

LEMMA BuildType ==
    ASSUME StoreTypeOK, NEW t \in Thread, NEW e \in Event, Build(t, e)
    PROVE  /\ StoreTypeOK' /\ \A s \in Thread \ {t} : call'[s] = call[s]
           /\ call[t].pc = "build" /\ call'[t].pc = "build" /\ call'[t].since = call[t].since
           /\ UNCHANGED <<version, bumps, content, invalid, entries, storeLock>>
           /\ \/ UNCHANGED built /\ call'[t].result = call[t].result
              \/ \E m \in BuiltMarkets :
                    /\ call'[t].result = [call[t].result EXCEPT ![e] = m]
                    /\ e \notin invalid
                    /\ built' = [built EXCEPT ![e] = m] /\ m.version = version[e]
                    /\ m = built[e] \/ m.markets = MarketsOf(e)
  <1>1. UNCHANGED <<books, entries, storeLock, calls, feeds>> /\ call[t].pc = "build"
    BY DEF Build
  <1>2. CASE call' = [call EXCEPT ![t].todo = @ \ {e}] /\ UNCHANGED built
    <2>1. call[t] \in CallState /\ call[t].todo \ {e} \in SUBSET Event
      BY DEF StoreTypeOK, CallState
    <2>2. call'[t] = [call[t] EXCEPT !.todo = call[t].todo \ {e}]
      BY <1>2 DEF StoreTypeOK
    <2>3. /\ call'[t] \in CallState /\ call'[t].pc = call[t].pc
          /\ call'[t].result = call[t].result /\ call'[t].since = call[t].since
      BY <2>1, <2>2 DEF CallState
    <2> QED  BY <1>1, <1>2, <2>3 DEF StoreTypeOK, books, entries
  <1>3. CASE Materialize(t, e) /\ e \notin invalid
    <2> PICK m \in BuiltMarkets :
              /\ built' = [built EXCEPT ![e] = m]
              /\ call' = WithResult(t, e, m)
              /\ m.version = version[e]
              /\ m = built[e] \/ m.markets = MarketsOf(e)
      BY <1>3, MaterializeType
    <2>1. /\ call' \in [Thread -> CallState]
          /\ \A s \in Thread \ {t} : call'[s] = call[s]
          /\ call'[t].pc = call[t].pc /\ call'[t].since = call[t].since
          /\ call'[t].result = [call[t].result EXCEPT ![e] = m]
      BY ResultType
    <2>2. StoreTypeOK'
      BY <1>1, <2>1 DEF StoreTypeOK, books, entries
    <2> QED  BY <1>1, <1>3, <2>1, <2>2 DEF books
  <1> QED  BY <1>2, <1>3 DEF Build

\* What happens to books beside the calls.
LEMMA FeedType ==
    ASSUME StoreTypeOK, Feed
    PROVE  /\ StoreTypeOK' /\ UNCHANGED <<entries, built, storeLock, call>>
           /\ \E S \in SUBSET Event : Write(S) \/ Invalidate(S)
  <1>1. PICK e \in Event : Write({e}) \/ Invalidate({e})
    BY DEF Feed
  <1>2. UNCHANGED <<entries, built, storeLock, call, calls>> /\ feeds' = feeds + 1
    BY DEF Feed
  <1>3. BooksOK'
    <2>1. CASE Write({e})
      <3>1. bumps' \in Nat /\ version' \in [Event -> Nat]
        BY <2>1, VersionsType DEF Write, StoreTypeOK
      <3> QED  BY <2>1, <3>1 DEF Write, OnlyOf, BooksOK, StoreTypeOK
    <2>2. CASE Invalidate({e})
      <3>1. bumps' \in Nat /\ version' \in [Event -> Nat]
        BY <2>2, VersionsType DEF Invalidate, StoreTypeOK
      <3> QED  BY <2>2, <3>1 DEF Invalidate, Lose, BooksOK, StoreTypeOK
    <2> QED  BY <1>1, <2>1, <2>2
  <1>4. StoreTypeOK'
    BY <1>2, <1>3 DEF StoreTypeOK, BooksOK, entries
  <1> QED  BY <1>1, <1>2, <1>4

LEMMA ClearType ==
    ASSUME StoreTypeOK, NEW e \in Event, ClearEvent(e)
    PROVE  StoreTypeOK'
  <1>1. bumps' \in Nat /\ version' \in [Event -> Nat]
    BY VersionsType DEF ClearEvent, Forget, StoreTypeOK
  <1>2. BooksOK'
    BY <1>1, BlankType DEF ClearEvent, Forget, Lose, BooksOK, StoreTypeOK
  <1>3. EntriesOK' /\ built' \in [Event -> BuiltMarkets]
    BY NoMarkets DEF ClearEvent, EntriesOK, StoreTypeOK
  <1>4. UNCHANGED <<storeLock, call, calls>> /\ feeds' = feeds + 1
    BY DEF ClearEvent
  <1> QED  BY <1>2, <1>3, <1>4 DEF StoreTypeOK, BooksOK, EntriesOK

LEMMA StoreTypeNext ==
    ASSUME StoreTypeOK, [StoreNext]_storeVars
    PROVE  StoreTypeOK'
  <1>1. CASE UNCHANGED storeVars
    BY <1>1 DEF storeVars, books, entries, StoreTypeOK
  <1>2. ASSUME NEW t \in Thread, Step(t)
        PROVE  StoreTypeOK'
    BY <1>2, LookType, FillType, MoveType, EndType, ApplyType, NoteType, BuildType DEF Step
  <1>3. ASSUME NEW t \in Thread, NEW a \in Asked, Call(t, a[1], a[2])
        PROVE  StoreTypeOK'
    <2>1. a[2] \in SUBSET Event
      BY StoreAssumption
    <2> QED  BY <1>3, <2>1, CallType
  <1> QED
    BY <1>1, <1>2, <1>3, FeedType, ClearType DEF StoreNext

\* Whatever the answers, and however calls, feed and clears interleave, every
\* variable stays in its range.
THEOREM StoreTypeCorrect == StoreSpec => []StoreTypeOK
  <1>1. StoreInit => StoreTypeOK
    BY IdleType, NoMarkets, BlankType DEF StoreInit, BooksInit, StoreTypeOK
  <1>2. StoreTypeOK /\ [StoreNext]_storeVars => StoreTypeOK'
    BY StoreTypeNext
  <1> QED  BY <1>1, <1>2, PTL DEF StoreSpec

-----------------------------------------------------------------------------
(* The structure and the book.  StructureFollowsBook speaks of a store that *)
(* nobody holds; the invariant says what holds meanwhile: an event whose    *)
(* structure lags behind its book is being noted by the holder of the lock. *)

Noting(t, e) == call[t].pc = "note" /\ e \in call[t].current

LockInv ==
    \A t \in Thread : call[t].pc \in {"fill", "note", "build"} => storeLock = {t}

NoteInv ==
    \A t \in Thread : call[t].pc = "note" =>
        \A e \in call[t].current :
            call[t].current = {e} /\ basis[e] = Implied(e, call[t].answer[e])

Follows(e) ==
    \/ \E t \in Thread : Noting(t, e)
    \/ blueprint[e] = basis[e] /\ structure[e] \subseteq basis[e]

FollowInv == \A e \in noted \ torn : Follows(e)

StructureInv == LockInv /\ NoteInv /\ FollowInv

\* A step of t that leaves the entries alone and does not note.
LEMMA QuietFollows ==
    ASSUME StoreTypeOK, StructureInv, NEW t \in Thread,
           \A s \in Thread \ {t} : call'[s] = call[s],
           call[t].pc # "note", call'[t].pc # "note",
           UNCHANGED <<structure, blueprint, noted, basis, torn>>
    PROVE  NoteInv' /\ FollowInv'
  <1>1. NoteInv'
    BY DEF StructureInv, NoteInv, Implied
  <1>2. ASSUME NEW e \in noted \ torn
        PROVE  Follows(e)'
    <2>1. Follows(e)
      BY DEF StructureInv, FollowInv
    <2>2. ASSUME NEW s \in Thread, Noting(s, e)
          PROVE  Noting(s, e)'
      <3>1. s # t
        BY <2>2 DEF Noting
      <3> QED  BY <2>2, <3>1 DEF Noting
    <2> QED  BY <2>1, <2>2 DEF Follows
  <1> QED  BY <1>1, <1>2 DEF FollowInv

\* The other threads keep what the lock gives them.
LEMMA LockKept ==
    ASSUME LockInv, NEW t \in Thread,
           \A s \in Thread \ {t} : call'[s] = call[s],
           \/ storeLock' = storeLock \/ storeLock' = storeLock \ {t}
           \/ storeLock \subseteq {t},
           call'[t].pc \in {"fill", "note", "build"} => storeLock' = {t}
    PROVE  LockInv'
  <1>1. ASSUME NEW s \in Thread, s # t, call'[s].pc \in {"fill", "note", "build"}
        PROVE  storeLock' = {s}
    BY <1>1 DEF LockInv
  <1> QED  BY <1>1 DEF LockInv

LEMMA StructureNext ==
    ASSUME StoreTypeOK, StructureInv, [StoreNext]_storeVars
    PROVE  StructureInv'
  <1>1. CASE UNCHANGED <<structure, blueprint, noted, basis, torn, storeLock, call>>
    BY <1>1 DEF StructureInv, LockInv, NoteInv, FollowInv, Follows, Noting, Implied
  <1>2. ASSUME NEW t \in Thread, NEW a \in Asked, Call(t, a[1], a[2])
        PROVE  StructureInv'
    <2>1. /\ \A s \in Thread \ {t} : call'[s] = call[s]
          /\ call'[t].pc \in {"look", "queue"}
      BY <1>2, CallType, StoreAssumption
    <2>2. call[t].pc = "idle" /\ UNCHANGED <<entries, storeLock>>
      BY <1>2 DEF Call
    <2>3. NoteInv' /\ FollowInv'
      BY <2>1, <2>2, QuietFollows DEF entries
    <2> QED  BY <2>1, <2>2, <2>3, LockKept DEF StructureInv
  <1>3. ASSUME NEW t \in Thread, Look(t)
        PROVE  StructureInv'
    <2>1. /\ \A s \in Thread \ {t} : call'[s] = call[s]
          /\ \/ call'[t].pc \in {"begin", "queue"}
             \/ call'[t].pc = "fill" /\ storeLock' = {t}
      BY <1>3, LookType
    <2>2. call[t].pc = "look" /\ storeLock \subseteq {t} /\ UNCHANGED entries
      BY <1>3 DEF Look, MayHold
    <2>3. NoteInv' /\ FollowInv'
      BY <2>1, <2>2, QuietFollows DEF entries
    <2> QED  BY <2>1, <2>2, <2>3, LockKept DEF StructureInv
  <1>4. ASSUME NEW t \in Thread, NEW e \in Event, Fill(t, e)
        PROVE  StructureInv'
    <2>1. /\ \A s \in Thread \ {t} : call'[s] = call[s]
          /\ \/ call'[t].pc \in {"begin", "queue"}
             \/ call'[t].pc = "fill" /\ storeLock' = storeLock
      BY <1>4, FillType
    <2>2. call[t].pc = "fill" /\ UNCHANGED entries
      BY <1>4 DEF Fill
    <2>3. storeLock = {t}
      BY <2>2 DEF StructureInv, LockInv
    <2>4. NoteInv' /\ FollowInv'
      BY <2>1, <2>2, QuietFollows DEF entries
    <2> QED  BY <2>1, <2>3, <2>4, LockKept DEF StructureInv
  <1>5. ASSUME NEW t \in Thread,
               TakeTurn(t) \/ Begin(t) \/ \E r \in Replies(call[t].ids) : Fetched(t, r)
        PROVE  StructureInv'
    <2>1. /\ \A s \in Thread \ {t} : call'[s] = call[s]
          /\ call'[t].pc \in {"look", "begin", "fetch", "apply"}
          /\ UNCHANGED <<entries, storeLock>>
      BY <1>5, MoveType
    <2>2. call[t].pc \in {"queue", "begin", "fetch"}
      BY <1>5 DEF TakeTurn, Begin, Fetched
    <2>3. NoteInv' /\ FollowInv'
      BY <2>1, <2>2, QuietFollows DEF entries
    <2> QED  BY <2>1, <2>3, LockKept DEF StructureInv
  <1>6. ASSUME NEW t \in Thread, Return(t) \/ Raise(t)
        PROVE  StructureInv'
    <2>1. /\ \A s \in Thread \ {t} : call'[s] = call[s]
          /\ call'[t] = Idle /\ torn \subseteq torn'
          /\ UNCHANGED <<structure, blueprint, noted, basis>>
      BY <1>6, EndType
    <2>2. call'[t].pc = "idle"
      BY <2>1, IdleType
    <2>3. storeLock' = storeLock \ {t} \/ storeLock \subseteq {t}
      BY <1>6 DEF StructureInv, LockInv, Return, Raise
    <2>4. LockInv'
      BY <2>1, <2>2, <2>3, LockKept DEF StructureInv
    <2>5. NoteInv'
      BY <2>1, <2>2 DEF StructureInv, NoteInv, Implied
    <2>6. ASSUME NEW e \in noted \ torn'
          PROVE  Follows(e)'
      <3>1. Follows(e)
        BY <2>1 DEF StructureInv, FollowInv
      <3>2. ~Noting(t, e)
        BY <1>6, <2>6 DEF Noting, Return, Raise
      <3>3. \A s \in Thread : Noting(s, e) => Noting(s, e)'
        BY <2>1, <3>2 DEF Noting
      <3> QED  BY <2>1, <3>1, <3>3 DEF Follows
    <2> QED  BY <2>1, <2>4, <2>5, <2>6 DEF StructureInv, FollowInv
  <1>7. ASSUME NEW t \in Thread, NEW e \in Event, Apply(t, e)
        PROVE  StructureInv'
    <2>1. /\ \A s \in Thread \ {t} : call'[s] = call[s]
          /\ storeLock \subseteq {t} /\ storeLock' = {t} /\ call[t].pc = "apply"
          /\ UNCHANGED <<structure, blueprint, noted, torn>>
          /\ \/ /\ call'[t].pc = "note" /\ call'[t].current = {e}
                /\ call'[t].answer = call[t].answer
                /\ basis' = [basis EXCEPT ![e] = Implied(e, call[t].answer[e])]
             \/ UNCHANGED basis /\ call'[t].pc \in {"apply", "build"}
      BY <1>7, ApplyType DEF MayHold
    <2>2. LockInv'
      BY <2>1, LockKept DEF StructureInv
    <2>3. CASE UNCHANGED basis /\ call'[t].pc \in {"apply", "build"}
      <3>1. NoteInv' /\ FollowInv'
        BY <2>1, <2>3, QuietFollows
      <3> QED  BY <2>2, <3>1 DEF StructureInv
    <2>4. CASE /\ call'[t].pc = "note" /\ call'[t].current = {e}
               /\ call'[t].answer = call[t].answer
               /\ basis' = [basis EXCEPT ![e] = Implied(e, call[t].answer[e])]
      <3>1. \A s \in Thread \ {t} : call'[s].pc # "note"
        BY <2>1 DEF StructureInv, LockInv
      <3>2. NoteInv'
        BY <2>1, <2>4, <3>1 DEF NoteInv, Implied, StoreTypeOK
      <3>3. ASSUME NEW x \in noted \ torn
            PROVE  Follows(x)'
        <4>1. CASE x = e
          BY <2>4, <4>1 DEF Follows, Noting
        <4>2. CASE x # e
          <5>1. Follows(x) /\ \A s \in Thread : call[s].pc # "note"
            BY <2>1, <3>1 DEF StructureInv, FollowInv
          <5>2. basis'[x] = basis[x]
            BY <2>4, <4>2, <3>3 DEF StoreTypeOK
          <5> QED  BY <2>1, <5>1, <5>2 DEF Follows, Noting
        <4> QED  BY <4>1, <4>2
      <3> QED  BY <2>1, <2>2, <3>2, <3>3 DEF StructureInv, FollowInv
    <2> QED  BY <2>1, <2>3, <2>4
  <1>8. ASSUME NEW t \in Thread, NEW e \in Event, Note(t, e)
        PROVE  StructureInv'
    <2>1. /\ \A s \in Thread \ {t} : call'[s] = call[s]
          /\ call[t].pc = "note" /\ e \in call[t].current
          /\ call'[t].pc \in {"apply", "build"}
          /\ blueprint' = [blueprint EXCEPT ![e] = Implied(e, call[t].answer[e])]
          /\ structure' = [structure EXCEPT ![e] = NewStructure(e, call[t].answer[e])]
          /\ noted' = noted \cup {e} /\ torn' = torn \ {e}
          /\ UNCHANGED <<basis, storeLock>>
      BY <1>8, NoteType
    <2>2. storeLock = {t}
      BY <2>1 DEF StructureInv, LockInv
    <2>3. LockInv'
      BY <2>1, <2>2, LockKept DEF StructureInv
    <2>4. \A s \in Thread : call'[s].pc # "note"
      BY <2>1, <2>2, <2>3 DEF LockInv
    <2>5. basis[e] = Implied(e, call[t].answer[e]) /\ call[t].current = {e}
      BY <2>1 DEF StructureInv, NoteInv
    <2>6. NewStructure(e, call[t].answer[e]) \subseteq Implied(e, call[t].answer[e])
      <3>1. call[t].answer[e] \in Answer
        BY DEF StoreTypeOK, CallState
      <3> QED  BY <3>1 DEF NewStructure, Retained, Implied, Answer
    <2>7. NoteInv'
      BY <2>4 DEF NoteInv
    <2>8. ASSUME NEW x \in noted' \ torn'
          PROVE  Follows(x)'
      <3>1. CASE x = e
        <4>1. blueprint'[e] = basis'[e] /\ structure'[e] \subseteq basis'[e]
          BY <2>1, <2>5, <2>6 DEF StoreTypeOK
        <4> QED  BY <3>1, <4>1 DEF Follows
      <3>2. CASE x # e
        <4>1. x \in noted \ torn /\ blueprint'[x] = blueprint[x] /\ structure'[x] = structure[x]
          BY <2>1, <2>8, <3>2 DEF StoreTypeOK
        <4>2. Follows(x)
          BY <4>1 DEF StructureInv, FollowInv
        <4>3. ASSUME NEW s \in Thread, Noting(s, x)
              PROVE  Follows(x)'
          <5>1. s = t
            BY <2>2, <4>3 DEF Noting, StructureInv, LockInv
          <5>2. x = e
            BY <2>5, <4>3, <5>1 DEF Noting
          <5> QED  BY <3>2, <5>2
        <4> QED  BY <2>1, <4>1, <4>2, <4>3 DEF Follows
      <3> QED  BY <3>1, <3>2
    <2> QED  BY <2>3, <2>7, <2>8 DEF StructureInv, FollowInv
  <1>9. ASSUME NEW t \in Thread, NEW e \in Event, Build(t, e)
        PROVE  StructureInv'
    <2>1. /\ \A s \in Thread \ {t} : call'[s] = call[s]
          /\ call[t].pc = "build" /\ call'[t].pc = "build"
          /\ UNCHANGED <<entries, storeLock>>
      BY <1>9, BuildType
    <2>2. storeLock = {t}
      BY <2>1 DEF StructureInv, LockInv
    <2>3. NoteInv' /\ FollowInv'
      BY <2>1, QuietFollows DEF entries
    <2> QED  BY <2>1, <2>2, <2>3, LockKept DEF StructureInv
  <1>10. ASSUME NEW e \in Event, ClearEvent(e)
         PROVE  StructureInv'
    <2>1. /\ storeLock = {} /\ UNCHANGED <<storeLock, call>>
          /\ blueprint' = [blueprint EXCEPT ![e] = {}]
          /\ structure' = [structure EXCEPT ![e] = {}]
          /\ basis' = [basis EXCEPT ![e] = {}]
          /\ noted' = noted \ {e} /\ torn' = torn \ {e}
      BY <1>10 DEF ClearEvent
    <2>2. \A s \in Thread : call[s].pc # "note"
      BY <2>1 DEF StructureInv, LockInv
    <2>3. LockInv' /\ NoteInv'
      BY <2>1, <2>2 DEF StructureInv, LockInv, NoteInv
    <2>4. ASSUME NEW x \in noted' \ torn'
          PROVE  Follows(x)'
      <3>1. /\ x \in noted \ torn /\ blueprint'[x] = blueprint[x]
            /\ structure'[x] = structure[x] /\ basis'[x] = basis[x]
        BY <2>1, <2>4 DEF StoreTypeOK
      <3>2. Follows(x)
        BY <3>1 DEF StructureInv, FollowInv
      <3> QED  BY <2>2, <3>1, <3>2 DEF Follows, Noting
    <2> QED  BY <2>3, <2>4 DEF StructureInv, FollowInv
  <1>11. CASE Feed
    <2>1. UNCHANGED <<entries, storeLock, call>>
      BY <1>11, FeedType
    <2> QED  BY <1>1, <2>1 DEF entries
  <1>12. CASE UNCHANGED storeVars
    BY <1>1, <1>12 DEF storeVars, entries
  <1> QED
    BY <1>2, <1>3, <1>4, <1>5, <1>6, <1>7, <1>8, <1>9, <1>10, <1>11, <1>12
    DEF StoreNext, Step

\* However many refreshes of whichever sets are under way, and in whatever
\* order they are answered, refused or fail: the structure follows the book.
THEOREM StructureCorrect == StoreSpec => []StructureFollowsBook
  <1>1. StoreInit => StructureInv
    BY IdleType DEF StoreInit, StructureInv, LockInv, NoteInv, FollowInv
  <1>2. StoreTypeOK /\ StructureInv /\ [StoreNext]_storeVars => StructureInv'
    BY StructureNext
  <1>3. StructureInv => StructureFollowsBook
    BY DEF StructureInv, LockInv, FollowInv, Follows, Noting, StructureFollowsBook
  <1> QED  BY <1>1, <1>2, <1>3, StoreTypeCorrect, PTL DEF StoreSpec

-----------------------------------------------------------------------------
(* The markets.  Markets of an older version are good until their version   *)
(* comes back, which it never does.                                         *)

Newest ==
    \A e \in Event : version[e] <= bumps /\ \A t \in Thread : call[t].since[e] <= version[e]

Good(e, m) ==
    /\ m.version <= version[e]
    /\ m.version = version[e] => e \notin invalid /\ m.markets = MarketsOf(e)

Held(t) ==
    /\ call[t].pc \notin {"fill", "build"} => call[t].result = [e \in Event |-> NotBuilt]
    /\ \A e \in Event :
          /\ Good(e, call[t].result[e])
          /\ call[t].result[e] # NotBuilt => call[t].since[e] <= call[t].result[e].version
          /\ call[t].pc = "fill" /\ call[t].seen[e].valid
                => call[t].since[e] <= call[t].seen[e].version

MarketsInv ==
    /\ Newest
    /\ \A e \in Event : Good(e, built[e])
    /\ \A t \in Thread : Held(t)

LEMMA NotBuiltGood ==
    ASSUME StoreTypeOK, NEW e \in Event PROVE Good(e, NotBuilt)
  <1>1. version[e] \in Nat
    BY DEF StoreTypeOK
  <1> QED  BY <1>1, NoMarkets DEF Good, Never

\* Markets of an event depend on its structure, its blueprint and its book.
LEMMA SameGood ==
    ASSUME NEW e \in Event, NEW m, Good(e, m),
           version'[e] = version[e], content'[e] = content[e],
           structure'[e] = structure[e], blueprint'[e] = blueprint[e],
           e \in invalid' <=> e \in invalid
    PROVE  Good(e, m)'
  BY DEF Good, MarketsOf, Retained

\* A new version makes all markets there are old.
LEMMA BumpGood ==
    ASSUME StoreTypeOK, Newest, NEW S \in SUBSET Event, NewVersions(S),
           \A e \in Event \ S :
               /\ content'[e] = content[e]
               /\ structure'[e] = structure[e] /\ blueprint'[e] = blueprint[e]
               /\ e \in invalid' <=> e \in invalid
    PROVE  /\ \A e \in Event : version'[e] <= bumps' /\ version[e] <= version'[e]
           /\ \A e \in Event, m \in BuiltMarkets : Good(e, m) => Good(e, m)'
  <1>1. /\ bumps' \in Nat /\ bumps <= bumps' /\ bumps \in Nat
        /\ version' \in [Event -> Nat] /\ version \in [Event -> Nat]
        /\ \A e \in S : bumps < version'[e] /\ version'[e] <= bumps'
        /\ \A e \in Event \ S : version'[e] = version[e]
    BY VersionsType DEF StoreTypeOK
  <1>2. \A e \in Event : version[e] <= bumps
    BY DEF Newest
  <1>3. \A e \in Event : version'[e] <= bumps' /\ version[e] <= version'[e]
    BY <1>1, <1>2
  <1>4. ASSUME NEW e \in Event, NEW m \in BuiltMarkets, Good(e, m)
        PROVE  Good(e, m)'
    <2>1. CASE e \notin S
      BY <1>1, <1>4, <2>1, SameGood
    <2>2. CASE e \in S
      <3>1. m.version \in Int /\ m.version <= version[e]
        BY <1>4 DEF Good, BuiltMarkets, Never
      <3>2. m.version < version'[e]
        BY <1>1, <1>2, <2>2, <3>1
      <3> QED  BY <1>1, <3>1, <3>2 DEF Good
    <2> QED  BY <2>1, <2>2
  <1> QED  BY <1>3, <1>4

\* A step that keeps the markets there are good, and only one thread's call
\* changes, if any.
LEMMA MarketsStep ==
    ASSUME StoreTypeOK, StoreTypeOK', MarketsInv,
           NEW T \in SUBSET Thread, \A s \in Thread \ T : call'[s] = call[s],
           \A e \in Event : version'[e] <= bumps' /\ version[e] <= version'[e],
           \A e \in Event, m \in BuiltMarkets : Good(e, m) => Good(e, m)',
           (\A e \in Event : Good(e, built[e]))',
           \A t \in T : Held(t)' /\ \A e \in Event : call'[t].since[e] <= version'[e]
    PROVE  MarketsInv'
  <1>1. ASSUME NEW s \in Thread \ T
        PROVE  Held(s)' /\ \A e \in Event : call'[s].since[e] <= version'[e]
    <2>1. call[s] \in CallState /\ \A e \in Event : call[s].result[e] \in BuiltMarkets
      BY DEF StoreTypeOK, CallState
    <2>2. Held(s)'
      BY <2>1 DEF MarketsInv, Held
    <2>3. \A e \in Event : /\ call[s].since[e] \in Int /\ version[e] \in Nat /\ version'[e] \in Nat
                           /\ call[s].since[e] <= version[e]
      BY <2>1 DEF StoreTypeOK, CallState, Never, MarketsInv, Newest
    <2> QED  BY <2>2, <2>3
  <1> QED  BY <1>1 DEF MarketsInv, Newest

\* The same, when neither books nor structures change.
LEMMA CallStep ==
    ASSUME StoreTypeOK, StoreTypeOK', MarketsInv, NEW t \in Thread,
           \A s \in Thread \ {t} : call'[s] = call[s],
           UNCHANGED <<version, bumps, content, invalid, structure, blueprint>>,
           \A e \in Event : Good(e, built'[e]),
           \A e \in Event : call'[t].since[e] <= version[e],
           call'[t].pc \notin {"fill", "build"} => call'[t].result = [e \in Event |-> NotBuilt],
           \A e \in Event :
              /\ Good(e, call'[t].result[e])
              /\ call'[t].result[e] # NotBuilt => call'[t].since[e] <= call'[t].result[e].version
              /\ call'[t].pc = "fill" /\ call'[t].seen[e].valid
                    => call'[t].since[e] <= call'[t].seen[e].version
    PROVE  MarketsInv'
  <1>1. \A e \in Event : version'[e] <= bumps' /\ version[e] <= version'[e]
    BY DEF MarketsInv, Newest, StoreTypeOK
  <1>2. \A e \in Event : \A m : Good(e, m) => Good(e, m)'
    BY SameGood
  <1>3. (\A e \in Event : Good(e, built[e]))'
    BY DEF Good, MarketsOf, Retained
  <1>4. (\A e \in Event : Good(e, call[t].result[e]))'
    BY DEF Good, MarketsOf, Retained
  <1>5. Held(t)'
    BY <1>4 DEF Held
  <1> DEFINE T == {t}
  <1>6. T \in SUBSET Thread /\ \A s \in Thread \ T : call'[s] = call[s]
    OBVIOUS
  <1>7. \A s \in T : Held(s)' /\ \A e \in Event : call'[s].since[e] <= version'[e]
    BY <1>5
  <1>8. \A e \in Event, m \in BuiltMarkets : Good(e, m) => Good(e, m)'
    BY <1>2
  <1> HIDE DEF T
  <1> QED  BY <1>1, <1>3, <1>6, <1>7, <1>8, MarketsStep

\* Markets just given to t are good and not older than the call.
LEMMA GivenGood ==
    ASSUME StoreTypeOK, MarketsInv, NEW t \in Thread, NEW e \in Event, NEW m \in BuiltMarkets,
           e \notin invalid, m.version = version[e], m = built[e] \/ m.markets = MarketsOf(e)
    PROVE  Good(e, m) /\ call[t].since[e] <= m.version
  <1>1. version[e] \in Nat
    BY DEF StoreTypeOK
  <1> QED  BY <1>1 DEF MarketsInv, Newest, Good

LEMMA MarketsNext ==
    ASSUME StoreTypeOK, StoreTypeOK', StructureInv, MarketsInv, [StoreNext]_storeVars
    PROVE  MarketsInv'
  <1> DEFINE Nothing == [e \in Event |-> NotBuilt]
  <1>0. \A e \in Event : Good(e, NotBuilt) /\ Nothing[e] = NotBuilt
    BY NotBuiltGood
  <1>1. \A t \in Thread, e \in Event :
            /\ call[t].since[e] <= version[e] /\ Good(e, built[e])
            /\ Good(e, call[t].result[e])
            /\ call[t].result[e] # NotBuilt => call[t].since[e] <= call[t].result[e].version
    BY DEF MarketsInv, Newest, Held
  <1>2. \A t \in Thread : call[t].pc \notin {"fill", "build"} => call[t].result = Nothing
    BY DEF MarketsInv, Held
  <1>3. ASSUME NEW t \in Thread, NEW a \in Asked, Call(t, a[1], a[2])
        PROVE  MarketsInv'
    <2>1. /\ \A s \in Thread \ {t} : call'[s] = call[s]
          /\ call'[t].pc \in {"look", "queue"} /\ call'[t].result = Nothing
          /\ \A e \in Event : call'[t].since[e] \in {version[e], Never}
      BY <1>3, CallType, StoreAssumption
    <2>2. UNCHANGED <<version, bumps, content, invalid, structure, blueprint, built>>
      BY <1>3 DEF Call, books, entries
    <2>3. \A e \in Event : call'[t].since[e] <= version[e]
      BY <2>1 DEF StoreTypeOK, Never
    <2> HIDE DEF Nothing
    <2> QED  BY <1>0, <1>1, <2>1, <2>2, <2>3, CallStep DEF Nothing
  <1>4. ASSUME NEW t \in Thread, Look(t)
        PROVE  MarketsInv'
    <2>1. /\ \A s \in Thread \ {t} : call'[s] = call[s]
          /\ \/ call'[t].pc \in {"begin", "queue"} /\ call'[t].result = Nothing
             \/ /\ call'[t].pc = "fill" /\ call'[t].result = call[t].result
                /\ \A e \in Event : call'[t].seen[e].valid =>
                       call'[t].seen[e].version = version[e]
          /\ call'[t].since = call[t].since
      BY <1>4, LookType
    <2>2. UNCHANGED <<version, bumps, content, invalid, structure, blueprint, built>>
      BY <1>4 DEF Look, books, entries
    <2>3. call[t].result = Nothing
      BY <1>2, <1>4 DEF Look
    <2>4. call'[t].result = Nothing
      BY <2>1, <2>3
    <2>5. \A e \in Event : /\ call'[t].since[e] <= version[e]
                           /\ call'[t].pc = "fill" /\ call'[t].seen[e].valid
                                 => call'[t].since[e] <= call'[t].seen[e].version
      BY <1>1, <2>1
    <2> QED  BY <1>0, <1>1, <2>1, <2>2, <2>4, <2>5, CallStep
  <1>5. ASSUME NEW t \in Thread, NEW e \in Event, Fill(t, e)
        PROVE  MarketsInv'
    <2>1. /\ \A s \in Thread \ {t} : call'[s] = call[s]
          /\ call'[t].since = call[t].since
      BY <1>5, FillType
    <2>2. UNCHANGED <<version, bumps, content, invalid, structure, blueprint>>
          /\ call[t].pc = "fill"
      BY <1>5 DEF Fill, books, entries
    <2>3. CASE /\ call'[t].pc \in {"begin", "queue"} /\ built' = built
               /\ call'[t].result = Nothing
      BY <1>0, <1>1, <2>1, <2>2, <2>3, CallStep
    <2>4. ASSUME NEW m \in BuiltMarkets,
                 call'[t].pc = "fill", call'[t].seen = call[t].seen,
                 call'[t].result = [call[t].result EXCEPT ![e] = m],
                 \/ /\ built' = built /\ m = built[e]
                    /\ call[t].seen[e].valid /\ m.version = call[t].seen[e].version
                 \/ /\ e \notin invalid
                    /\ built' = [built EXCEPT ![e] = m] /\ m.version = version[e]
                    /\ m = built[e] \/ m.markets = MarketsOf(e)
          PROVE  MarketsInv'
      <3>1. \A x \in Event : call[t].seen[x].valid => call[t].since[x] <= call[t].seen[x].version
        BY <2>2 DEF MarketsInv, Held
      <3>2. Good(e, m) /\ call[t].since[e] <= m.version
        BY <1>1, <2>4, <3>1, GivenGood
      <3>3. \A x \in Event : call'[t].result[x] = IF x = e THEN m ELSE call[t].result[x]
        BY <2>4 DEF StoreTypeOK, CallState
      <3>4. \A x \in Event : Good(x, built'[x])
        BY <1>1, <2>4, <3>2 DEF StoreTypeOK
      <3>5. \A x \in Event :
                /\ Good(x, call'[t].result[x])
                /\ call'[t].result[x] # NotBuilt => call'[t].since[x] <= call'[t].result[x].version
                /\ call'[t].pc = "fill" /\ call'[t].seen[x].valid
                      => call'[t].since[x] <= call'[t].seen[x].version
                /\ call'[t].since[x] <= version[x]
        BY <1>1, <2>1, <2>4, <3>1, <3>2, <3>3
      <3> QED  BY <2>1, <2>2, <2>4, <3>4, <3>5, CallStep
    <2>5. CASE call'[t].pc = "fill"
      <3>1. call'[t].pc \notin {"begin", "queue"}
        BY <2>5
      <3>2. PICK m \in BuiltMarkets :
              /\ call'[t].seen = call[t].seen
              /\ call'[t].result = [call[t].result EXCEPT ![e] = m]
              /\ \/ /\ built' = built /\ m = built[e]
                    /\ call[t].seen[e].valid /\ m.version = call[t].seen[e].version
                 \/ /\ e \notin invalid
                    /\ built' = [built EXCEPT ![e] = m] /\ m.version = version[e]
                    /\ m = built[e] \/ m.markets = MarketsOf(e)
        BY <1>5, <3>1, FillType, Zenon
      <3> QED  BY <2>4, <2>5, <3>2
    <2>6. \/ /\ call'[t].pc \in {"begin", "queue"} /\ built' = built
             /\ call'[t].result = Nothing
          \/ call'[t].pc = "fill"
      BY <1>5, FillType
    <2> HIDE DEF Nothing
    <2> QED  BY <2>3, <2>5, <2>6
  <1>6. ASSUME NEW t \in Thread,
               TakeTurn(t) \/ Begin(t) \/ \E r \in Replies(call[t].ids) : Fetched(t, r)
        PROVE  MarketsInv'
    <2>1. /\ \A s \in Thread \ {t} : call'[s] = call[s]
          /\ call'[t].pc \in {"look", "begin", "fetch", "apply"}
          /\ call'[t].result = call[t].result /\ call'[t].since = call[t].since
          /\ UNCHANGED <<entries, built, version, bumps, content, invalid>>
      BY <1>6, MoveType
    <2>2. call[t].result = Nothing
      BY <1>2, <1>6 DEF TakeTurn, Begin, Fetched
    <2> QED  BY <1>0, <1>1, <2>1, <2>2, CallStep DEF entries
  <1>7. ASSUME NEW t \in Thread, Return(t) \/ Raise(t)
        PROVE  MarketsInv'
    <2>1. /\ \A s \in Thread \ {t} : call'[s] = call[s]
          /\ call'[t] = Idle
          /\ UNCHANGED <<structure, blueprint, built, version, bumps, content, invalid>>
      BY <1>7, EndType
    <2>2. call'[t].pc = "idle" /\ call'[t].result = Nothing
      BY <2>1, IdleType
    <2>3. \A e \in Event : call'[t].since[e] <= version[e]
      BY <2>1 DEF Idle, Never, StoreTypeOK
    <2> QED  BY <1>0, <1>1, <2>1, <2>2, <2>3, CallStep
  <1>8. ASSUME NEW t \in Thread, NEW e \in Event, Apply(t, e)
        PROVE  MarketsInv'
    <2>1. /\ \A s \in Thread \ {t} : call'[s] = call[s]
          /\ call[t].pc = "apply"
          /\ call'[t].result = call[t].result /\ call'[t].since = call[t].since
          /\ UNCHANGED <<structure, blueprint, built>>
          /\ \/ Accept(t, e, {e}) /\ call'[t].pc = "note"
             \/ UNCHANGED <<version, bumps, content, invalid>> /\ call'[t].pc \in {"apply", "build"}
      BY <1>8, ApplyType
    <2>2. call[t].result = Nothing
      BY <1>2, <2>1
    <2>3. CASE UNCHANGED <<version, bumps, content, invalid>> /\ call'[t].pc \in {"apply", "build"}
      BY <1>0, <1>1, <2>1, <2>2, <2>3, CallStep
    <2>4. CASE Accept(t, e, {e}) /\ call'[t].pc = "note"
      <3> DEFINE S == {e}
      <3>1. /\ S \in SUBSET Event /\ NewVersions(S)
            /\ \A x \in Event \ S : content'[x] = content[x] /\ (x \in invalid' <=> x \in invalid)
        BY <2>4 DEF Accept, OnlyOf
      <3> HIDE DEF S
      <3>2. /\ \A x \in Event : version'[x] <= bumps' /\ version[x] <= version'[x]
            /\ \A x \in Event, m \in BuiltMarkets : Good(x, m) => Good(x, m)'
        BY <2>1, <3>1, BumpGood DEF MarketsInv
      <3>3. \A x \in Event : Good(x, built[x])'
        BY <1>1, <2>1, <3>2 DEF StoreTypeOK
      <3>4. \A x \in Event : call'[t].since[x] <= version'[x]
        <4>1. \A x \in Event : /\ call[t].since[x] \in Int /\ version[x] \in Nat
                               /\ version'[x] \in Nat
          BY DEF StoreTypeOK, CallState, Never
        <4> QED  BY <1>1, <2>1, <3>2, <4>1
      <3>5. \A x \in Event : Good(x, NotBuilt)'
        BY <1>0, <3>2, NoMarkets
      <3>6. Held(t)'
        BY <2>1, <2>2, <2>4, <3>5 DEF Held
      <3> DEFINE T == {t}
      <3>7. T \in SUBSET Thread /\ \A s \in Thread \ T : call'[s] = call[s]
        BY <2>1
      <3>8. \A s \in T : Held(s)' /\ \A x \in Event : call'[s].since[x] <= version'[x]
        BY <3>4, <3>6
      <3> HIDE DEF T
      <3> QED  BY <3>2, <3>3, <3>7, <3>8, MarketsStep
    <2> QED  BY <2>1, <2>3, <2>4
  <1>9. ASSUME NEW t \in Thread, NEW e \in Event, Note(t, e)
        PROVE  MarketsInv'
    <2>1. /\ \A s \in Thread \ {t} : call'[s] = call[s]
          /\ call[t].pc = "note" /\ call'[t].pc \in {"apply", "build"}
          /\ call'[t].result = call[t].result /\ call'[t].since = call[t].since
          /\ blueprint' = [blueprint EXCEPT ![e] = Implied(e, call[t].answer[e])]
          /\ structure' = [structure EXCEPT ![e] = NewStructure(e, call[t].answer[e])]
          /\ built' = [built EXCEPT ![e] = NotBuilt]
          /\ UNCHANGED <<version, bumps, content, invalid>>
      BY <1>9, NoteType
    <2>2. storeLock = {t}
      BY <2>1 DEF StructureInv, LockInv
    <2>3. \A s \in Thread : call[s].pc \notin {"fill", "build"}
      BY <2>1, <2>2 DEF StructureInv, LockInv
    <2>4. \A s \in Thread : call'[s].result = Nothing
      BY <1>2, <2>1, <2>3
    <2>5. \A x \in Event : Good(x, NotBuilt)'
      <3>1. \A x \in Event : version'[x] \in Nat
        BY DEF StoreTypeOK
      <3> QED  BY <3>1, NoMarkets DEF Good, Never
    <2>6. \A x \in Event : Good(x, built[x])'
      <3>1. ASSUME NEW x \in Event, x # e
            PROVE  Good(x, built[x])'
        <4>1. built'[x] = built[x] /\ structure'[x] = structure[x] /\ blueprint'[x] = blueprint[x]
          BY <2>1, <3>1 DEF StoreTypeOK
        <4> QED  BY <1>1, <2>1, <4>1 DEF Good, MarketsOf, Retained, MarketsInv
      <3>2. built'[e] = NotBuilt
        BY <2>1 DEF StoreTypeOK
      <3>3. Good(e, built[e])'
        BY <2>5, <3>2
      <3> QED  BY <3>1, <3>3
    <2>7. \A x \in Event, s \in Thread : call'[s].since[x] <= version'[x]
      BY <1>1, <2>1
    <2>8. ASSUME NEW s \in Thread
          PROVE  Held(s)'
      <3>1. \A x \in Event : call'[s].result[x] = NotBuilt
        BY <2>4
      <3>2. call'[s].pc # "fill"
        BY <2>1, <2>3
      <3> QED  BY <2>4, <2>5, <3>1, <3>2 DEF Held
    <2> QED  BY <2>1, <2>6, <2>7, <2>8 DEF MarketsInv, Newest
  <1>10. ASSUME NEW t \in Thread, NEW e \in Event, Build(t, e)
         PROVE  MarketsInv'
    <2>1. /\ \A s \in Thread \ {t} : call'[s] = call[s]
          /\ call'[t].pc = "build" /\ call'[t].since = call[t].since
          /\ UNCHANGED <<version, bumps, content, invalid, entries>>
          /\ \/ UNCHANGED built /\ call'[t].result = call[t].result
             \/ \E m \in BuiltMarkets :
                   /\ call'[t].result = [call[t].result EXCEPT ![e] = m]
                   /\ e \notin invalid
                   /\ built' = [built EXCEPT ![e] = m] /\ m.version = version[e]
                   /\ m = built[e] \/ m.markets = MarketsOf(e)
      BY <1>10, BuildType
    <2>2. CASE UNCHANGED built /\ call'[t].result = call[t].result
      BY <1>1, <2>1, <2>2, CallStep DEF entries
    <2>3. ASSUME NEW m \in BuiltMarkets,
                 call'[t].result = [call[t].result EXCEPT ![e] = m],
                 e \notin invalid, built' = [built EXCEPT ![e] = m], m.version = version[e],
                 m = built[e] \/ m.markets = MarketsOf(e)
          PROVE  MarketsInv'
      <3>1. Good(e, m) /\ call[t].since[e] <= m.version
        BY <2>3, GivenGood
      <3>2. \A x \in Event : call'[t].result[x] = IF x = e THEN m ELSE call[t].result[x]
        BY <2>3 DEF StoreTypeOK, CallState
      <3>3. \A x \in Event : Good(x, built'[x])
        BY <1>1, <2>3, <3>1 DEF StoreTypeOK
      <3>4. \A x \in Event :
                /\ Good(x, call'[t].result[x])
                /\ call'[t].result[x] # NotBuilt => call'[t].since[x] <= call'[t].result[x].version
                /\ call'[t].since[x] <= version[x]
        BY <1>1, <2>1, <3>1, <3>2
      <3> QED  BY <2>1, <3>3, <3>4, CallStep DEF entries
    <2> QED  BY <2>1, <2>2, <2>3
  <1>11. ASSUME NEW S \in SUBSET Event, NewVersions(S), call' = call,
                \A e \in Event \ S :
                    /\ content'[e] = content[e]
                    /\ structure'[e] = structure[e] /\ blueprint'[e] = blueprint[e]
                    /\ e \in invalid' <=> e \in invalid,
                \A e \in Event : built'[e] = built[e] \/ built'[e] = NotBuilt
         PROVE  MarketsInv'
    <2>1. /\ \A x \in Event : version'[x] <= bumps' /\ version[x] <= version'[x]
          /\ \A x \in Event, m \in BuiltMarkets : Good(x, m) => Good(x, m)'
      BY <1>11, BumpGood DEF MarketsInv
    <2>2. \A x \in Event : Good(x, built[x])'
      BY <1>0, <1>1, <1>11, <2>1, NoMarkets DEF StoreTypeOK, MarketsInv
    <2> DEFINE T == {}
    <2>3. T \in SUBSET Thread /\ \A s \in Thread \ T : call'[s] = call[s]
      BY <1>11
    <2>4. \A s \in T : Held(s)' /\ \A x \in Event : call'[s].since[x] <= version'[x]
      OBVIOUS
    <2> HIDE DEF T
    <2> QED  BY <2>1, <2>2, <2>3, <2>4, MarketsStep
  <1>12. ASSUME NEW e \in Event, ClearEvent(e)
         PROVE  MarketsInv'
    <2> DEFINE S == {e}
    <2>1. S \in SUBSET Event /\ NewVersions(S) /\ call' = call
      BY <1>12 DEF ClearEvent, Forget
    <2>2. \A x \in Event \ S :
              /\ content'[x] = content[x]
              /\ structure'[x] = structure[x] /\ blueprint'[x] = blueprint[x]
              /\ x \in invalid' <=> x \in invalid
      BY <1>12 DEF ClearEvent, Forget, StoreTypeOK
    <2>3. \A x \in Event : built'[x] = built[x] \/ built'[x] = NotBuilt
      BY <1>12 DEF ClearEvent, StoreTypeOK
    <2> HIDE DEF S
    <2> QED  BY <1>11, <2>1, <2>2, <2>3
  <1>13. CASE Feed
    <2> PICK S \in SUBSET Event : Write(S) \/ Invalidate(S)
      BY <1>13, FeedType
    <2>1. UNCHANGED <<entries, built, call>>
      BY <1>13, FeedType
    <2>2. NewVersions(S) /\ \A x \in Event \ S :
              content'[x] = content[x] /\ (x \in invalid' <=> x \in invalid)
      BY DEF Write, OnlyOf, Invalidate
    <2> QED  BY <1>11, <2>1, <2>2 DEF entries
  <1>14. CASE UNCHANGED storeVars
    <2>1. UNCHANGED <<version, bumps, content, invalid, structure, blueprint, built, call>>
      BY <1>14 DEF storeVars, books, entries
    <2> QED
      BY <2>1 DEF MarketsInv, Newest, Held, Good, MarketsOf, Retained
  <1> QED
    BY <1>3, <1>4, <1>5, <1>6, <1>7, <1>8, <1>9, <1>10, <1>12, <1>13, <1>14
    DEF StoreNext, Step

\* The markets that calls return are of the version they say, and not older
\* than the call, whatever the feed writes or invalidates meanwhile.
THEOREM ResultsCorrect == StoreSpec => []ResultsCurrent
  <1>1. StoreInit => MarketsInv
    <2> SUFFICES ASSUME StoreInit PROVE MarketsInv
      OBVIOUS
    <2>1. \A t \in Thread : /\ call[t].pc = "idle" /\ call[t].result = [e \in Event |-> NotBuilt]
                            /\ call[t].since = [e \in Event |-> Never]
      BY IdleType DEF StoreInit, Idle
    <2>2. \A e \in Event : version[e] = 0 /\ bumps = 0 /\ built[e] = NotBuilt
      BY DEF StoreInit, BooksInit
    <2>3. \A e \in Event : Good(e, NotBuilt)
      BY <2>2, NoMarkets DEF Good, Never
    <2> QED  BY <2>1, <2>2, <2>3 DEF MarketsInv, Newest, Held, Never
  <1>2. StoreTypeOK /\ StoreTypeOK' /\ StructureInv /\ MarketsInv /\ [StoreNext]_storeVars
        => MarketsInv'
    BY MarketsNext
  <1>3. StoreInit => StructureInv
    BY IdleType DEF StoreInit, StructureInv, LockInv, NoteInv, FollowInv
  <1>4. StoreTypeOK /\ StructureInv /\ [StoreNext]_storeVars => StructureInv'
    BY StructureNext
  <1>5. StoreTypeOK /\ MarketsInv => ResultsCurrent
    <2> SUFFICES ASSUME StoreTypeOK, MarketsInv, NEW t \in Thread, NEW e \in Event,
                        call[t].result[e] # NotBuilt
                 PROVE  /\ call[t].result[e].version >= call[t].since[e]
                        /\ call[t].result[e].version = version[e] =>
                               e \notin invalid /\ call[t].result[e].markets = MarketsOf(e)
      BY DEF ResultsCurrent
    <2>1. call[t].result[e].version \in Int /\ call[t].since[e] \in Int
      BY DEF StoreTypeOK, CallState, BuiltMarkets, Never
    <2> QED  BY <2>1 DEF MarketsInv, Held, Good
  <1> QED  BY <1>1, <1>2, <1>3, <1>4, <1>5, StoreTypeCorrect, PTL DEF StoreSpec
=============================================================================
