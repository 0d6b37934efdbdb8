----------------------------- MODULE MarketStore -----------------------------
(***************************************************************************)
(* src/src/fastprophetx/market_store.py: the structure of markets, as REST *)
(* answers list it, overlaid with the live depth of a MarketCache.  The    *)
(* cache is what Books promises of it.  Threads call markets and refresh;  *)
(* the feed writes and invalidates books without the store's lock.         *)
(*                                                                         *)
(* An event's structure is the set of selections it lists; its markets are *)
(* the depth of each of them.  A list of markets that lists no selection   *)
(* and the empty list are the same here, as in what is returned of them.   *)
(***************************************************************************)
EXTENDS Books

CONSTANTS
    Sel,      \* the selections of an event
    Asked,    \* the calls made: "markets", "refresh" or "forced" (refresh), and
              \* the set of events it is made for
    Answers,  \* the answers the environment may give for each event
    MaxCalls, \* bound: calls begun
    MaxFeed   \* bound: books written, invalidated or cleared

Unknown == -1   \* the depth of a selection the cache does not know, for which a
                \* blueprint has a level without price or quantity
Unlisted == -2  \* what markets show of a selection they do not list
Never == -1     \* the version of markets that were not built

\* What get_multiple_markets says of an event: it may not mention it.
Answer == {a \in [explicit : BOOLEAN, listed : SUBSET Sel] : a.explicit \/ a.listed = {}}
NoAnswer == [explicit |-> FALSE, listed |-> {}]

ASSUME StoreAssumption ==
    /\ Answers \in [Event -> SUBSET Answer]
    /\ \A c \in Content : c \in [Sel -> Int]
    /\ Blank = [s \in Sel |-> Unknown]
    /\ Asked \subseteq {"markets", "refresh", "forced"} \X ((SUBSET Event) \ {{}})
    /\ MaxCalls \in Nat /\ MaxFeed \in Nat

NotBuilt == [version |-> Never, markets |-> [s \in Sel |-> Unlisted]]

NotSeen == [version |-> Never, valid |-> FALSE]

\* A thread between two calls.
Idle == [pc |-> "idle", force |-> FALSE, ids |-> {}, queued |-> FALSE, todo |-> {},
         seen |-> [e \in Event |-> NotSeen],
         answer |-> [e \in Event |-> NoAnswer], current |-> {},
         result |-> [e \in Event |-> NotBuilt],
         since |-> [e \in Event |-> Never]]

VARIABLES
    structure,  \* _structures
    blueprint,  \* _blueprints, empty if absent
    noted,      \* the events in _structures
    built,      \* _materialized
    storeLock,  \* the thread that holds _lock, if any
    call,       \* the threads; queued: holds the refresh lock of its ids
    calls,      \* calls begun
    feeds,      \* books written, invalidated or cleared by others
    basis,      \* history: the selections the last accepted answer implies
    torn        \* history: events whose refresh raised after the commit

entries == <<structure, blueprint, noted, basis, torn>>
storeVars == <<books, entries, built, storeLock, call, calls, feeds>>

StoreInit ==
    /\ BooksInit
    /\ structure = [e \in Event |-> {}] /\ blueprint = [e \in Event |-> {}]
    /\ noted = {}
    /\ built = [e \in Event |-> NotBuilt]
    /\ storeLock = {}
    /\ call = [t \in Thread |-> Idle]
    /\ calls = 0 /\ feeds = 0
    /\ basis = [e \in Event |-> {}] /\ torn = {}

-----------------------------------------------------------------------------
\* Mutant: the lock is not asked for.
AnyoneMay(t) == TRUE

\* _lock is reentrant.
MayHold(t) == storeLock \subseteq {t}

Known(c) == {s \in Sel : c[s] # Unknown}

\* retain_surviving_structure: what the blueprint lists and the cache knows.
Retained(e, listed) == IF e \in invalid THEN {} ELSE listed \cap Known(content[e])

\* Mutant: a selection that the cache does not know keeps the blueprint's level.
OverlayKnown(listed, c) == [s \in Sel |-> IF s \notin listed THEN Unlisted ELSE c[s]]

Overlay(listed, c) ==
    [s \in Sel |-> IF s \notin listed THEN Unlisted
                   ELSE IF c[s] = Unknown THEN 0 ELSE c[s]]

\* What the event's markets are, now.
MarketsOf(e) ==
    Overlay(IF structure[e] # {} THEN structure[e] ELSE Retained(e, blueprint[e]), content[e])

\* Mutant: what was built once is good for ever.
ReuseAny(e, v) == built[e].version # Never

Reusable(e, v) == built[e].version = v

\* _materialize_event_locked, of the book as it is now, for the caller t.
Materialize(t, e) ==
    LET markets == IF Reusable(e, version[e]) THEN built[e]
                   ELSE [version |-> version[e], markets |-> MarketsOf(e)]
    IN  /\ built' = [built EXCEPT ![e] = markets]
        /\ call' = [call EXCEPT ![t].todo = @ \ {e}, ![t].result[e] = markets]

-----------------------------------------------------------------------------
(* markets, and the beginning of refresh.                                  *)

\* markets looks first; refresh takes its turn first, and may be forced.
Call(t, kind, ids) ==
    /\ call[t].pc = "idle"
    /\ calls < MaxCalls
    /\ calls' = calls + 1
    /\ call' = [call EXCEPT ![t] =
           [Idle EXCEPT !.pc = IF kind = "markets" THEN "look" ELSE "queue",
                        !.force = kind = "forced",
                        !.ids = ids,
                        !.since = [e \in Event |-> IF e \in ids THEN version[e] ELSE Never]]]
    /\ UNCHANGED <<books, entries, built, storeLock, feeds>>

\* Mutant: a thread goes on to its turn without giving the lock back.
KeepsLock(t) == storeLock' = {t}

LeavesLock(t) == storeLock' = {}

\* No current markets: from the first look on to refresh, from the second to
\* the request.
NotCurrent(t) ==
    /\ call' = [call EXCEPT ![t].pc = IF call[t].queued THEN "begin" ELSE "queue",
                            ![t].todo = {}, ![t].seen = Idle.seen,
                            ![t].result = Idle.result]
    /\ LeavesLock(t)

\* _current_if_fresh_locked up to its loop: the structures are there and, by
\* the clock and the max_age of the call, not too old; all versions are read
\* at once.  Any structure may be too old.
Look(t) ==
    /\ call[t].pc = "look" /\ MayHold(t)
    /\ \/ NotCurrent(t)
       \/ /\ call[t].ids \subseteq noted
          /\ storeLock' = {t}
          /\ call' = [call EXCEPT ![t].pc = "fill", ![t].todo = call[t].ids,
                 ![t].seen = [e \in Event |-> IF e \in call[t].ids
                     THEN [version |-> version[e], valid |-> e \notin invalid]
                     ELSE NotSeen]]
    /\ UNCHANGED <<books, entries, built, calls, feeds>>

\* One event of the loop.
Fill(t, e) ==
    LET seen == call[t].seen[e]
    IN  /\ call[t].pc = "fill" /\ e \in call[t].todo
        /\ \/ /\ seen.valid /\ Reusable(e, seen.version)
              /\ call' = [call EXCEPT ![t].todo = @ \ {e}, ![t].result[e] = built[e]]
              /\ UNCHANGED <<built, storeLock>>
           \/ /\ seen.valid /\ ~Reusable(e, seen.version) /\ e \notin invalid
              /\ Materialize(t, e)
              /\ UNCHANGED storeLock
           \/ /\ ~seen.valid \/ (~Reusable(e, seen.version) /\ e \in invalid)
              /\ NotCurrent(t)
              /\ UNCHANGED built
        /\ UNCHANGED <<books, entries, calls, feeds>>

\* One refresh of a set of ids at a time.
TakeTurn(t) ==
    /\ call[t].pc = "queue" /\ MayHold(t)
    /\ \A s \in Thread \ {t} : ~(call[s].queued /\ call[s].ids = call[t].ids)
    /\ call' = [call EXCEPT ![t].queued = TRUE,
                            ![t].pc = IF call[t].force THEN "begin" ELSE "look"]
    /\ UNCHANGED <<books, entries, built, storeLock, calls, feeds>>

-----------------------------------------------------------------------------
(* refresh: the request, its answer, and the loop over the events of it.   *)

Begin(t) ==
    /\ call[t].pc = "begin"
    /\ Request(t, call[t].ids)
    /\ call' = [call EXCEPT ![t].pc = "fetch"]
    /\ UNCHANGED <<entries, built, storeLock, calls, feeds>>

Fetched(t, answer) ==
    /\ call[t].pc = "fetch"
    /\ call' = [call EXCEPT ![t].pc = "apply", ![t].answer = answer, ![t].todo = call[t].ids]
    /\ UNCHANGED <<books, entries, built, storeLock, calls, feeds>>

\* The loop goes on, or the markets of all its events are made.
Done(t, e) ==
    LET left == call[t].todo \ {e}
    IN  call' = [call EXCEPT ![t].pc = IF left = {} THEN "build" ELSE "apply",
                             ![t].todo = IF left = {} THEN call[t].ids ELSE left,
                             ![t].answer[e] = NoAnswer, ![t].current = {}]

\* What the answer says the event's markets are.
Implied(e, answer) == IF answer.explicit THEN answer.listed ELSE blueprint[e]

Apply(t, e) ==
    /\ call[t].pc = "apply" /\ e \in call[t].todo /\ MayHold(t)
    /\ storeLock' = {t}
    /\ \/ /\ Accept(t, e, {e})
          /\ basis' = [basis EXCEPT ![e] = Implied(e, call[t].answer[e])]
          /\ call' = [call EXCEPT ![t].pc = "note", ![t].current = {e}]
          /\ UNCHANGED <<structure, blueprint, noted, torn>>
       \/ /\ e \notin fresh[t]
          /\ Done(t, e)
          /\ UNCHANGED <<books, entries>>
    /\ UNCHANGED <<built, calls, feeds>>

\* The structure an accepted answer leaves, the book being as it is now.
NewStructure(e, answer) ==
    IF answer.listed # {} THEN answer.listed ELSE Retained(e, Implied(e, answer))

\* The rest of the loop's body, when the book has the answer.
Note(t, e) ==
    LET answer == call[t].answer[e]
    IN  /\ call[t].pc = "note" /\ e \in call[t].current
        /\ blueprint' = [blueprint EXCEPT ![e] = Implied(e, answer)]
        /\ structure' = [structure EXCEPT ![e] = NewStructure(e, answer)]
        /\ noted' = noted \cup {e}
        /\ torn' = torn \ {e}
        /\ built' = [built EXCEPT ![e] = NotBuilt]
        /\ Done(t, e)
        /\ UNCHANGED <<books, basis, storeLock, calls, feeds>>

\* No markets for an invalid event, whatever was built before.
Build(t, e) ==
    /\ call[t].pc = "build" /\ e \in call[t].todo
    /\ \/ /\ e \in invalid
          /\ call' = [call EXCEPT ![t].todo = @ \ {e}]
          /\ UNCHANGED built
       \/ e \notin invalid /\ Materialize(t, e)
    /\ UNCHANGED <<books, entries, storeLock, calls, feeds>>

Return(t) ==
    /\ call[t].pc \in {"fill", "build"} /\ call[t].todo = {}
    /\ call' = [call EXCEPT ![t] = Idle]
    /\ storeLock' = {}
    /\ UNCHANGED <<books, entries, built, calls, feeds>>

\* The request fails, an answer is malformed, or a callback of the cache
\* raises when the book has changed and the structure has not.
Raise(t) ==
    /\ \/ call[t].pc = "fetch"
       \/ call[t].pc \in {"apply", "note"} /\ MayHold(t)
    /\ GiveUp(t)
    /\ torn' = torn \cup call[t].current
    /\ call' = [call EXCEPT ![t] = Idle]
    /\ storeLock' = storeLock \ {t}
    /\ UNCHANGED <<structure, blueprint, noted, basis, built, calls, feeds>>

-----------------------------------------------------------------------------
\* clear_event of the store, under its lock.
ClearEvent(e) ==
    /\ storeLock = {}
    /\ feeds < MaxFeed
    /\ feeds' = feeds + 1
    /\ Forget(e)
    /\ structure' = [structure EXCEPT ![e] = {}]
    /\ blueprint' = [blueprint EXCEPT ![e] = {}]
    /\ noted' = noted \ {e}
    /\ basis' = [basis EXCEPT ![e] = {}] /\ torn' = torn \ {e}
    /\ built' = [built EXCEPT ![e] = NotBuilt]
    /\ UNCHANGED <<storeLock, call, calls>>

\* The WebSocket thread and whoever invalidates need the cache's lock only.
Feed ==
    /\ feeds < MaxFeed
    /\ feeds' = feeds + 1
    /\ \E e \in Event : Write({e}) \/ Invalidate({e})
    /\ UNCHANGED <<entries, built, storeLock, call, calls>>

\* Every answer to a request for ids.
Replies(ids) ==
    {r \in [Event -> (UNION {Answers[e] : e \in Event}) \cup {NoAnswer}] :
        \A e \in Event : r[e] \in IF e \in ids THEN Answers[e] ELSE {NoAnswer}}

Step(t) ==
    \/ Look(t) \/ TakeTurn(t) \/ Begin(t) \/ Return(t) \/ Raise(t)
    \/ \E e \in Event : Fill(t, e) \/ Apply(t, e) \/ Note(t, e) \/ Build(t, e)
    \/ \E answer \in Replies(call[t].ids) : Fetched(t, answer)

StoreNext ==
    \/ \E t \in Thread :
          \/ Step(t)
          \/ \E a \in Asked : Call(t, a[1], a[2])
    \/ \E e \in Event : ClearEvent(e)
    \/ Feed

StoreSpec == StoreInit /\ [][StoreNext]_storeVars
FairStoreSpec == StoreSpec /\ \A t \in Thread : WF_storeVars(Step(t))

-----------------------------------------------------------------------------
(* Properties.                                                             *)

\* Markets show depth: none for a selection that the cache does not know.
Shown == Int \ {Unknown}
BuiltMarkets == [version : Nat \cup {Never}, markets : [Sel -> Shown]]

CallState ==
    [pc : {"idle", "look", "fill", "queue", "begin", "fetch", "apply", "note", "build"},
     force : BOOLEAN, ids : SUBSET Event, queued : BOOLEAN, todo : SUBSET Event,
     seen : [Event -> [version : Nat \cup {Never}, valid : BOOLEAN]],
     answer : [Event -> Answer], current : SUBSET Event,
     result : [Event -> BuiltMarkets], since : [Event -> Nat \cup {Never}]]

\* Every variable stays in its range, and no markets show a level of a blueprint
\* (market_store.py:432-437).
StoreTypeOK ==
    /\ invalid \subseteq Event /\ content \in [Event -> Content]
    /\ bumps \in Nat /\ version \in [Event -> Nat]
    /\ fresh \in [Thread -> SUBSET Event]
    /\ structure \in [Event -> SUBSET Sel] /\ blueprint \in [Event -> SUBSET Sel]
    /\ noted \subseteq Event
    /\ built \in [Event -> BuiltMarkets]
    /\ storeLock \subseteq Thread
    /\ call \in [Thread -> CallState]
    /\ calls \in Nat /\ feeds \in Nat
    /\ basis \in [Event -> SUBSET Sel] /\ torn \subseteq Event

\* The markets a call is about to return are not older than the call, and are
\* the structure overlaid with the depth of exactly the book of their version:
\* markets materialized before are used again only while neither changed
\* (market_store.py:17-19).
ResultsCurrent ==
    \A t \in Thread, e \in Event :
        LET result == call[t].result[e]
        IN  result # NotBuilt =>
                /\ result.version >= call[t].since[e]
                /\ result.version = version[e] =>
                       e \notin invalid /\ result.markets = MarketsOf(e)

\* Whenever the store can be read, an event's structure is what the answer
\* says that its book came from, however many refreshes of overlapping sets
\* are under way and in whatever order they are answered; unless a callback
\* raised between the two (market_store.py:97-128).
StructureFollowsBook ==
    storeLock = {} =>
        \A e \in noted \ torn : blueprint[e] = basis[e] /\ structure[e] \subseteq basis[e]

\* Every call returns or raises: nobody waits for the store's lock or for a
\* turn for ever (market_store.py:57-89).
EveryCallEnds == \A t \in Thread : call[t].pc # "idle" ~> call[t].pc = "idle"
=============================================================================
