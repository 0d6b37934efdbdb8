------------------------------- MODULE LiveFeed -------------------------------
(***************************************************************************)
(* A MarketCache in the system it is built for: the exchange, which has    *)
(* the true depth and publishes every change of it; the WebSocket channel, *)
(* which carries what is published to the cache and may break; and the     *)
(* threads that refresh the cache from the exchange's REST interface       *)
(* (MarketStore.refresh and MarketCache.reconcile are the same to the      *)
(* cache).  The question is the one the cache exists for: are the books it *)
(* calls valid the exchange's books?                                       *)
(*                                                                         *)
(* The exchange is not part of the repository.  It is modelled from the    *)
(* payloads the tests feed the client: a change of one price               *)
(* ("market_selections" with one level), or a market line sent whole, with *)
(* an empty list for a selection without offers ("selections").            *)
(***************************************************************************)
EXTENDS MarketCache, Sequences, SequencesExt

CONSTANTS
    Modes,       \* ways in which the exchange may publish its changes
    SlotKey,     \* the selection at each position of each line
    KeyScope,    \* the sequence a selection's messages belong to
    RefreshWhen, \* states of the link in which the client refreshes
    MayEmpty,    \* TRUE: a selection may lose its last offer
    MaxChange    \* bound: changes of the exchange's books

\* wholeLines: changes are published as whole lines, not price by price;
\* reorder: a message may overtake the one before it;
\* layoutKnown: an earlier answer offered every selection.
Mode == [wholeLines : BOOLEAN, reorder : BOOLEAN, layoutKnown : BOOLEAN]

ASSUME LiveFeedAssumption ==
    /\ Modes \subseteq Mode
    /\ MayEmpty \in BOOLEAN
    /\ SlotKey \in [Line -> [Slot -> Key]]
    /\ KeyScope \in [Key -> Scope]
    /\ RefreshWhen \subseteq {"up", "lost", "down"}
    /\ MaxChange \in Nat

VARIABLES
    mode,     \* how the exchange publishes
    market,   \* the exchange's depth
    feed,     \* messages published and not yet received
    changes,  \* changes made so far; the sequence number of the last message
    link      \* "up", "lost" (broken, unnoticed), "down"

exchange == <<mode, market, feed, changes, link>>
allVars == <<vars, exchange>>

-----------------------------------------------------------------------------
(* What the exchange sends.                                                *)

Offered(b, k) == \E p \in Price : b[k][p] # 0
Levels(b, k) == [p \in Price |-> IF b[k][p] = 0 THEN Keep ELSE b[k][p]]
Whole(b, k) == IF Offered(b, k) THEN [kind |-> "reset", op |-> Levels(b, k)]
               ELSE Untouched
Positions(b) == [l \in Line |-> [s \in Slot |->
                    IF Offered(b, SlotKey[l][s]) THEN SlotKey[l][s] ELSE NoKey]]
KeysOnLine(l) == {SlotKey[l][s] : s \in Slot}
LineOf(k) == CHOOSE l \in Line : k \in KeysOnLine(l)

LineBody(b, l) ==
    [groups |-> [k \in Key |-> IF k \in KeysOnLine(l) THEN Whole(b, k) ELSE Untouched],
     sent |-> {l}, slots |-> Positions(b)]

PriceBody(b, k, p) ==
    [NoBody EXCEPT !.groups[k] =
        [kind |-> "merge", op |-> [Untouched.op EXCEPT ![p] = b[k][p]]]]

\* The answer of get_multiple_markets for one event.
RestBody(whole, b, e) ==
    [groups |-> [k \in Key |-> IF KeyEvent[k] = e THEN Whole(b, k) ELSE Untouched],
     sent |-> {l \in Line : whole /\ MarketEvent[LineMarket[l]] = e},
     slots |-> IF whole THEN Positions(b) ELSE NoBody.slots]

Message(whole, b, k, p, n) ==
    [event |-> KeyEvent[k], scope |-> KeyScope[k], seq |-> n, replace |-> FALSE,
     body |-> IF whole THEN LineBody(b, LineOf(k)) ELSE PriceBody(b, k, p)]

MarketBook == [Key -> [Price -> Qty \cup {0}]]
Wholes == {m.wholeLines : m \in Modes}

Published ==
    {Message(w, b, k, p, n) :
        w \in Wholes, b \in MarketBook, k \in Key, p \in Price, n \in 1..MaxChange}
RestBodies == [e \in Event |-> {RestBody(w, b, e) : w \in Wholes, b \in MarketBook}]

\* The updates and answers of the cache are what this exchange sends.
ASSUME ExchangeAssumption == Updates = Published /\ Bodies = RestBodies

\* The exchange the cache can follow: a market has one line, a selection one
\* position, on a line of its event.  A client that was sent whole lines knows their
\* layout; messages overtake one another only as whole lines with a sequence each.
SteadyExchange ==
    /\ Price # {}
    /\ \A l, j \in Line : LineMarket[l] = LineMarket[j] => l = j
    /\ \A l, j \in Line : \A s, i \in Slot : SlotKey[l][s] = SlotKey[j][i] => l = j /\ s = i
    /\ \A k \in Key : \E l \in Line : k \in KeysOnLine(l)
    /\ \A l \in Line, s \in Slot : KeyEvent[SlotKey[l][s]] = MarketEvent[LineMarket[l]]
    /\ \A m \in Modes :
          /\ m.layoutKnown = m.wholeLines
          /\ m.reorder => /\ m.wholeLines
                          /\ \A k, j \in Key : KeyScope[k] = KeyScope[j] <=> LineOf(k) = LineOf(j)

-----------------------------------------------------------------------------
\* The layout after an answer in which every selection was offered.
FullLayout ==
    [m \in Market |->
        LET ls == {l \in Line : LineMarket[l] = m}
        IN  IF ls = {} THEN NoLayout
            ELSE SlotKey[CHOOSE l \in ls : \A j \in ls : j <= l]]

\* set_subscriptions has invalidated the books; the connection is not made yet.
LiveInit ==
    /\ mode \in Modes
    /\ clock = 0
    /\ depth = [k \in Key |-> Empty]
    /\ known = {}
    /\ change = [k \in Key |-> [p \in Price |-> NoChange]]
    /\ resetAt = [k \in Key |-> 0]
    /\ removedAt = [k \in Key |-> 0]
    /\ replacedAt = [e \in Event |-> 0]
    /\ layout = IF mode.layoutKnown THEN FullLayout ELSE NoLayouts
    /\ layoutAt = [m \in Market |-> 0]
    /\ lastSeq = [s \in Scope |-> NoSeq]
    /\ revision = 0
    /\ revisionOf = [e \in Event |-> 0]
    /\ epoch = [e \in Event |-> 1]
    /\ invalid = Event
    /\ bumps = 0
    /\ version = [e \in Event |-> 0]
    /\ lastUpdateAt = [e \in Event |-> 0]
    /\ seeded = {} /\ seeding = {}
    /\ feeder = {}
    /\ job = [t \in Thread |-> IdleJob]
    /\ overtaken = [t \in Thread |-> {}]
    /\ wroteAt = [k \in Key |-> [p \in Price |-> 0]]
    /\ market \in [Key -> [Price -> Qty]]
    /\ feed = <<>> /\ changes = 0 /\ link = "down"

\* The exchange changes one quantity and publishes it, to whom is listening.
Change(k, p, q) ==
    LET new == [market EXCEPT ![k][p] = q]
    IN  /\ changes < MaxChange
        /\ q # market[k][p]
        /\ MayEmpty \/ Offered(new, k)
        /\ market' = new
        /\ changes' = changes + 1
        /\ feed' = IF link = "up" THEN Append(feed, Message(mode.wholeLines, new, k, p, changes + 1)) ELSE feed
        /\ UNCHANGED <<vars, mode, link>>

Deliver(i) ==
    /\ i = 1 \/ mode.reorder
    /\ Receive(feed[i])
    /\ feed' = RemoveAt(feed, i)
    /\ UNCHANGED <<mode, market, changes, link>>

\* The connection breaks: what was published last is never received.
Break ==
    /\ link = "up"
    /\ link' = "lost"
    /\ \E n \in 0..Len(feed) : feed' = SubSeq(feed, 1, n)
    /\ UNCHANGED <<vars, mode, market, changes>>

\* _run: recv raises, in the thread that delivers; the books are invalidated.
Detect ==
    /\ link = "lost" /\ feed = <<>> /\ feeder = {}
    /\ link' = "down"
    /\ Invalidate(Event)
    /\ UNCHANGED <<mode, market, feed, changes>>

\* _establish: every channel is subscribed; the stream is ready.
Subscribe ==
    /\ link = "down"
    /\ link' = "up"
    /\ UNCHANGED <<vars, mode, market, feed, changes>>

Refresh(t) ==
    \/ link \in RefreshWhen /\ \E ids \in SUBSET Event : BeginReconcile(t, ids)
    \/ Respond(t, [e \in Event |-> IF e \in job[t].ids THEN RestBody(mode.wholeLines, market, e)
                                   ELSE NoBody])
    \/ \E e \in Event : ReadLayout(t, e)
    \/ RefuseSnapshot(t) \/ ApplyAuthoritative(t) \/ Finish(t) \/ Fail(t)

\* A structural message (_handle_update) or a registration invalidates one book.
Structural(e) == feeder = {} /\ Invalidate({e})

LiveNext ==
    \/ \E k \in Key, p \in Price, q \in Qty \cup {0} : Change(k, p, q)
    \/ \E i \in 1..(IF Len(feed) > 2 THEN 2 ELSE Len(feed)) : Deliver(i)
    \/ Break \/ Detect \/ Subscribe
    \/ (DropStale \/ ApplyUpdate) /\ UNCHANGED exchange
    \/ \E e \in Event : Structural(e) /\ UNCHANGED exchange
    \/ \E t \in Thread : Refresh(t) /\ UNCHANGED exchange

LiveSpec == LiveInit /\ [][LiveNext]_allVars

-----------------------------------------------------------------------------
\* While the stream is up, once everything published has been applied, every
\* book the cache calls valid is the exchange's book, whatever refreshes were
\* in flight, refused or applied meanwhile (the promise of
\* apply_authoritative_snapshot_result, cache.py:381).
Converged ==
    link = "up" /\ feed = <<>> /\ feeder = {} =>
        \A e \in Event \ invalid : \A k \in KeysOf(e) : depth[k] = market[k]
=============================================================================
