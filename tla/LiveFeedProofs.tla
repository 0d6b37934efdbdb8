--------------------------- MODULE LiveFeedProofs ---------------------------
(* The books a cache calls valid are the exchange's, for every choice of    *)
(* events, lines, selections, threads and quantities and for every bound: a *)
(* theorem about the cache, the stream and the refreshes together, of an    *)
(* exchange the cache can follow and a client that does not refresh while   *)
(* it knows that it is not connected.                                       *)
EXTENDS LiveFeed, MarketCacheReplay

(* What is published.                                                      *)

\* The selections and prices a message gives, and what a payload says of them.
Names(u, k, p) ==
    \/ \E l \in u.body.sent : k \in KeysOnLine(l)
    \/ u.body.groups[k].op[p] # Keep
Said(b, k, p) == Merged(Empty, b.groups[k])[p]

\* The parts of the assumptions that the proofs use.
LEMMA FeedTypes ==
    /\ SlotKey \in [Line -> [Slot -> Key]] /\ KeyScope \in [Key -> Scope]
    /\ LineMarket \in [Line -> Market] /\ MarketEvent \in [Market -> Event]
    /\ Updates = Published /\ Bodies = RestBodies
    /\ Modes \subseteq Mode /\ MaxChange \in Nat
    /\ NoKey \notin Key /\ KeyEvent \in [Key -> Event]
    /\ \A q \in Qty : q \in Nat /\ q # 0
BY LiveFeedAssumption, ExchangeAssumption, ConstantsAssumption
   DEF LiveFeedAssumption, ExchangeAssumption, ConstantsAssumption

\* Every selection is on one line.
LEMMA LineOfKey ==
    ASSUME SteadyExchange, NEW k \in Key
    PROVE  /\ LineOf(k) \in Line /\ k \in KeysOnLine(LineOf(k))
           /\ \A l \in Line : k \in KeysOnLine(l) => l = LineOf(k)
<1>1. \E l \in Line : k \in KeysOnLine(l)
  BY DEF SteadyExchange
<1>2. LineOf(k) \in Line /\ k \in KeysOnLine(LineOf(k))
  BY <1>1 DEF LineOf
<1>3. ASSUME NEW l \in Line, NEW j \in Line, k \in KeysOnLine(l), k \in KeysOnLine(j)
      PROVE  l = j
  BY <1>3 DEF KeysOnLine, SteadyExchange
<1> QED
  BY <1>2, <1>3

\* A selection sent whole has the depth of the exchange, in whatever it is merged.
LEMMA WholeSays ==
    ASSUME NEW b \in MarketBook, NEW k \in Key, NEW p \in Price
    PROVE  /\ Merged(Empty, Whole(b, k))[p] = b[k][p]
           /\ Whole(b, k).kind = IF Offered(b, k) THEN "reset" ELSE "none"
           /\ Whole(b, k).op[p] = IF b[k][p] = 0 THEN Keep ELSE b[k][p]
           /\ Whole(b, k).op[p] > 0 => Offered(b, k)
<1>1. b[k][p] \in Nat
  BY FeedTypes DEF MarketBook
<1>2. CASE Offered(b, k)
  <2>1. Whole(b, k).op[p] = IF b[k][p] = 0 THEN Keep ELSE b[k][p]
    BY <1>2 DEF Whole, Levels
  <2>2. Whole(b, k).kind = "reset"
    BY <1>2 DEF Whole
  <2>3. b[k][p] # Keep
    BY <1>1 DEF Keep
  <2> QED
    BY <1>2, <2>1, <2>2, <2>3 DEF Merged, Empty
<1>3. CASE ~Offered(b, k)
  <2>1. b[k][p] = 0
    BY <1>3 DEF Offered
  <2>2. Whole(b, k).op[p] = Keep /\ Whole(b, k).kind = "none"
    BY <1>3 DEF Whole, Untouched
  <2> QED
    BY <1>3, <2>1, <2>2 DEF Merged, Empty, Keep
<1> QED
  BY <1>2, <1>3

\* An answer says the exchange's depth.
LEMMA AnswerSays ==
    ASSUME NEW w, NEW b \in MarketBook, NEW e \in Event, NEW k \in KeysOf(e), NEW p \in Price
    PROVE  Said(RestBody(w, b, e), k, p) = b[k][p]
<1>1. k \in Key /\ RestBody(w, b, e).groups[k] = Whole(b, k)
  BY DEF RestBody, KeysOf
<1> QED
  BY <1>1, WholeSays DEF Said

\* A message gives one price, or all prices on a line, as the exchange has them.
LEMMA MessageSays ==
    ASSUME SteadyExchange, NEW w \in BOOLEAN, NEW b \in MarketBook,
           NEW i \in Key, NEW q \in Price, NEW n, NEW k \in Key, NEW p \in Price
    PROVE  LET u == Message(w, b, i, q, n)
           IN  /\ Names(u, k, p) <=> IF w THEN LineOf(k) = LineOf(i) ELSE k = i /\ p = q
               /\ Names(u, k, p) => Said(u.body, k, p) = b[k][p]
<1> DEFINE u == Message(w, b, i, q, n)
<1>1. CASE w
  <2> DEFINE l == LineOf(i)
  <2>1. u.body = LineBody(b, l)
    BY <1>1 DEF Message
  <2>2. /\ u.body.sent = {l}
        /\ u.body.groups[k] = IF k \in KeysOnLine(l) THEN Whole(b, k) ELSE Untouched
    BY <2>1 DEF LineBody
  <2>3. k \in KeysOnLine(l) <=> LineOf(k) = l
    BY LineOfKey
  <2>4. Untouched.op[p] = Keep
    BY DEF Untouched
  <2> HIDE DEF u, l
  <2>5. Names(u, k, p) <=> LineOf(k) = l
    BY <2>2, <2>3, <2>4 DEF Names
  <2>6. LineOf(k) = l => Said(u.body, k, p) = b[k][p]
    BY <2>2, <2>3, WholeSays DEF Said
  <2> QED
    BY <1>1, <2>5, <2>6 DEF u, l
<1>2. CASE ~w
  <2>1. u.body = PriceBody(b, i, q)
    BY <1>2 DEF Message
  <2>2. /\ u.body.sent = {}
        /\ u.body.groups[k] = IF k = i THEN [kind |-> "merge",
                                             op |-> [Untouched.op EXCEPT ![q] = b[i][q]]]
                              ELSE Untouched
    BY <2>1 DEF PriceBody, NoBody, NoGroups
  <2>3. u.body.groups[k].op[p] = IF k = i /\ p = q THEN b[k][p] ELSE Keep
    BY <2>2 DEF Untouched
  <2>4. b[k][p] # Keep
    BY FeedTypes DEF MarketBook, Keep
  <2> HIDE DEF u
  <2>5. Names(u, k, p) <=> k = i /\ p = q
    BY <2>2, <2>3, <2>4 DEF Names
  <2>6. k = i /\ p = q => Said(u.body, k, p) = b[k][p]
    BY <2>3, <2>4 DEF Said, Merged
  <2> QED
    BY <1>2, <2>5, <2>6 DEF u
<1> QED
  BY <1>1, <1>2

\* The payloads are those of one line, of one price and of one event.
LEMMA PayloadCases ==
    ASSUME NEW c \in Payloads
    PROVE  \/ \E b \in MarketBook, i \in Key : c = LineBody(b, LineOf(i))
           \/ c.sent = {}
           \/ \E b \in MarketBook, e \in Event : c = RestBody(TRUE, b, e)
<1>1. ASSUME NEW u \in Published, c = u.body
      PROVE  (\E b \in MarketBook, i \in Key : c = LineBody(b, LineOf(i))) \/ c.sent = {}
  <2>1. PICK w \in Wholes, b \in MarketBook, i \in Key, p \in Price, n \in 1..MaxChange :
            u = Message(w, b, i, p, n)
    BY DEF Published
  <2>2. c = IF w THEN LineBody(b, LineOf(i)) ELSE PriceBody(b, i, p)
    BY <1>1, <2>1 DEF Message
  <2>3. PriceBody(b, i, p).sent = {}
    BY DEF PriceBody, NoBody
  <2> QED
    BY <2>2, <2>3
<1>2. ASSUME NEW e \in Event, c \in RestBodies[e]
      PROVE  c.sent = {} \/ \E b \in MarketBook : c = RestBody(TRUE, b, e)
  <2>1. PICK w \in Wholes, b \in MarketBook : c = RestBody(w, b, e)
    BY <1>2 DEF RestBodies
  <2>2. w \in BOOLEAN
    BY FeedTypes DEF Wholes, Mode
  <2>3. CASE ~w
    BY <2>1, <2>3 DEF RestBody
  <2>4. CASE w
    BY <2>1, <2>2, <2>4
  <2> QED
    BY <2>2, <2>3, <2>4
<1> QED
  BY <1>1, <1>2, FeedTypes DEF Payloads

\* One with lines has each selection it offers at its position.
LEMMA PayloadPlaces ==
    ASSUME SteadyExchange, NEW c \in Payloads, c.sent # {}
    PROVE  /\ c.sent \subseteq Line
           /\ \A l \in Line, s \in Slot : c.slots[l][s] \in {SlotKey[l][s], NoKey}
           /\ \A k \in Key, p \in Price : c.groups[k].op[p] > 0 =>
                  \E l \in c.sent, s \in Slot : c.slots[l][s] = k
<1>1. ASSUME NEW b \in MarketBook, c.slots = Positions(b)
      PROVE  /\ \A l \in Line, s \in Slot : c.slots[l][s] \in {SlotKey[l][s], NoKey}
             /\ \A k \in Key : Offered(b, k) => \E s \in Slot : c.slots[LineOf(k)][s] = k
  <2>1. \A l \in Line, s \in Slot :
            c.slots[l][s] = IF Offered(b, SlotKey[l][s]) THEN SlotKey[l][s] ELSE NoKey
    BY <1>1 DEF Positions
  <2>2. ASSUME NEW k \in Key, Offered(b, k)
        PROVE  \E s \in Slot : c.slots[LineOf(k)][s] = k
    <3>1. LineOf(k) \in Line /\ \E s \in Slot : SlotKey[LineOf(k)][s] = k
      BY LineOfKey DEF KeysOnLine
    <3> QED
      BY <2>1, <2>2, <3>1
  <2> QED
    BY <2>1, <2>2
<1>2. Untouched.op \in [Price -> {Keep}]
  BY DEF Untouched
<1>3. ASSUME NEW b \in MarketBook, NEW i \in Key, c = LineBody(b, LineOf(i))
      PROVE  /\ c.slots = Positions(b) /\ c.sent \subseteq Line
             /\ \A k \in Key, p \in Price : c.groups[k].op[p] > 0 =>
                    LineOf(k) \in c.sent /\ Offered(b, k)
  <2>1. c.slots = Positions(b) /\ c.sent = {LineOf(i)} /\ LineOf(i) \in Line
    BY <1>3, LineOfKey DEF LineBody
  <2>2. ASSUME NEW k \in Key, NEW p \in Price, c.groups[k].op[p] > 0
        PROVE  LineOf(k) = LineOf(i) /\ Offered(b, k)
    <3>1. c.groups[k] = IF k \in KeysOnLine(LineOf(i)) THEN Whole(b, k) ELSE Untouched
      BY <1>3 DEF LineBody
    <3>2. c.groups[k].op[p] # Keep
      BY <2>2 DEF Keep
    <3> QED
      BY <1>2, <2>1, <2>2, <3>1, <3>2, WholeSays, LineOfKey
  <2> QED
    BY <2>1, <2>2
<1>4. ASSUME NEW b \in MarketBook, NEW e \in Event, c = RestBody(TRUE, b, e)
      PROVE  /\ c.slots = Positions(b) /\ c.sent \subseteq Line
             /\ \A k \in Key, p \in Price : c.groups[k].op[p] > 0 =>
                    LineOf(k) \in c.sent /\ Offered(b, k)
  <2>1. c.slots = Positions(b) /\ c.sent = {l \in Line : MarketEvent[LineMarket[l]] = e}
    BY <1>4 DEF RestBody
  <2>2. ASSUME NEW k \in Key, NEW p \in Price, c.groups[k].op[p] > 0
        PROVE  LineOf(k) \in c.sent /\ Offered(b, k)
    <3>1. c.groups[k] = IF KeyEvent[k] = e THEN Whole(b, k) ELSE Untouched
      BY <1>4 DEF RestBody
    <3>2. c.groups[k].op[p] # Keep
      BY <2>2 DEF Keep
    <3>3. KeyEvent[k] = e /\ Offered(b, k)
      BY <1>2, <2>2, <3>1, <3>2, WholeSays
    <3>4. LineOf(k) \in Line /\ MarketEvent[LineMarket[LineOf(k)]] = KeyEvent[k]
      BY LineOfKey DEF KeysOnLine, SteadyExchange
    <3> QED
      BY <2>1, <3>3, <3>4
  <2> QED
    BY <2>1, <2>2
<1>5. \E b \in MarketBook :
          /\ c.slots = Positions(b) /\ c.sent \subseteq Line
          /\ \A k \in Key, p \in Price : c.groups[k].op[p] > 0 =>
                 LineOf(k) \in c.sent /\ Offered(b, k)
  BY <1>3, <1>4, PayloadCases
<1> QED
  BY <1>1, <1>5

\* The exchange names selections where they belong: what the theorems about answers suppose.
LEMMA SteadyIsOwn == ASSUME SteadyExchange PROVE OwnPayloads
<1>1. ASSUME NEW b \in Payloads, NEW l \in b.sent, NEW s \in Slot, b.slots[l][s] # NoKey
      PROVE  KeyEvent[b.slots[l][s]] = MarketEvent[LineMarket[l]]
  <2>1. l \in Line /\ b.slots[l][s] = SlotKey[l][s]
    BY <1>1, PayloadPlaces
  <2> QED
    BY <2>1 DEF SteadyExchange
<1>2. ASSUME NEW e \in Event, NEW b \in Bodies[e]
      PROVE  /\ \A l \in b.sent : MarketEvent[LineMarket[l]] = e
             /\ \A k \in Key : b.groups[k].kind # "none" => KeyEvent[k] = e
  <2>1. PICK w \in Wholes, m \in MarketBook : b = RestBody(w, m, e)
    BY <1>2, FeedTypes DEF RestBodies
  <2>2. Untouched.kind = "none"
    BY DEF Untouched
  <2>3. \A k \in Key : b.groups[k] = IF KeyEvent[k] = e THEN Whole(m, k) ELSE Untouched
    BY <2>1 DEF RestBody
  <2>4. b.sent = {l \in Line : w /\ MarketEvent[LineMarket[l]] = e}
    BY <2>1 DEF RestBody
  <2> QED
    BY <2>2, <2>3, <2>4
<1> QED
  BY <1>1, <1>2 DEF OwnPayloads

\* It keeps each in its place.
LEMMA SteadyIsSteady == ASSUME SteadyExchange PROVE SteadyPositions
<1> SUFFICES ASSUME NEW b \in Payloads
             PROVE  /\ \A c \in Payloads : \A l \in b.sent, j \in c.sent :
                           /\ LineMarket[l] = LineMarket[j] => l = j
                           /\ \A s, i \in Slot :
                                  b.slots[l][s] # NoKey /\ b.slots[l][s] = c.slots[j][i]
                                      => l = j /\ s = i
                    /\ \A k \in Key, p \in Price : b.groups[k].op[p] > 0 /\ b.sent # {} =>
                           \E l \in b.sent, s \in Slot : b.slots[l][s] = k
  BY DEF SteadyPositions
<1>1. ASSUME NEW c \in Payloads, NEW l \in b.sent, NEW j \in c.sent
      PROVE  /\ LineMarket[l] = LineMarket[j] => l = j
             /\ \A s, i \in Slot : b.slots[l][s] # NoKey /\ b.slots[l][s] = c.slots[j][i]
                                       => l = j /\ s = i
  <2>1. /\ l \in Line /\ \A s \in Slot : b.slots[l][s] \in {SlotKey[l][s], NoKey}
        /\ j \in Line /\ \A s \in Slot : c.slots[j][s] \in {SlotKey[j][s], NoKey}
    BY PayloadPlaces
  <2> QED
    BY <2>1 DEF SteadyExchange
<1> QED
  BY <1>1, PayloadPlaces

-----------------------------------------------------------------------------
(* The cache is a MarketCache whatever the exchange and the client do.     *)

\* What the cache keeps to by itself.
CacheInv == TypeOK /\ LiveKeysKnown /\ FenceInv /\ ReplayInv /\ ToldInv

LEMMA CacheNext == ASSUME SteadyExchange, CacheInv, [Next]_vars PROVE CacheInv'
<1>1. TypeOK' /\ LiveKeysKnown' /\ FenceInv'
  BY NextType, KnownKeysNext, FenceNext DEF CacheInv
<1>2. ReplayInv'
  BY TimesNext, CoveredNext, ForgottenNext, PayloadsNext, FreshNext DEF CacheInv, ReplayInv
<1>3. ToldInv'
  BY ToldNext, SteadyIsOwn DEF CacheInv, ReplayInv
<1> QED
  BY <1>1, <1>2, <1>3 DEF CacheInv

\* What the exchange has sent, answered and can send.
Sent == {Message(mode.wholeLines, b, k, p, n) :
            b \in MarketBook, k \in Key, p \in Price, n \in 1..changes}
Answer(e) == {RestBody(mode.wholeLines, b, e) : b \in MarketBook}

LiveType ==
    /\ mode \in Modes /\ market \in MarketBook
    /\ changes \in 0..MaxChange /\ link \in {"up", "lost", "down"}
    /\ feed \in Seq(Sent) /\ \A f \in feeder : f.update \in Sent
    /\ \A t \in Thread : job[t].pc = "apply" =>
           \A e \in job[t].ids : job[t].answer[e] \in Answer(e)

\* The mode is one the exchange has.
LEMMA ModeType ==
    ASSUME LiveType
    PROVE  mode \in Mode /\ mode.wholeLines \in Wholes /\ mode.wholeLines \in BOOLEAN
BY FeedTypes DEF LiveType, Mode, Wholes

\* Every message sent is an update of the cache.
LEMMA SentPublished == ASSUME LiveType PROVE Sent \subseteq Updates
<1>1. \A n \in 1..changes : n \in 1..MaxChange
  BY FeedTypes DEF LiveType
<1> QED
  BY <1>1, ModeType, FeedTypes DEF Sent, Published

\* A message is one of the mode, with the number of a change.
LEMMA SentCases ==
    ASSUME LiveType, NEW u \in Sent
    PROVE  \E b \in MarketBook, i \in Key, q \in Price, n \in 1..changes :
               u = Message(mode.wholeLines, b, i, q, n)
BY DEF Sent

\* Every step of the whole is a step of the cache or leaves the cache alone.
LEMMA LiveIsCache ==
    ASSUME LiveType, TypeOK, [LiveNext]_allVars
    PROVE  [Next]_vars
<1>1. CASE UNCHANGED vars
  BY <1>1
<1>2. ASSUME NEW i \in 1..Len(feed), Deliver(i)
      PROVE  Next
  <2>1. feed[i] \in Updates
    BY SentPublished DEF LiveType
  <2> QED
    BY <1>2, <2>1 DEF Deliver, Next
<1>3. ASSUME NEW ids \in SUBSET Event, Invalidate(ids)
      PROVE  Next
  BY <1>3 DEF Next
<1>4. CASE DropStale \/ ApplyUpdate
  BY <1>4 DEF Next
<1>5. ASSUME NEW t \in Thread, Refresh(t)
      PROVE  Next
  <2> DEFINE bodies == [e \in Event |-> IF e \in job[t].ids
                                        THEN RestBody(mode.wholeLines, market, e) ELSE NoBody]
  <2>1. bodies \in Answers(job[t].ids)
    <3>1. \A e \in Event : RestBody(mode.wholeLines, market, e) \in Bodies[e]
      BY ModeType, FeedTypes DEF LiveType, RestBodies
    <3>2. \A e \in Event : bodies[e] \in IF e \in job[t].ids THEN Bodies[e] ELSE {NoBody}
      BY <3>1
    <3>3. bodies \in [Event -> (UNION {Bodies[e] : e \in Event}) \cup {NoBody}]
      BY <3>1
    <3> HIDE DEF bodies
    <3> QED
      BY <3>2, <3>3 DEF Answers
  <2>2. \/ \E ids \in SUBSET Event : BeginReconcile(t, ids)
        \/ Respond(t, bodies)
        \/ \E e \in Event : ReadLayout(t, e)
        \/ RefuseSnapshot(t) \/ ApplyAuthoritative(t) \/ Finish(t) \/ Fail(t)
    BY <1>5 DEF Refresh
  <2> HIDE DEF bodies
  <2> QED
    BY <2>1, <2>2 DEF Next
<1>6. \/ UNCHANGED vars
      \/ \E i \in 1..Len(feed) : Deliver(i)
      \/ \E ids \in SUBSET Event : Invalidate(ids)
      \/ DropStale \/ ApplyUpdate
      \/ \E t \in Thread : Refresh(t)
  <2>1. Len(feed) \in Nat
    BY DEF LiveType
  <2>2. \A i \in 1..(IF Len(feed) > 2 THEN 2 ELSE Len(feed)) : i \in 1..Len(feed)
    BY <2>1
  <2> QED
    BY <2>2 DEF LiveNext, allVars, Change, Break, Detect, Subscribe, Structural
<1> QED
  BY <1>1, <1>2, <1>3, <1>4, <1>5, <1>6

\* The whole lines of a quiet exchange are somewhere in its answers.
LEMMA FullLayoutPlaced ==
    ASSUME SteadyExchange, LiveInit, mode.layoutKnown
    PROVE  FromPayloads(FullLayout)
<1> SUFFICES ASSUME NEW m \in Market, NEW s \in Slot, FullLayout[m][s] # NoKey
             PROVE  Places(m, s, FullLayout[m][s])
  BY DEF FromPayloads
<1> DEFINE ls == {l \in Line : LineMarket[l] = m}
           last == CHOOSE l \in ls : \A j \in ls : j <= l
           e == MarketEvent[m]
           b == RestBody(TRUE, market, e)
<1>1. ls # {} /\ FullLayout[m][s] = SlotKey[last][s]
  <2>1. FullLayout[m] = IF ls = {} THEN NoLayout ELSE SlotKey[last]
    BY DEF FullLayout
  <2> QED
    BY <2>1 DEF NoLayout
<1>2. last \in Line /\ LineMarket[last] = m
  <2>1. \E l \in ls : \A j \in ls : j <= l
    BY <1>1, Lines
  <2> QED
    BY <2>1
<1>3. TRUE \in Wholes
  BY DEF LiveInit, SteadyExchange, Wholes
<1>4. market \in MarketBook /\ e \in Event
  BY FeedTypes DEF LiveInit, MarketBook
<1>5. b \in Payloads
  <2>1. \A w \in Wholes : RestBody(w, market, e) \in RestBodies[e]
    BY <1>4 DEF RestBodies
  <2>2. b \in RestBodies[e]
    BY <1>3, <2>1
  <2> QED
    BY <1>4, <2>2, PayloadType, FeedTypes
<1>6. last \in b.sent
  BY <1>2 DEF RestBody
<1>7. Offered(market, SlotKey[last][s])
  <2>1. PICK p \in Price : TRUE
    BY DEF SteadyExchange
  <2>2. SlotKey[last][s] \in Key
    BY <1>2, FeedTypes
  <2>3. market[SlotKey[last][s]][p] \in Qty
    BY <2>2 DEF LiveInit
  <2> QED
    BY <2>3, FeedTypes DEF Offered
<1>8. b.slots[last][s] = SlotKey[last][s]
  BY <1>2, <1>7 DEF RestBody, Positions
<1> HIDE DEF b, last
<1> QED
  BY <1>1, <1>2, <1>5, <1>6, <1>8 DEF Places

\* The whole starts with a cache whose books are all invalid.
LEMMA LiveStarts == ASSUME SteadyExchange, LiveInit PROVE CacheInv /\ LiveType
<1>1. /\ clock = 0 /\ feeder = {}
      /\ \A k \in Key : /\ resetAt[k] = 0 /\ removedAt[k] = 0 /\ depth[k] = Empty
                        /\ \A p \in Price : change[k][p] = NoChange /\ wroteAt[k][p] = 0
      /\ \A e \in Event : replacedAt[e] = 0
      /\ \A t \in Thread : job[t] = IdleJob
  BY DEF LiveInit
<1>2. \A t \in Thread : ~InFlight(t) /\ job[t].pc = "idle"
  BY <1>1 DEF InFlight, IdleJob
<1>3. FullLayout \in Layout
  <2>1. ASSUME NEW m \in Market, {l \in Line : LineMarket[l] = m} # {}
        PROVE  SlotKey[CHOOSE l \in {l \in Line : LineMarket[l] = m} :
                           \A j \in {i \in Line : LineMarket[i] = m} : j <= l] \in [Slot -> Key]
    <3>1. \E l \in {l \in Line : LineMarket[l] = m} :
              \A j \in {i \in Line : LineMarket[i] = m} : j <= l
      BY <2>1, Lines
    <3> QED
      BY <3>1, FeedTypes
  <2>2. \A m \in Market : FullLayout[m] \in [Slot -> Key \cup {NoKey}]
    BY <2>1 DEF FullLayout, NoLayout
  <2> QED
    BY <2>2 DEF FullLayout, Layout
<1>4. TypeOK
  BY <1>3, IdleJobType, NoLayoutsType DEF LiveInit, TypeOK, Empty, NoChange
<1>5. LiveKeysKnown
  BY <1>1 DEF LiveKeysKnown
<1>6. FenceInv
  BY <1>1, <1>2 DEF FenceInv, LiveInit, IdleJob
<1>7. Forgotten /\ TimesInv /\ Covered
  BY <1>1, FeedTypes DEF Forgotten, TimesInv, NotAfter, NoChange, IdleJob, Covered
<1>8. PayloadsInv
  <2>1. FromPayloads(layout)
    BY FullLayoutPlaced, NoLayoutsFrom DEF LiveInit
  <2> QED
    BY <1>1, <2>1, NoLayoutsFrom DEF PayloadsInv, IdleJob
<1>9. OneFresh /\ ToldInv
  BY <1>2 DEF OneFresh, ToldInv
<1>10. LiveType
  <2>1. market \in MarketBook
    BY DEF LiveInit, MarketBook
  <2> QED
    BY <1>1, <1>2, <2>1, FeedTypes DEF LiveInit, LiveType
<1> QED
  BY <1>4, <1>5, <1>6, <1>7, <1>8, <1>9, <1>10 DEF CacheInv, ReplayInv

-----------------------------------------------------------------------------
(* Steps.                                                                  *)

\* The steps of the whole.
LEMMA LiveCases ==
    ASSUME LiveType, [LiveNext]_allVars
    PROVE  \/ UNCHANGED allVars
           \/ \E k \in Key, p \in Price, q \in Qty \cup {0} : Change(k, p, q)
           \/ \E i \in 1..Len(feed) : Deliver(i)
           \/ Break \/ Detect \/ Subscribe
           \/ DropStale /\ UNCHANGED exchange
           \/ ApplyUpdate /\ UNCHANGED exchange
           \/ \E e \in Event : Structural(e) /\ UNCHANGED exchange
           \/ \E t \in Thread : Refresh(t) /\ UNCHANGED exchange
<1>1. Len(feed) \in Nat
  BY DEF LiveType
<1>2. \A i \in 1..(IF Len(feed) > 2 THEN 2 ELSE Len(feed)) : i \in 1..Len(feed)
  BY <1>1
<1> QED
  BY <1>2 DEF LiveNext

\* What the steps of a refresh write.
LEMMA RefreshWrites ==
    ASSUME NEW t \in Thread, Refresh(t)
    PROVE  /\ UNCHANGED <<feeder, lastSeq>>
           /\ UNCHANGED <<depth, journal, layout, invalid>> \/ ApplyAuthoritative(t)
<1>1. ASSUME NEW ids, BeginReconcile(t, ids)
      PROVE  UNCHANGED <<feeder, lastSeq, depth, journal, layout, invalid>>
  BY <1>1 DEF BeginReconcile, book, layouts
<1>2. ASSUME NEW bodies, Respond(t, bodies)
      PROVE  UNCHANGED <<feeder, lastSeq, depth, journal, layout, invalid>>
  BY <1>2 DEF Respond, book, layouts
<1>3. ASSUME NEW e, ReadLayout(t, e)
      PROVE  UNCHANGED <<feeder, lastSeq, depth, journal, layout, invalid>>
  BY <1>3 DEF ReadLayout, book, layouts
<1>4. RefuseSnapshot(t) => UNCHANGED <<feeder, lastSeq, depth, journal, layout, invalid>>
  BY DEF RefuseSnapshot, book, layouts
<1>5. Finish(t) \/ Fail(t) => UNCHANGED <<feeder, lastSeq, depth, journal, layout, invalid>>
  BY SMTT(30) DEF Finish, Fail, book, layouts
<1>6. ApplyAuthoritative(t) => UNCHANGED <<feeder, lastSeq>>
  BY DEF ApplyAuthoritative
<1> QED
  BY <1>1, <1>2, <1>3, <1>4, <1>5, <1>6 DEF Refresh

\* What every step writes, and by which action.
LEMMA WhoWrites ==
    ASSUME LiveType, [LiveNext]_allVars
    PROVE  /\ mode' = mode
           /\ feeder' \subseteq feeder \/ \E i \in 1..Len(feed) : Deliver(i)
           /\ \/ UNCHANGED <<depth, journal, layout>>
              \/ feeder' = {} /\ \E f \in feeder : Commit(f)
              \/ \E t \in Thread : ApplyAuthoritative(t)
           /\ job' = job \/ \E t \in Thread : Refresh(t) /\ UNCHANGED exchange
           /\ \/ invalid' = invalid
              \/ \E ids : Invalidate(ids)
              \/ \E t \in Thread : ApplyAuthoritative(t)
<1>1. CASE UNCHANGED allVars
  BY <1>1 DEF allVars, exchange, vars, book, layouts
<1>2. CASE Break \/ Subscribe \/ \E k \in Key, p \in Price, q \in Qty \cup {0} : Change(k, p, q)
  BY <1>2 DEF Break, Subscribe, Change, vars, book, layouts
<1>3. CASE \E i \in 1..Len(feed) : Deliver(i)
  BY <1>3 DEF Deliver, Receive, book, layouts
<1>4. ASSUME NEW ids, Invalidate(ids)
      PROVE  UNCHANGED <<feeder, depth, journal, layout, job>>
  BY <1>4 DEF Invalidate, book, layouts
<1>5. CASE Detect
  BY <1>4, <1>5 DEF Detect
<1>6. CASE \E e \in Event : Structural(e) /\ UNCHANGED exchange
  BY <1>4, <1>6 DEF Structural, exchange
<1>7. CASE DropStale /\ UNCHANGED exchange
  BY <1>7 DEF DropStale, exchange, book, layouts
<1>8. CASE ApplyUpdate /\ UNCHANGED exchange
  <2>1. PICK f \in feeder : Commit(f)
    BY <1>8 DEF ApplyUpdate
  <2>2. feeder' = {} /\ job' = job /\ invalid' = invalid
    BY <1>8 DEF ApplyUpdate
  <2> QED
    BY <1>8, <2>1, <2>2 DEF exchange
<1>9. CASE \E t \in Thread : Refresh(t) /\ UNCHANGED exchange
  BY <1>9, RefreshWrites DEF exchange
<1> QED
  BY <1>1, <1>2, <1>3, <1>5, <1>6, <1>7, <1>8, <1>9, LiveCases

\* An answer is of the moment it is given.
LEMMA AnsweredNow ==
    ASSUME LiveType, TypeOK, [LiveNext]_allVars, NEW t \in Thread, Answered(t),
           NEW e \in job[t].ids
    PROVE  /\ job'[t].answer[e] = RestBody(mode.wholeLines, market, e)
           /\ UNCHANGED <<exchange, book, journal, lastSeq, feeder, overtaken>>
<1>1. e \in Event
  BY DEF TypeOK, Job
<1>2. job[t].pc = "fetch" /\ job'[t].pc = "apply"
  BY DEF Answered
<1>3. job' # job
  BY <1>2
<1>4. PICK x \in Thread : Refresh(x) /\ UNCHANGED exchange
  BY <1>3, WhoWrites
<1>5. ASSUME NEW j, job' = [job EXCEPT ![x] = j], j.pc # "apply" \/ job[x].pc = "apply"
      PROVE  FALSE
  BY <1>2, <1>5 DEF TypeOK
<1>6. ASSUME NEW ids, BeginReconcile(x, ids)
      PROVE  FALSE
  <2>1. /\ job' = [job EXCEPT ![x] = [job[x] EXCEPT !.pc = "fetch", !.ids = ids,
                      !.revision = revision + 1, !.started = clock, !.epochs = epoch]]
        /\ job[x] \in Job
    BY <1>6 DEF BeginReconcile, TypeOK
  <2>2. [job[x] EXCEPT !.pc = "fetch", !.ids = ids, !.revision = revision + 1,
                       !.started = clock, !.epochs = epoch].pc = "fetch"
    BY <2>1 DEF Job
  <2> QED
    BY <1>5, <2>1, <2>2
<1>7. ASSUME (\E i \in Event : ReadLayout(x, i)) \/ RefuseSnapshot(x) \/ ApplyAuthoritative(x)
      PROVE  FALSE
  <2>1. ASSUME NEW i \in Event, ReadLayout(x, i)
        PROVE  FALSE
    BY <1>5, <2>1 DEF ReadLayout
  <2>2. ASSUME Applying(x), job' = Applied(x)
        PROVE  FALSE
    BY <1>5, <2>2 DEF Applying, Applied
  <2>3. RefuseSnapshot(x) \/ ApplyAuthoritative(x) => Applying(x) /\ job' = Applied(x)
    BY DEF RefuseSnapshot, ApplyAuthoritative
  <2> QED
    BY <1>7, <2>1, <2>2, <2>3
<1>8. ASSUME Finish(x) \/ Fail(x)
      PROVE  FALSE
  <2>1. job' = [job EXCEPT ![x] = IdleJob] /\ IdleJob.pc # "apply"
    BY <1>8 DEF Finish, Fail, IdleJob
  <2> QED
    BY <1>5, <2>1
<1> DEFINE bodies == [i \in Event |-> IF i \in job[x].ids
                                      THEN RestBody(mode.wholeLines, market, i) ELSE NoBody]
<1>9. Respond(x, bodies)
  BY <1>4, <1>6, <1>7, <1>8 DEF Refresh
<1>10. job' = [job EXCEPT ![x] = [job[x] EXCEPT !.pc = "apply", !.answer = bodies,
                                     !.receivedAt = clock, !.todo = job[x].ids]]
  BY <1>9 DEF Respond
<1>11. t = x
  BY <1>2, <1>10 DEF TypeOK
<1>12. job'[t].answer = bodies
  BY <1>10, <1>11 DEF TypeOK, Job
<1> QED
  BY <1>1, <1>4, <1>9, <1>11, <1>12 DEF Respond, fence

\* What is sent stays sent.
LEMMA SentGrows ==
    ASSUME LiveType, mode' = mode, changes' \in {changes, changes + 1}
    PROVE  Sent \subseteq Sent'
<1>1. \A n \in 1..changes : n \in 1..changes'
  BY DEF LiveType
<1> QED
  BY <1>1 DEF Sent

\* Every step keeps what the exchange and the channel hold in range.
LEMMA LiveTypeNext ==
    ASSUME LiveType, TypeOK, [LiveNext]_allVars
    PROVE  LiveType'
<1>1. mode' = mode
  BY WhoWrites
<1>2. /\ market' \in MarketBook /\ changes' \in 0..MaxChange
      /\ changes' \in {changes, changes + 1}
  <2>1. ASSUME NEW k \in Key, NEW p \in Price, NEW q \in Qty \cup {0}, Change(k, p, q)
        PROVE  market' \in MarketBook /\ changes' \in 0..MaxChange /\ changes' = changes + 1
    <3>1. market' = [market EXCEPT ![k][p] = q] /\ changes' = changes + 1 /\ changes < MaxChange
      BY <2>1 DEF Change
    <3> QED
      BY <3>1, FeedTypes DEF LiveType, MarketBook
  <2>2. \/ UNCHANGED <<market, changes>>
        \/ \E k \in Key, p \in Price, q \in Qty \cup {0} : Change(k, p, q)
    BY LiveCases DEF allVars, exchange, Deliver, Break, Detect, Subscribe
  <2> QED
    BY <2>1, <2>2 DEF LiveType
<1>3. Sent \subseteq Sent'
  BY <1>1, <1>2, SentGrows
<1>4. link' \in {"up", "lost", "down"}
  BY LiveCases DEF LiveType, allVars, exchange, Change, Deliver, Break, Detect, Subscribe
<1>5. feed' \in Seq(Sent')
  <2>1. ASSUME NEW k \in Key, NEW p \in Price, NEW q \in Qty \cup {0}, Change(k, p, q)
        PROVE  feed' \in Seq(Sent')
    <3>1. changes + 1 \in 1..changes'
      BY <2>1 DEF Change, LiveType
    <3>2. Message(mode.wholeLines, market', k, p, changes + 1) \in Sent'
      BY <1>1, <1>2, <3>1 DEF Sent
    <3>3. feed' \in {feed, Append(feed, Message(mode.wholeLines, market', k, p, changes + 1))}
      BY <2>1 DEF Change
    <3>4. feed \in Seq(Sent')
      BY <1>3 DEF LiveType
    <3> QED
      BY <3>2, <3>3, <3>4
  <2>2. ASSUME NEW i \in 1..Len(feed), Deliver(i)
        PROVE  feed' \in Seq(Sent')
    <3>1. feed' = RemoveAt(feed, i) /\ feed \in Seq(Sent')
      BY <1>3, <2>2 DEF Deliver, LiveType
    <3> QED
      BY <3>1 DEF RemoveAt
  <2>3. ASSUME Break
        PROVE  feed' \in Seq(Sent')
    <3>1. PICK n \in 0..Len(feed) : feed' = SubSeq(feed, 1, n)
      BY <2>3 DEF Break
    <3>2. feed \in Seq(Sent')
      BY <1>3 DEF LiveType
    <3> QED
      BY <3>1, <3>2
  <2>4. CASE feed' = feed
    BY <1>3, <2>4 DEF LiveType
  <2> QED
    BY <2>1, <2>2, <2>3, <2>4, LiveCases DEF allVars, exchange, Detect, Subscribe
<1>6. \A f \in feeder' : f.update \in Sent'
  <2>1. ASSUME NEW i \in 1..Len(feed), Deliver(i)
        PROVE  \A f \in feeder' : f.update \in Sent'
    <3>1. feed[i] \in Sent'
      BY <1>3 DEF LiveType
    <3> QED
      BY <2>1, <3>1 DEF Deliver, Receive
  <2>2. feeder' \subseteq feeder \/ \E i \in 1..Len(feed) : Deliver(i)
    BY WhoWrites
  <2> QED
    BY <1>3, <2>1, <2>2 DEF LiveType
<1>7. ASSUME NEW t \in Thread, job'[t].pc = "apply", NEW e \in job'[t].ids
      PROVE  job'[t].answer[e] \in Answer(e)'
  <2>1. Answer(e)' = Answer(e)
    BY <1>1 DEF Answer
  <2>2. CASE Stays(t)
    BY <1>7, <2>1, <2>2 DEF Stays, LiveType
  <2>3. CASE Answered(t)
    <3>1. job'[t].answer[e] = RestBody(mode.wholeLines, market, e)
      BY <1>7, <2>3, AnsweredNow DEF Answered
    <3> QED
      BY <2>1, <3>1 DEF Answer, LiveType
  <2>4. ~Seeds(t) /\ ~Begins(t) /\ job'[t] # IdleJob
    BY <1>7 DEF Seeds, Begins, IdleJob
  <2> QED
    BY <2>2, <2>3, <2>4, JobCases, LiveIsCache
<1> QED
  BY <1>1, <1>2, <1>4, <1>5, <1>6, <1>7 DEF LiveType

-----------------------------------------------------------------------------
(* Layouts.  An exchange that sends whole lines finds its layout known, so *)
(* that an empty list empties the selection that was at its position.      *)

Laid(lay) == \A l \in Line, s \in Slot : lay[LineMarket[l]][s] = SlotKey[l][s]

LayoutInv ==
    /\ \A e \in Event : replacedAt[e] = 0
    /\ mode.wholeLines =>
          /\ Laid(layout) /\ \A f \in feeder : Laid(f.view)
          /\ \A t \in Thread : job[t].current # 0 => Laid(job[t].view)

\* A selection is emptied by its own position alone.
LEMMA EmptiedWhole ==
    ASSUME SteadyExchange, NEW b \in MarketBook, NEW c, NEW lay, Laid(lay),
           c.slots = Positions(b), c.sent \subseteq Line, NEW k \in Key
    PROVE  k \in EmptiedByPosition(c, lay) <=> LineOf(k) \in c.sent /\ ~Offered(b, k)
<1>1. \A l \in Line, s \in Slot :
          c.slots[l][s] = IF Offered(b, SlotKey[l][s]) THEN SlotKey[l][s] ELSE NoKey
  BY DEF Positions
<1>2. \A l \in Line, s \in Slot : SlotKey[l][s] \in Key /\ SlotKey[l][s] # NoKey
  BY FeedTypes
<1>3. ASSUME k \in EmptiedByPosition(c, lay)
      PROVE  LineOf(k) \in c.sent /\ ~Offered(b, k)
  <2>1. PICK l \in c.sent, s \in Slot : c.slots[l][s] = NoKey /\ lay[LineMarket[l]][s] = k
    BY <1>3 DEF EmptiedByPosition
  <2>2. l \in Line /\ SlotKey[l][s] = k
    BY <2>1 DEF Laid
  <2>3. l = LineOf(k)
    BY <2>2, LineOfKey DEF KeysOnLine
  <2> QED
    BY <1>1, <1>2, <2>1, <2>2, <2>3
<1>4. ASSUME LineOf(k) \in c.sent, ~Offered(b, k)
      PROVE  k \in EmptiedByPosition(c, lay)
  <2> DEFINE l == LineOf(k)
  <2>1. l \in Line /\ \E s \in Slot : SlotKey[l][s] = k
    BY LineOfKey DEF KeysOnLine
  <2>2. PICK s \in Slot : SlotKey[l][s] = k
    BY <2>1
  <2>3. c.slots[l][s] = NoKey /\ lay[LineMarket[l]][s] = k
    BY <1>1, <1>4, <2>1, <2>2 DEF Laid
  <2>4. \A j \in c.sent, i \in Slot : c.slots[j][i] # k
    BY <1>1, <1>4, FeedTypes
  <2> HIDE DEF l
  <2>5. l \in c.sent
    BY <1>4 DEF l
  <2> QED
    BY <2>3, <2>4, <2>5 DEF EmptiedByPosition
<1> QED
  BY <1>3, <1>4

\* What a message resolves to: on its line every selection is replaced, or its one price
\* is changed.
Resolved(w, b, i, q, k) ==
    IF w
    THEN IF LineOf(k) # LineOf(i) THEN Untouched
         ELSE IF Offered(b, k) THEN Whole(b, k) ELSE Emptied
    ELSE IF k # i THEN Untouched
         ELSE [kind |-> "merge", op |-> [Untouched.op EXCEPT ![q] = b[i][q]]]

\* Applying a message gives the prices it names what it says, and no other price.
LEMMA CommitEffect ==
    ASSUME SteadyExchange, LiveType, TypeOK, LayoutInv, NEW f \in feeder, Commit(f),
           NEW k \in Key, NEW p \in Price
    PROVE  /\ lastSeq' = [lastSeq EXCEPT ![f.update.scope] = f.update.seq]
           /\ IF Names(f.update, k, p)
              THEN depth'[k][p] = Said(f.update.body, k, p) /\ wroteAt'[k][p] = f.at
              ELSE UNCHANGED <<depth[k][p], wroteAt[k][p]>>
<1> DEFINE u == f.update
           g == Resolve(u.body, f.view, u.replace)
<1>1. PICK b \in MarketBook, i \in Key, q \in Price, n \in 1..changes :
          u = Message(mode.wholeLines, b, i, q, n)
  BY SentCases DEF LiveType
<1>2. /\ u.replace = FALSE /\ u.seq = n /\ n # NoSeq
      /\ mode.wholeLines => Laid(f.view)
  BY <1>1 DEF Message, NoSeq, LiveType, LayoutInv
<1>3. lastSeq' = [lastSeq EXCEPT ![u.scope] = u.seq]
  <2>1. lastSeq' = IF u.seq = NoSeq THEN lastSeq ELSE [lastSeq EXCEPT ![u.scope] = u.seq]
    BY Zenon DEF Commit
  <2> QED
    BY <1>2, <2>1
<1>4. depth'[k] = IF g[k].kind # "none" THEN Merged(depth[k], g[k]) ELSE depth[k]
  <2> DEFINE gone == IF u.replace THEN (known \cap KeysOf(u.event)) \ Touched(g) ELSE {}
  <2>1. depth' = [j \in Key |-> IF j \in Touched(g) THEN Merged(depth[j], g[j])
                                ELSE IF j \in gone THEN Empty ELSE depth[j]]
    BY Zenon DEF Commit
  <2>2. gone = {} /\ (k \in Touched(g) <=> g[k].kind # "none")
    BY <1>2 DEF Touched
  <2> HIDE DEF g, gone
  <2> QED
    BY <2>1, <2>2
<1>5. wroteAt'[k][p] = IF g[k].kind = "reset" \/ (g[k].kind # "none" /\ g[k].op[p] # Keep)
                       THEN f.at ELSE wroteAt[k][p]
  <2> DEFINE resets == {j \in Touched(g) : g[j].kind = "reset"}
  <2>1. wroteAt' = [j \in Key |-> [s \in Price |->
                        IF \/ j \in resets \/ (u.replace /\ j \in KeysOf(u.event))
                           \/ j \in Touched(g) /\ g[j].op[s] # Keep
                        THEN f.at ELSE wroteAt[j][s]]]
    BY Zenon DEF Commit
  <2>2. /\ k \in Touched(g) <=> g[k].kind # "none"
        /\ k \in resets <=> g[k].kind = "reset"
        /\ u.replace = FALSE
    BY <1>2 DEF Touched
  <2> HIDE DEF g, resets, u
  <2> QED
    BY <2>1, <2>2
<1> DEFINE w == mode.wholeLines
           v == Message(w, b, i, q, n)
           lay == f.view
<1>6. /\ Names(u, k, p) <=> IF w THEN LineOf(k) = LineOf(i) ELSE k = i /\ p = q
      /\ Names(u, k, p) => Said(u.body, k, p) = b[k][p]
  <2>1. w \in BOOLEAN
    BY ModeType
  <2>2. u = v
    BY <1>1
  <2> HIDE DEF w, u
  <2>3. /\ Names(v, k, p) <=> IF w THEN LineOf(k) = LineOf(i) ELSE k = i /\ p = q
        /\ Names(v, k, p) => Said(v.body, k, p) = b[k][p]
    BY <2>1, MessageSays
  <2> HIDE DEF v
  <2> QED
    BY <2>2, <2>3
<1>7. g[k] = Resolved(w, b, i, q, k)
  <2> DEFINE c == u.body
  <2>1. g[k] = IF k \in EmptiedByPosition(c, lay) THEN Emptied ELSE c.groups[k]
    BY <1>2 DEF Resolve
  <2>2. CASE w
    <3>1. c = LineBody(b, LineOf(i)) /\ Laid(lay)
      BY <1>1, <1>2, <2>2 DEF Message
    <3>2. /\ c.slots = Positions(b) /\ c.sent = {LineOf(i)}
          /\ c.groups[k] = IF k \in KeysOnLine(LineOf(i)) THEN Whole(b, k) ELSE Untouched
      BY <3>1 DEF LineBody
    <3>3. LineOf(i) \in Line /\ (k \in KeysOnLine(LineOf(i)) <=> LineOf(k) = LineOf(i))
      BY LineOfKey
    <3> HIDE DEF c, g, lay
    <3>4. k \in EmptiedByPosition(c, lay) <=> LineOf(k) = LineOf(i) /\ ~Offered(b, k)
      BY <3>1, <3>2, <3>3, EmptiedWhole
    <3> QED
      BY <2>1, <2>2, <3>2, <3>3, <3>4 DEF Resolved
  <2>3. CASE ~w
    <3>1. c = PriceBody(b, i, q)
      BY <1>1, <2>3 DEF Message
    <3>2. /\ c.sent = {}
          /\ c.groups[k] = IF k # i THEN Untouched
                           ELSE [kind |-> "merge", op |-> [Untouched.op EXCEPT ![q] = b[i][q]]]
      BY <3>1 DEF PriceBody, NoBody, NoGroups
    <3> HIDE DEF c, g, lay
    <3>3. k \notin EmptiedByPosition(c, lay)
      BY <3>2 DEF EmptiedByPosition
    <3> QED
      BY <2>1, <2>3, <3>2, <3>3 DEF Resolved
  <2> QED
    BY <2>2, <2>3
<1>8. Merged(depth[k], g[k])[p] = IF g[k].op[p] # Keep THEN g[k].op[p]
                                  ELSE IF g[k].kind = "reset" THEN 0 ELSE depth[k][p]
  BY DEF Merged
<1>9. b[k][p] # Keep
  BY FeedTypes DEF MarketBook, Keep
<1>10. Untouched.kind = "none" /\ Untouched.op \in [Price -> {Keep}]
  BY DEF Untouched
<1> HIDE DEF u, g, v, w, lay
<1>11. CASE w /\ LineOf(k) = LineOf(i)
  <2>1. CASE Offered(b, k)
    <3>1. g[k].kind = "reset" /\ g[k].op[p] = IF b[k][p] = 0 THEN Keep ELSE b[k][p]
      BY <1>7, <1>11, <2>1, WholeSays DEF Resolved
    <3> QED
      BY <1>3, <1>4, <1>5, <1>6, <1>8, <1>9, <1>11, <3>1 DEF u
  <2>2. CASE ~Offered(b, k)
    <3>1. b[k][p] = 0
      BY <2>2 DEF Offered
    <3>2. g[k].kind = "reset" /\ g[k].op[p] = Keep
      BY <1>7, <1>11, <2>2 DEF Emptied, Resolved
    <3> QED
      BY <1>3, <1>4, <1>5, <1>6, <1>8, <1>11, <3>1, <3>2 DEF u
  <2> QED
    BY <2>1, <2>2
<1>12. CASE ~w /\ k = i
  <2>1. g[k].kind = "merge" /\ g[k].op[p] = IF p = q THEN b[k][p] ELSE Keep
    BY <1>7, <1>10, <1>12 DEF Resolved
  <2> QED
    BY <1>3, <1>4, <1>5, <1>6, <1>8, <1>9, <1>12, <2>1 DEF u
<1>13. CASE IF w THEN LineOf(k) # LineOf(i) ELSE k # i
  <2>1. g[k].kind = "none"
    BY <1>7, <1>10, <1>13 DEF Resolved
  <2> QED
    BY <1>3, <1>4, <1>5, <1>6, <1>13, <2>1 DEF u
<1> QED
  BY <1>11, <1>12, <1>13

\* A payload of the exchange leaves each selection in its place.
LEMMA LaidAfter ==
    ASSUME SteadyExchange, NEW b \in MarketBook, NEW c, c.slots = Positions(b),
           c.sent \subseteq Line, NEW lay, NEW l \in Line, NEW s \in Slot,
           lay[LineMarket[l]][s] = SlotKey[l][s]
    PROVE  NewLayout(c, lay)[LineMarket[l]][s] = SlotKey[l][s]
<1> DEFINE m == LineMarket[l]
<1>1. m \in Market
  BY FeedTypes
<1>2. LinesOf(c, m) \subseteq {l}
  BY DEF LinesOf, SteadyExchange
<1>3. CASE LinesOf(c, m) = {}
  <2>1. NewLayout(c, lay)[m] = lay[m]
    BY <1>1, <1>3 DEF NewLayout
  <2> QED
    BY <2>1
<1>4. CASE LinesOf(c, m) = {l}
  <2>1. l \in Nat
    BY ConstantsAssumption DEF ConstantsAssumption
  <2>2. LastLine(c, m) = l
    BY <1>4, <2>1 DEF LastLine
  <2>3. NewLayout(c, lay)[m][s] = IF c.slots[l][s] # NoKey THEN c.slots[l][s] ELSE lay[m][s]
    BY <1>1, <1>4, <2>2 DEF NewLayout
  <2>4. c.slots[l][s] = IF Offered(b, SlotKey[l][s]) THEN SlotKey[l][s] ELSE NoKey
    BY DEF Positions
  <2> HIDE DEF m
  <2>5. lay[m][s] = SlotKey[l][s]
    BY DEF m
  <2>6. NewLayout(c, lay)[m][s] = SlotKey[l][s]
    BY <2>3, <2>4, <2>5
  <2> QED
    BY <2>6 DEF m
<1> QED
  BY <1>2, <1>3, <1>4

LEMMA LayoutInit == ASSUME SteadyExchange, LiveInit PROVE LayoutInv
<1>1. /\ \A e \in Event : replacedAt[e] = 0
      /\ feeder = {} /\ \A t \in Thread : job[t].current = 0
  BY DEF LiveInit, IdleJob
<1>2. ASSUME mode.wholeLines, NEW l \in Line, NEW s \in Slot
      PROVE  layout[LineMarket[l]][s] = SlotKey[l][s]
  <2> DEFINE m == LineMarket[l]
             ls == {j \in Line : LineMarket[j] = m}
  <2>1. layout = FullLayout /\ m \in Market
    BY <1>2, FeedTypes DEF LiveInit, SteadyExchange
  <2>2. l \in Nat
    BY ConstantsAssumption DEF ConstantsAssumption
  <2>3. ls = {l}
    <3>1. \A j \in Line : LineMarket[j] = m => j = l
      BY DEF SteadyExchange
    <3> QED
      BY <3>1
  <2>4. (CHOOSE i \in ls : \A j \in ls : j <= i) = l
    BY <2>2, <2>3
  <2>5. FullLayout[m] = SlotKey[l]
    BY <2>1, <2>3, <2>4 DEF FullLayout
  <2> QED
    BY <2>1, <2>5
<1> QED
  BY <1>1, <1>2 DEF LayoutInv, Laid

\* Applying an update keeps the layout, and so does installing an answer.
LEMMA LayoutStays ==
    ASSUME SteadyExchange, LiveType, TypeOK, FenceInv, LayoutInv, mode.wholeLines,
           [LiveNext]_allVars
    PROVE  Laid(layout')
<1> SUFFICES ASSUME NEW l \in Line, NEW s \in Slot
             PROVE  layout'[LineMarket[l]][s] = SlotKey[l][s]
  BY DEF Laid
<1> DEFINE m == LineMarket[l]
<1>1. m \in Market /\ layout[m][s] = SlotKey[l][s]
  BY FeedTypes DEF LayoutInv, Laid
<1>2. ASSUME NEW f \in feeder, Commit(f)
      PROVE  layout'[m][s] = SlotKey[l][s]
  <2> DEFINE c == f.update.body
  <2>1. PICK b \in MarketBook, i \in Key, q \in Price, n \in 1..changes :
            f.update = Message(mode.wholeLines, b, i, q, n)
    BY SentCases DEF LiveType
  <2>2. f.update.replace = FALSE /\ c = LineBody(b, LineOf(i))
    BY <2>1 DEF Message
  <2>3. c.slots = Positions(b) /\ c.sent = {LineOf(i)} /\ LineOf(i) \in Line
    BY <2>2, LineOfKey DEF LineBody
  <2>4. layout'[m] = IF m \in LaidOut(c) THEN NewLayout(c, f.view)[m] ELSE layout[m]
    BY <1>1, <1>2, <2>2 DEF Commit
  <2>5. f.view[m][s] = SlotKey[l][s]
    BY DEF LayoutInv, Laid
  <2> HIDE DEF c
  <2>6. NewLayout(c, f.view)[m][s] = SlotKey[l][s]
    BY <2>3, <2>5, LaidAfter
  <2> QED
    BY <1>1, <2>4, <2>6
<1>3. ASSUME NEW t \in Thread, ApplyAuthoritative(t)
      PROVE  layout'[m][s] = SlotKey[l][s]
  <2> DEFINE e == job[t].current
             c == job[t].answer[e]
             view == job[t].view
             newer == {x \in Market : MarketEvent[x] = e /\ layoutAt[x] > job[t].started}
  <2>1. Applying(t) /\ Accepted(t) /\ InstallLayouts(e, job[t].started, c, view, job[t].receivedAt)
    BY <1>3 DEF ApplyAuthoritative
  <2>2. e \in Event /\ e \in job[t].ids /\ job[t].pc = "apply"
    BY <2>1, AcceptedCounts DEF Applying
  <2>3. PICK b \in MarketBook : c = RestBody(TRUE, b, e)
    <3>1. c \in Answer(e)
      BY <2>2 DEF LiveType
    <3> QED
      BY <3>1, ModeType DEF Answer
  <2>4. c.slots = Positions(b) /\ c.sent = {j \in Line : MarketEvent[LineMarket[j]] = e}
    BY <2>3 DEF RestBody
  <2>5. job[t].started \in Nat /\ ~NewReplace(e, job[t].started)
    BY <2>2 DEF NewReplace, LayoutInv, TypeOK, Job
  <2>6. layout'[m] = IF m \in newer THEN layout[m]
                     ELSE IF m \in LaidOut(c) THEN NewLayout(c, view)[m] ELSE LayoutsWithout(e)[m]
    BY <1>1, <2>1, <2>5 DEF InstallLayouts
  <2>7. view[m][s] = SlotKey[l][s]
    BY <2>1 DEF LayoutInv, Laid, Applying
  <2>8. c.slots = Positions(b) /\ c.sent \subseteq Line
    BY <2>4
  <2>9. m \in LaidOut(c) \/ LayoutsWithout(e)[m] = layout[m]
    BY <1>1, <2>4 DEF LaidOut, LinesOf, LayoutsWithout
  <2> HIDE DEF c, newer, view
  <2>10. NewLayout(c, view)[m][s] = SlotKey[l][s]
    BY <2>7, <2>8, LaidAfter
  <2> QED
    BY SMTT(30), <1>1, <2>6, <2>9, <2>10
<1>4. CASE layout' = layout
  BY <1>1, <1>4
<1>5. \/ layout' = layout
      \/ \E f \in feeder : Commit(f)
      \/ \E t \in Thread : ApplyAuthoritative(t)
  BY WhoWrites
<1> QED
  BY <1>2, <1>3, <1>4, <1>5

\* The copies are of the layout.
LEMMA LayoutInvNext ==
    ASSUME SteadyExchange, LiveType, TypeOK, FenceInv, LayoutInv, [LiveNext]_allVars
    PROVE  LayoutInv'
<1>1. mode' = mode
  BY WhoWrites
<1>2. \A e \in Event : replacedAt'[e] = 0
  <2>1. ASSUME NEW f \in feeder, Commit(f)
        PROVE  replacedAt' = replacedAt
    <3>1. PICK b \in MarketBook, i \in Key, q \in Price, n \in 1..changes :
              f.update = Message(mode.wholeLines, b, i, q, n)
      BY SentCases DEF LiveType
    <3>2. f.update.replace = FALSE
      BY <3>1 DEF Message
    <3> QED
      BY <2>1, <3>2 DEF Commit
  <2>2. ASSUME NEW t \in Thread, ApplyAuthoritative(t)
        PROVE  \A e \in Event : replacedAt'[e] \in {replacedAt[e], 0}
    BY <2>2 DEF ApplyAuthoritative, TypeOK
  <2>3. \/ replacedAt' = replacedAt
        \/ \E f \in feeder : Commit(f)
        \/ \E t \in Thread : ApplyAuthoritative(t)
    BY WhoWrites DEF journal
  <2> QED
    BY <2>1, <2>2, <2>3 DEF LayoutInv
<1>3. ASSUME mode.wholeLines
      PROVE  Laid(layout)
  BY <1>3 DEF LayoutInv
<1>4. ASSUME mode.wholeLines, NEW f \in feeder'
      PROVE  Laid(f.view)
  <2>1. ASSUME NEW i \in 1..Len(feed), Deliver(i)
        PROVE  f.view = layout
    BY <2>1 DEF Deliver, Receive
  <2>2. feeder' \subseteq feeder \/ \E i \in 1..Len(feed) : Deliver(i)
    BY WhoWrites
  <2>3. f \in feeder \/ f.view = layout
    BY <2>1, <2>2
  <2> QED
    BY <1>3, <1>4, <2>3 DEF LayoutInv
<1>5. ASSUME mode.wholeLines, NEW t \in Thread, job'[t].current # 0
      PROVE  Laid(job'[t].view)
  <2>1. \/ job' = job
        \/ \E x \in Thread : Refresh(x)
    BY WhoWrites
  <2>2. ASSUME NEW x \in Thread, Refresh(x)
        PROVE  \/ job[t].current = job'[t].current /\ job[t].view = job'[t].view
               \/ job'[t].view = layout
    <3>1. job[t] \in Job /\ job[x] \in Job /\ job \in [Thread -> Job]
      BY DEF TypeOK
    <3>2. ASSUME NEW ids, BeginReconcile(x, ids)
          PROVE  job[t].current = job'[t].current /\ job[t].view = job'[t].view
      BY <3>1, <3>2 DEF BeginReconcile, Job
    <3>3. ASSUME NEW bodies, Respond(x, bodies)
          PROVE  job[t].current = job'[t].current /\ job[t].view = job'[t].view
      BY <3>1, <3>3 DEF Respond, Job
    <3>4. ASSUME NEW e \in Event, ReadLayout(x, e)
          PROVE  \/ job[t].current = job'[t].current /\ job[t].view = job'[t].view
                 \/ job'[t].view = layout
      BY <3>1, <3>4 DEF ReadLayout, Job
    <3>5. ASSUME RefuseSnapshot(x) \/ ApplyAuthoritative(x)
          PROVE  t # x /\ job'[t] = job[t]
      <4>1. job' = Applied(x)
        BY <3>5 DEF RefuseSnapshot, ApplyAuthoritative
      <4> QED
        BY SMTT(30), <1>5, <3>1, <4>1 DEF Applied, Job
    <3>6. ASSUME Finish(x) \/ Fail(x)
          PROVE  t # x /\ job'[t] = job[t]
      <4>1. job' = [job EXCEPT ![x] = IdleJob]
        BY <3>6 DEF Finish, Fail
      <4> QED
        BY <1>5, <3>1, <4>1 DEF IdleJob
    <3> QED
      BY <2>2, <3>2, <3>3, <3>4, <3>5, <3>6 DEF Refresh
  <2>3. \/ job[t].current = job'[t].current /\ job[t].view = job'[t].view
        \/ job'[t].view = layout
    BY <2>1, <2>2
  <2> QED
    BY <1>3, <1>5, <2>3 DEF LayoutInv
<1> QED
  BY <1>1, <1>2, <1>4, <1>5, LayoutStays DEF LayoutInv

-----------------------------------------------------------------------------
(* Messages.  What was published and not yet applied has sequence numbers  *)
(* of its own, which nothing applied has.                                  *)

Received == {f.update : f \in feeder}
Pending == {feed[i] : i \in 1..Len(feed)} \cup Received

SeqInv ==
    /\ \A f, g \in feeder : f = g
    /\ \A i, j \in 1..Len(feed) : i < j => feed[i].seq < feed[j].seq
    /\ \A u \in Received, i \in 1..Len(feed) :
           u.seq # feed[i].seq /\ (~mode.reorder => u.seq < feed[i].seq)
    /\ \A s \in Scope : lastSeq[s] <= changes
    /\ \A u \in Pending : lastSeq[u.scope] # u.seq
    /\ ~mode.reorder => \A u \in Pending, s \in Scope : lastSeq[s] < u.seq

\* A message has the number of a change and the sequence of a selection.
LEMMA PendingType ==
    ASSUME LiveType, NEW u \in Pending
    PROVE  /\ u \in Sent /\ u.seq \in 1..changes /\ u.scope \in Scope
           /\ u.seq \in Nat /\ u.seq # NoSeq
<1>1. u \in Sent
  BY DEF Pending, Received, LiveType
<1>2. PICK b \in MarketBook, i \in Key, q \in Price, n \in 1..changes :
          u = Message(mode.wholeLines, b, i, q, n)
  BY <1>1, SentCases
<1>3. u.seq = n /\ u.scope = KeyScope[i]
  BY <1>2 DEF Message
<1>4. n \in Nat /\ n # NoSeq
  BY DEF LiveType, NoSeq
<1> QED
  BY <1>1, <1>3, <1>4, FeedTypes

\* Taking a message out of the channel leaves the others, in their order.
LEMMA TakenOut ==
    ASSUME LiveType, NEW i \in 1..Len(feed)
    PROVE  /\ Len(RemoveAt(feed, i)) = Len(feed) - 1
           /\ \A j \in 1..(Len(feed) - 1) :
                  RemoveAt(feed, i)[j] = IF j < i THEN feed[j] ELSE feed[j + 1]
<1> DEFINE a == SubSeq(feed, 1, i - 1)
           b == SubSeq(feed, i + 1, Len(feed))
           n == Len(feed)
<1>1. feed \in Seq(Sent) /\ n \in Nat /\ i \in Int /\ 1 <= i /\ i <= n
  BY DEF LiveType
<1>2. a \in Seq(Sent) /\ Len(a) = i - 1 /\ \A j \in 1..(i - 1) : a[j] = feed[j]
  BY <1>1
<1>3. b \in Seq(Sent) /\ Len(b) = n - i /\ \A j \in 1..(n - i) : b[j] = feed[i + j]
  BY <1>1
<1>4. RemoveAt(feed, i) = a \o b
  BY DEF RemoveAt
<1>5. a \in Seq(Sent) /\ b \in Seq(Sent)
  BY <1>2, <1>3
<1> HIDE DEF a, b, n
<1>6. Len(a \o b) = n - 1
  <2>1. Len(a \o b) = Len(a) + Len(b)
    BY <1>5
  <2> QED
    BY <1>1, <1>2, <1>3, <2>1
<1>7. ASSUME NEW j \in 1..(n - 1)
      PROVE  (a \o b)[j] = IF j < i THEN feed[j] ELSE feed[j + 1]
  <2>1. i \in 1..n /\ j \in Nat
    BY <1>1
  <2>2. CASE j < i
    <3>1. j \in 1..(i - 1)
      BY <2>1, <2>2
    <3>2. (a \o b)[j] = a[j]
      BY <1>2, <1>3, <3>1
    <3> QED
      BY <1>2, <2>2, <3>1, <3>2
  <2>3. CASE ~(j < i)
    <3>1. (j - (i - 1)) \in 1..(n - i) /\ i + (j - (i - 1)) = j + 1
      BY <1>1, <2>1, <2>3
    <3>2. (a \o b)[j] = b[j - Len(a)]
      BY <1>1, <1>2, <1>3, <2>1, <2>3
    <3> QED
      BY <1>2, <1>3, <2>3, <3>1, <3>2
  <2> QED
    BY <2>2, <2>3
<1> QED
  BY <1>4, <1>6, <1>7 DEF n

\* What the steps do to the channel and to what was applied of it.
LEMMA FeedCases ==
    ASSUME LiveType, TypeOK, [LiveNext]_allVars
    PROVE  /\ mode' = mode
           /\ \/ UNCHANGED <<feed, feeder, lastSeq, changes, market>>
              \/ /\ \E k \in Key, p \in Price, q \in Qty \cup {0} : Change(k, p, q)
                 /\ UNCHANGED vars
              \/ \E i \in 1..Len(feed) : Deliver(i)
              \/ Break
              \/ DropStale /\ UNCHANGED exchange
              \/ /\ \E f \in feeder : ~Stale(f.update) /\ Commit(f)
                 /\ feeder' = {} /\ UNCHANGED <<exchange, job>>
<1>1. mode' = mode
  BY WhoWrites
<1>2. CASE UNCHANGED allVars \/ Detect \/ Subscribe
  BY <1>1, <1>2 DEF allVars, exchange, vars, Detect, Subscribe, Invalidate
<1>3. CASE \E e \in Event : Structural(e) /\ UNCHANGED exchange
  BY <1>1, <1>3 DEF exchange, Structural, Invalidate
<1>4. CASE \E t \in Thread : Refresh(t) /\ UNCHANGED exchange
  BY <1>1, <1>4, RefreshWrites DEF exchange
<1>5. CASE ApplyUpdate /\ UNCHANGED exchange
  BY <1>1, <1>5 DEF ApplyUpdate
<1>6. ASSUME \E k \in Key, p \in Price, q \in Qty \cup {0} : Change(k, p, q)
      PROVE  UNCHANGED vars
  BY <1>6 DEF Change
<1> QED
  BY <1>1, <1>2, <1>3, <1>4, <1>5, <1>6, LiveCases

\* An update that is not stale is newer than all that was applied of its sequence.
LEMMA NotStale ==
    ASSUME LiveType, TypeOK, SeqInv, NEW f \in feeder
    PROVE  ~Stale(f.update) <=> f.update.seq > lastSeq[f.update.scope]
<1> DEFINE u == f.update
<1>1. u \in Pending
  BY DEF Pending, Received
<1>2. u.seq \in Nat /\ u.seq # NoSeq /\ u.scope \in Scope /\ lastSeq[u.scope] # u.seq
  BY <1>1, PendingType DEF SeqInv
<1>3. lastSeq[u.scope] \in Nat \cup {NoSeq}
  BY <1>2 DEF TypeOK
<1> HIDE DEF u
<1> QED
  BY <1>2, <1>3 DEF Stale, NoSeq, u

\* Applying it makes it the last of its sequence.
LEMMA CommitSeq ==
    ASSUME LiveType, TypeOK, NEW f \in feeder, Commit(f)
    PROVE  \A s \in Scope : lastSeq'[s] = IF s = f.update.scope THEN f.update.seq ELSE lastSeq[s]
<1> DEFINE u == f.update
<1>1. u \in Pending
  BY DEF Pending, Received
<1>2. u.seq # NoSeq
  BY SMTT(30), <1>1, PendingType
<1>3. lastSeq' = [lastSeq EXCEPT ![u.scope] = u.seq]
  BY <1>2 DEF Commit
<1> QED
  BY <1>3 DEF TypeOK

LEMMA SeqInit == ASSUME LiveInit PROVE SeqInv
<1>1. feeder = {} /\ Len(feed) = 0 /\ changes = 0 /\ \A s \in Scope : lastSeq[s] = NoSeq
  BY DEF LiveInit
<1>2. Pending = {} /\ Received = {}
  BY <1>1 DEF Pending, Received
<1> QED
  BY <1>1, <1>2 DEF SeqInv, NoSeq

\* Sequence numbers stay in the order of the changes.
LEMMA SeqInvNext ==
    ASSUME LiveType, TypeOK, SeqInv, [LiveNext]_allVars
    PROVE  SeqInv'
<1>1. mode' = mode
  BY FeedCases
<1>2. changes \in Nat /\ Len(feed) \in Nat /\ \A s \in Scope : lastSeq[s] \in Int
  BY DEF LiveType, TypeOK, NoSeq
<1>3. \A u \in Pending : u.seq \in Nat /\ u.seq <= changes /\ u.scope \in Scope
  BY <1>2, PendingType
<1>4. \A i \in 1..Len(feed) : feed[i] \in Pending
  BY DEF Pending
<1>5. \A u \in Received : u \in Pending
  BY DEF Pending
<1>6. CASE UNCHANGED <<feed, feeder, lastSeq, changes, market>>
  BY <1>1, <1>6 DEF SeqInv, Pending, Received
<1>7. ASSUME NEW k \in Key, NEW p \in Price, NEW q \in Qty \cup {0}, Change(k, p, q),
             UNCHANGED vars
      PROVE  SeqInv'
  <2> DEFINE u == Message(mode.wholeLines, market', k, p, changes + 1)
  <2>1. u.seq = changes + 1 /\ u.scope = KeyScope[k] /\ KeyScope[k] \in Scope
    BY FeedTypes DEF Message
  <2> HIDE DEF u
  <2>2. UNCHANGED <<feeder, lastSeq>> /\ changes' = changes + 1 /\ feed' \in {feed, Append(feed, u)}
    BY <1>7 DEF Change, vars, u
  <2>3. /\ Len(feed') \in {Len(feed), Len(feed) + 1}
        /\ \A i \in 1..Len(feed') : feed'[i] = IF i \in 1..Len(feed) THEN feed[i] ELSE u
    <3>1. feed \in Seq(Sent)
      BY DEF LiveType
    <3> QED
      BY <2>2, <3>1
  <2>4. Received' = Received /\ Pending' \subseteq Pending \cup {u}
    BY <2>2, <2>3 DEF Pending, Received
  <2>5. \A i, j \in 1..Len(feed') : i < j => feed'[i].seq < feed'[j].seq
    BY <1>2, <1>3, <1>4, <2>1, <2>3 DEF SeqInv
  <2>6. \A v \in Received, i \in 1..Len(feed') :
            v.seq # feed'[i].seq /\ (~mode.reorder => v.seq < feed'[i].seq)
    <3> SUFFICES ASSUME NEW v \in Received, NEW i \in 1..Len(feed')
                 PROVE  v.seq # feed'[i].seq /\ (~mode.reorder => v.seq < feed'[i].seq)
      OBVIOUS
    <3>1. v.seq \in Nat /\ v.seq < changes + 1
      BY <1>2, <1>3, <1>5
    <3>2. CASE i \in 1..Len(feed)
      BY <2>3, <3>2 DEF SeqInv
    <3>3. CASE feed'[i] = u
      BY <1>2, <2>1, <3>1, <3>3
    <3> QED
      BY <2>3, <3>2, <3>3
  <2>7. \A s \in Scope : lastSeq[s] <= changes + 1 /\ lastSeq[s] < changes + 1
    BY <1>2 DEF SeqInv
  <2>8. \A v \in Pending' : lastSeq[v.scope] # v.seq
    BY <1>2, <2>1, <2>4, <2>7 DEF SeqInv
  <2>9. ~mode.reorder => \A v \in Pending', s \in Scope : lastSeq[s] < v.seq
    BY <2>1, <2>4, <2>7 DEF SeqInv
  <2> QED
    BY <1>1, <2>2, <2>4, <2>5, <2>6, <2>7, <2>8, <2>9 DEF SeqInv
<1>8. ASSUME NEW i \in 1..Len(feed), Deliver(i)
      PROVE  SeqInv'
  <2> DEFINE f == [update |-> feed[i], at |-> clock + 1, view |-> layout]
  <2>1. /\ feeder = {} /\ feeder' = {f} /\ feed' = RemoveAt(feed, i)
        /\ UNCHANGED <<lastSeq, changes>> /\ (i = 1 \/ mode.reorder)
    BY <1>8 DEF Deliver, Receive
  <2>2. Received' = {feed[i]} /\ Received = {}
    BY <2>1 DEF Received
  <2>3. /\ Len(feed') = Len(feed) - 1
        /\ \A j \in 1..(Len(feed) - 1) : feed'[j] = IF j < i THEN feed[j] ELSE feed[j + 1]
    BY <2>1, TakenOut
  <2>4. i \in Nat /\ 1 <= i /\ i <= Len(feed)
    BY <1>2
  <2>5. \A j \in 1..Len(feed') : \E x \in 1..Len(feed) :
            x = (IF j < i THEN j ELSE j + 1) /\ feed'[j] = feed[x]
    BY <1>2, <2>3, <2>4
  <2>6. Pending' \subseteq Pending
    BY <2>2, <2>5 DEF Pending
  <2>7. \A j, x \in 1..Len(feed') : j < x => feed'[j].seq < feed'[x].seq
    <3> SUFFICES ASSUME NEW j \in 1..Len(feed'), NEW x \in 1..Len(feed'), j < x
                 PROVE  feed'[j].seq < feed'[x].seq
      OBVIOUS
    <3>1. PICK y \in 1..Len(feed) : y = (IF j < i THEN j ELSE j + 1) /\ feed'[j] = feed[y]
      BY <2>5
    <3>2. PICK z \in 1..Len(feed) : z = (IF x < i THEN x ELSE x + 1) /\ feed'[x] = feed[z]
      BY <2>5
    <3>3. y < z
      BY <2>4, <3>1, <3>2
    <3> QED
      BY <3>1, <3>2, <3>3 DEF SeqInv
  <2>8. \A j \in 1..Len(feed') :
            feed[i].seq # feed'[j].seq /\ (~mode.reorder => feed[i].seq < feed'[j].seq)
    <3> SUFFICES ASSUME NEW j \in 1..Len(feed')
                 PROVE  feed[i].seq # feed'[j].seq /\ (~mode.reorder => feed[i].seq < feed'[j].seq)
      OBVIOUS
    <3>1. PICK y \in 1..Len(feed) : y = (IF j < i THEN j ELSE j + 1) /\ feed'[j] = feed[y]
      BY <2>5
    <3>2. j \in Nat /\ j >= 1
      BY <2>3
    <3>3. y < i \/ i < y
      BY <2>4, <3>1, <3>2
    <3>4. i = 1 => i < y
      BY <2>4, <3>1, <3>2
    <3>5. /\ y < i => feed[y].seq < feed[i].seq
          /\ i < y => feed[i].seq < feed[y].seq
      BY DEF SeqInv
    <3>6. feed[i].seq \in Nat /\ feed[y].seq \in Nat
      BY <1>3, <1>4
    <3> QED
      BY <2>1, <3>1, <3>3, <3>4, <3>5, <3>6
  <2>9. \A x, y \in feeder' : x = y
    BY <2>1
  <2> QED
    BY <1>1, <2>1, <2>2, <2>6, <2>7, <2>8, <2>9 DEF SeqInv
<1>9. CASE Break
  <2>1. PICK n \in 0..Len(feed) : feed' = SubSeq(feed, 1, n)
    BY <1>9 DEF Break
  <2>2. UNCHANGED <<feeder, lastSeq, changes>>
    BY <1>9 DEF Break, vars
  <2>3. Len(feed') = n /\ \A i \in 1..n : i \in 1..Len(feed) /\ feed'[i] = feed[i]
    <3>1. feed \in Seq(Sent)
      BY DEF LiveType
    <3> QED
      BY <1>2, <2>1, <3>1
  <2>4. Received' = Received /\ Pending' \subseteq Pending
    BY <2>2, <2>3 DEF Pending, Received
  <2> QED
    BY <1>1, <2>2, <2>3, <2>4 DEF SeqInv
<1>10. CASE DropStale /\ UNCHANGED exchange
  <2>1. feeder' = {} /\ UNCHANGED <<feed, lastSeq, changes>>
    BY <1>10 DEF DropStale, exchange
  <2>2. Received' = {} /\ Pending' \subseteq Pending
    BY <2>1 DEF Pending, Received
  <2> QED
    BY <1>1, <2>1, <2>2 DEF SeqInv
<1>11. ASSUME NEW f \in feeder, Commit(f), feeder' = {}, UNCHANGED exchange
       PROVE  SeqInv'
  <2> DEFINE u == f.update
  <2>1. UNCHANGED <<feed, changes>>
    BY <1>11 DEF exchange
  <2>2. \A s \in Scope : lastSeq'[s] = IF s = u.scope THEN u.seq ELSE lastSeq[s]
    BY <1>11, CommitSeq
  <2>3. u \in Received /\ u \in Pending
    BY DEF Pending, Received
  <2>4. Received' = {} /\ Pending' = {feed[i] : i \in 1..Len(feed)}
    BY <1>11, <2>1 DEF Pending, Received
  <2> HIDE DEF u
  <2>5. \A s \in Scope : lastSeq'[s] <= changes
    BY <1>3, <2>2, <2>3 DEF SeqInv
  <2>6. \A v \in Pending' : lastSeq'[v.scope] # v.seq
    BY <1>3, <1>4, <2>2, <2>3, <2>4 DEF SeqInv
  <2>7. ~mode.reorder => \A v \in Pending', s \in Scope : lastSeq'[s] < v.seq
    BY <1>4, <2>2, <2>3, <2>4 DEF SeqInv
  <2> QED
    BY <1>1, <1>11, <2>1, <2>4, <2>5, <2>6, <2>7 DEF SeqInv
<1> QED
  BY <1>6, <1>7, <1>8, <1>9, <1>10, <1>11, FeedCases

-----------------------------------------------------------------------------
(* While the client is not connected nothing is under way, every book is   *)
(* invalid, and no answer under way can make one valid.                    *)

DownInv ==
    link = "down" =>
        /\ Len(feed) = 0 /\ feeder = {} /\ invalid = Event
        /\ \A t \in Thread : InFlight(t) => Due(t) \subseteq overtaken[t]

LEMMA DownInit == ASSUME LiveInit PROVE DownInv
BY DEF LiveInit, DownInv, InFlight, IdleJob

LEMMA DownInvNext ==
    ASSUME "down" \notin RefreshWhen, LiveType, TypeOK, FenceInv, DownInv, [LiveNext]_allVars
    PROVE  DownInv'
<1> SUFFICES ASSUME link' = "down"
             PROVE  /\ Len(feed') = 0 /\ feeder' = {} /\ invalid' = Event
                    /\ \A t \in Thread : InFlight(t)' => Due(t)' \subseteq overtaken'[t]
  BY DEF DownInv
<1>1. CASE Detect
  <2>1. /\ feed' = feed /\ feed = <<>> /\ UNCHANGED <<feeder, job>> /\ feeder = {}
        /\ invalid' = invalid \cup Event /\ \A t \in Thread : overtaken'[t] = overtaken[t] \cup Event
    BY <1>1 DEF Detect, Invalidate, Overtake
  <2>2. invalid \subseteq Event /\ \A t \in Thread : Due(t) \subseteq Event
    BY DEF TypeOK, Job, Due
  <2>3. \A t \in Thread : Due(t)' = Due(t)
    BY <2>1 DEF Due
  <2> QED
    BY <2>1, <2>2, <2>3
<1>2. CASE ~Detect
  <2>1. link = "down"
    BY <1>2, LiveCases DEF allVars, exchange, Change, Deliver, Break, Subscribe
  <2>2. /\ Len(feed) = 0 /\ feeder = {} /\ invalid = Event
        /\ \A t \in Thread : InFlight(t) => Due(t) \subseteq overtaken[t]
    BY <2>1 DEF DownInv
  <2>3. ASSUME UNCHANGED <<feed, feeder, invalid, job, overtaken>>
        PROVE  DownInv'
    BY <2>2, <2>3 DEF DownInv, InFlight, Due
  <2>4. ASSUME NEW e \in Event, Structural(e), UNCHANGED exchange
        PROVE  DownInv'
    <3>1. /\ UNCHANGED <<feed, feeder, job>> /\ invalid' = invalid \cup {e}
          /\ \A t \in Thread : overtaken'[t] = overtaken[t] \cup {e}
      BY <2>4 DEF Structural, Invalidate, Overtake, exchange
    <3>2. \A t \in Thread : Due(t)' = Due(t) /\ InFlight(t)' = InFlight(t)
      BY <3>1 DEF Due, InFlight
    <3>3. \A t \in Thread : InFlight(t)' => Due(t)' \subseteq overtaken'[t]
      BY <2>2, <3>1, <3>2
    <3>4. invalid' = Event
      BY <2>2, <3>1
    <3> QED
      BY <2>2, <3>1, <3>3, <3>4 DEF DownInv
  <2>5. ASSUME NEW x \in Thread, Refresh(x), UNCHANGED exchange
        PROVE  DownInv'
    <3>1. \A ids : ~(link \in RefreshWhen /\ BeginReconcile(x, ids))
      BY <2>1
    <3>2. ~ApplyAuthoritative(x)
      <4>1. SUFFICES ASSUME ApplyAuthoritative(x) PROVE FALSE
        OBVIOUS
      <4>2. Applying(x) /\ Accepted(x)
        BY <4>1 DEF ApplyAuthoritative
      <4> QED
        BY <2>2, <4>2, AcceptedCounts
    <3>3. \/ \E bodies : Respond(x, bodies)
          \/ \E e \in Event : ReadLayout(x, e)
          \/ RefuseSnapshot(x) \/ Finish(x) \/ Fail(x)
      BY <2>5, <3>1, <3>2 DEF Refresh
    <3>4. UNCHANGED <<feed, feeder, invalid, overtaken>>
      BY <2>5, <3>3 DEF Respond, ReadLayout, RefuseSnapshot, Finish, Fail, fence, exchange
    <3>5. job \in [Thread -> Job]
      BY DEF TypeOK
    <3>6. ASSUME NEW t \in Thread, t # x
          PROVE  job'[t] = job[t]
      BY <3>3, <3>5, <3>6 DEF Respond, ReadLayout, RefuseSnapshot, Finish, Fail, Applied
    <3>7. \/ job'[x] = IdleJob
          \/ InFlight(x) /\ Due(x)' \subseteq Due(x)
      <4>1. ASSUME NEW bodies, Respond(x, bodies)
            PROVE  InFlight(x) /\ Due(x)' \subseteq Due(x)
        BY <3>5, <4>1 DEF Respond, Job, InFlight, Due
      <4>2. ASSUME NEW e \in Event, ReadLayout(x, e)
            PROVE  InFlight(x) /\ Due(x)' \subseteq Due(x)
        BY <3>5, <4>2 DEF ReadLayout, Job, InFlight, Due
      <4>3. ASSUME RefuseSnapshot(x)
            PROVE  InFlight(x) /\ Due(x)' \subseteq Due(x)
        BY <3>5, <4>3 DEF RefuseSnapshot, Applying, Applied, Job, InFlight, Due
      <4>4. ASSUME Finish(x) \/ Fail(x)
            PROVE  job'[x] = IdleJob
        BY <3>5, <4>4 DEF Finish, Fail
      <4> QED
        BY <3>3, <4>1, <4>2, <4>3, <4>4
    <3>8. \A t \in Thread : InFlight(t)' => Due(t)' \subseteq overtaken'[t]
      <4>1. ASSUME NEW t \in Thread, t # x, InFlight(t)'
            PROVE  Due(t)' \subseteq overtaken'[t]
        BY <2>2, <3>4, <3>6, <4>1 DEF Due, InFlight
      <4>2. ASSUME InFlight(x)'
            PROVE  Due(x)' \subseteq overtaken'[x]
        BY <2>2, <3>4, <3>7, <4>2 DEF InFlight, IdleJob
      <4> QED
        BY <4>1, <4>2
    <3> QED
      BY <2>2, <3>4, <3>8 DEF DownInv
  <2>6. ASSUME NEW k \in Key, NEW p \in Price, NEW q \in Qty \cup {0}, Change(k, p, q)
        PROVE  UNCHANGED <<feed, feeder, invalid, job, overtaken>>
    BY <2>1, <2>6 DEF Change, vars, fence
  <2>7. DownInv'
    BY <1>2, <2>1, <2>2, <2>3, <2>4, <2>5, <2>6, LiveCases
       DEF allVars, vars, fence, exchange, Break, Subscribe, DropStale, ApplyUpdate
  <2> QED
    BY <2>7 DEF DownInv
<1> QED
  BY <1>1, <1>2

-----------------------------------------------------------------------------
(* News.  The messages that will still be applied to a price; the last of  *)
(* them says the exchange's depth.                                         *)

Coming(k, p) == {u \in Pending : Names(u, k, p) /\ u.seq > lastSeq[u.scope]}
Latest(u, k, p) == u \in Coming(k, p) /\ \A v \in Coming(k, p) : v.seq <= u.seq

\* The messages received after time s or not received yet.
After(s) == {feed[i] : i \in 1..Len(feed)} \cup {f.update : f \in {g \in feeder : g.at > s}}

\* Whatever is to come for a price ends with the exchange's depth.
Announced(k, p) ==
    Coming(k, p) = {} \/ \E u \in Pending : Latest(u, k, p) /\ Said(u.body, k, p) = market[k][p]

NewsInv == link = "up" => \A k \in Key, p \in Price : Announced(k, p)

\* A price of a valid book is the exchange's, or there is more to come.
BooksInv ==
    link = "up" =>
        \A e \in Event \ invalid : \A k \in KeysOf(e), p \in Price :
            Coming(k, p) # {} \/ depth[k][p] = market[k][p]

\* So will it be after a request that still counts: the last message for the price came
\* after the request began, or what stays of the price is the exchange's depth.
Sound(t, e, k, p) ==
    \/ \E u \in After(job[t].started) : Latest(u, k, p)
    \/ IF wroteAt[k][p] > job[t].started THEN depth[k][p] = market[k][p]
       ELSE job[t].pc = "apply" => Said(job[t].answer[e], k, p) = market[k][p]

RequestsInv ==
    link = "up" =>
        \A t \in Thread : InFlight(t) =>
            \A e \in Due(t) \ overtaken[t] : \A k \in KeysOf(e), p \in Price :
                Sound(t, e, k, p)

\* A step leaves a price as it was, or as good.
Calm(k, p) ==
    /\ market'[k][p] = market[k][p]
    /\ Coming(k, p) # {} => Coming(k, p)' # {}
    /\ \A s \in Nat : s <= clock /\ (\E u \in After(s) : Latest(u, k, p))
                         => \E u \in After(s)' : Latest(u, k, p)'
    /\ \/ UNCHANGED <<depth[k][p], wroteAt[k][p]>>
       \/ \E t \in Thread : ApplyAuthoritative(t) /\ KeyEvent[k] = job[t].current

\* It leaves the last message for it in the channel.
News(k, p) == \E u \in {feed'[i] : i \in 1..Len(feed')} : Latest(u, k, p)'

\* It writes the exchange's depth.
Settles(k, p) ==
    \E f \in feeder :
        /\ Coming(k, p)' = {} /\ market' = market /\ job' = job
        /\ depth'[k][p] = market[k][p] /\ wroteAt'[k][p] = f.at /\ wroteAt[k][p] < f.at
        /\ \A s \in Nat : f.at <= s => ~\E u \in After(s) : Latest(u, k, p)

\* With the same messages to come and nothing else the price stays.
LEMMA CalmWhen ==
    ASSUME NEW k \in Key, NEW p \in Price, Announced(k, p), market'[k][p] = market[k][p],
           Coming(k, p)' = Coming(k, p), Coming(k, p) \subseteq Pending',
           \A s \in Nat : s <= clock => After(s) \cap Coming(k, p) \subseteq After(s)',
           \/ UNCHANGED <<depth[k][p], wroteAt[k][p]>>
           \/ \E t \in Thread : ApplyAuthoritative(t) /\ KeyEvent[k] = job[t].current
    PROVE  Announced(k, p)' /\ Calm(k, p)
<1>1. \A u : Latest(u, k, p)' <=> Latest(u, k, p)
  BY DEF Latest
<1>2. \A u : Latest(u, k, p) => u \in Coming(k, p)
  BY DEF Latest
<1>3. Announced(k, p)'
  BY <1>1, <1>2 DEF Announced
<1>4. Calm(k, p)
  BY <1>1, <1>2 DEF Calm
<1> QED
  BY <1>3, <1>4

\* Messages that may overtake each other are of one sequence if they give the same prices.
LEMMA SameScope ==
    ASSUME SteadyExchange, LiveType, mode.reorder, NEW u \in Sent, NEW v \in Sent,
           NEW k \in Key, NEW p \in Price, Names(v, k, p)
    PROVE  Names(u, k, p) <=> u.scope = v.scope
<1> DEFINE w == mode.wholeLines
<1>1. w \in BOOLEAN
  BY ModeType
<1>2. w /\ \A i, j \in Key : KeyScope[i] = KeyScope[j] <=> LineOf(i) = LineOf(j)
  BY DEF LiveType, SteadyExchange
<1>3. PICK b \in MarketBook, i \in Key, q \in Price, n \in 1..changes : u = Message(w, b, i, q, n)
  BY SentCases
<1>4. PICK c \in MarketBook, j \in Key, r \in Price, m \in 1..changes : v = Message(w, c, j, r, m)
  BY SentCases
<1>5. u.scope = KeyScope[i] /\ v.scope = KeyScope[j]
  BY <1>3, <1>4 DEF Message
<1> HIDE DEF w
<1>6. Names(Message(w, b, i, q, n), k, p) <=> IF w THEN LineOf(k) = LineOf(i) ELSE k = i /\ p = q
  BY <1>1, MessageSays
<1>7. Names(Message(w, c, j, r, m), k, p) <=> IF w THEN LineOf(k) = LineOf(j) ELSE k = j /\ p = r
  BY <1>1, MessageSays
<1>8. Names(u, k, p) <=> LineOf(k) = LineOf(i)
  BY <1>2, <1>3, <1>6
<1>9. Names(v, k, p) <=> LineOf(k) = LineOf(j)
  BY <1>2, <1>4, <1>7
<1>10. LineOf(i) = LineOf(j) <=> u.scope = v.scope
  BY <1>2, <1>5
<1> QED
  BY <1>8, <1>9, <1>10

\* Applying a message takes it and what is older from what is to come.
LEMMA ComingAfterCommit ==
    ASSUME SteadyExchange, LiveType, TypeOK, SeqInv, NEW f \in feeder, ~Stale(f.update),
           Commit(f), feeder' = {}, UNCHANGED exchange, NEW k \in Key, NEW p \in Price
    PROVE  /\ Coming(k, p)' = IF Names(f.update, k, p)
                              THEN {v \in Coming(k, p) : v.seq > f.update.seq} ELSE Coming(k, p)
           /\ Names(f.update, k, p) => f.update \in Coming(k, p)
           /\ \A v \in Coming(k, p) : v.seq = f.update.seq => v = f.update
           /\ Pending' = {feed[i] : i \in 1..Len(feed)}
           /\ Pending = Pending' \cup {f.update}
<1> DEFINE u == f.update
<1>1. UNCHANGED <<feed, mode>>
  BY DEF exchange
<1>2. \A s \in Scope : lastSeq'[s] = IF s = u.scope THEN u.seq ELSE lastSeq[s]
  BY CommitSeq
<1>3. Received = {u} /\ Received' = {}
  BY DEF SeqInv, Received
<1>4. Pending' = {feed[i] : i \in 1..Len(feed)} /\ Pending = Pending' \cup {u}
  BY <1>1, <1>3 DEF Pending
<1>5. u.seq > lastSeq[u.scope]
  BY NotStale
<1> HIDE DEF u
<1>6. \A v \in Pending : v \in Sent /\ v.seq \in Nat /\ v.scope \in Scope
  BY PendingType
<1>7. \A v \in Pending' : v.seq # u.seq /\ (~mode.reorder => u.seq < v.seq)
  BY <1>3, <1>4 DEF SeqInv
<1>8. u \in Pending /\ \A s \in Scope : lastSeq[s] \in Int
  BY <1>4 DEF TypeOK, NoSeq
<1>9. ASSUME NEW v \in Pending', Names(v, k, p)
      PROVE  v.seq > lastSeq'[v.scope] <=>
                 v.seq > lastSeq[v.scope] /\ (Names(u, k, p) => v.seq > u.seq)
  <2>1. v \in Pending /\ v.seq \in Nat /\ v.scope \in Scope /\ u.seq \in Nat
    BY <1>4, <1>6, <1>8
  <2>2. CASE mode.reorder
    <3>1. Names(u, k, p) <=> u.scope = v.scope
      BY <1>6, <1>8, <1>9, <2>1, <2>2, SameScope
    <3>2. CASE u.scope = v.scope
      <4>1. lastSeq'[v.scope] = u.seq /\ lastSeq[v.scope] < u.seq /\ lastSeq[v.scope] \in Int
        BY <1>2, <1>5, <1>8, <2>1, <3>2
      <4> QED
        BY <2>1, <3>1, <3>2, <4>1
    <3>3. CASE u.scope # v.scope
      <4>1. lastSeq'[v.scope] = lastSeq[v.scope]
        BY <1>2, <2>1, <3>3
      <4> QED
        BY <3>1, <3>3, <4>1
    <3> QED
      BY <3>2, <3>3
  <2>3. CASE ~mode.reorder
    <3>1. lastSeq[v.scope] < v.seq /\ u.seq < v.seq
      BY <1>7, <2>1, <2>3 DEF SeqInv
    <3>2. lastSeq'[v.scope] \in {u.seq, lastSeq[v.scope]}
      BY <1>2, <2>1
    <3> QED
      BY <2>1, <3>1, <3>2
  <2> QED
    BY <2>2, <2>3
<1>10. Names(u, k, p) => u \in Coming(k, p)
  BY <1>5, <1>8 DEF Coming
<1>11. \A v \in Coming(k, p) : v.seq = u.seq => v = u
  BY <1>4, <1>7 DEF Coming
<1>12. \A v : v \in Coming(k, p)' <=>
                  v \in Coming(k, p) /\ (Names(u, k, p) => v.seq > u.seq)
  <2>1. \A v : v \in Coming(k, p)' <=> v \in Pending' /\ Names(v, k, p) /\ v.seq > lastSeq'[v.scope]
    BY DEF Coming, Names
  <2>2. \A v : v \in Coming(k, p) <=> v \in Pending /\ Names(v, k, p) /\ v.seq > lastSeq[v.scope]
    BY DEF Coming
  <2>3. Names(u, k, p) => ~(u.seq > u.seq)
    BY <1>6, <1>8
  <2> QED
    BY <1>4, <1>9, <2>1, <2>2, <2>3
<1>13. Coming(k, p)' = IF Names(u, k, p) THEN {v \in Coming(k, p) : v.seq > u.seq} ELSE Coming(k, p)
  <2>1. CASE Names(u, k, p)
    BY <1>12, <2>1
  <2>2. CASE ~Names(u, k, p)
    BY <1>12, <2>2
  <2> QED
    BY <2>1, <2>2
<1> QED
  BY <1>4, <1>10, <1>11, <1>13 DEF u

\* Applying a message settles the prices it gives, unless more is to come, and no others.
LEMMA CommitPrice ==
    ASSUME SteadyExchange, LiveType, CacheInv, LayoutInv, SeqInv, NEW f \in feeder,
           ~Stale(f.update), Commit(f), feeder' = {}, UNCHANGED <<exchange, job>>,
           NEW k \in Key, NEW p \in Price, Announced(k, p)
    PROVE  Announced(k, p)' /\ (Calm(k, p) \/ News(k, p) \/ Settles(k, p))
<1> DEFINE u == f.update
<1>1. TypeOK /\ TimesInv
  BY DEF CacheInv, ReplayInv
<1>2. /\ Coming(k, p)' = IF Names(u, k, p) THEN {v \in Coming(k, p) : v.seq > u.seq}
                         ELSE Coming(k, p)
      /\ Names(u, k, p) => u \in Coming(k, p)
      /\ \A v \in Coming(k, p) : v.seq = u.seq => v = u
      /\ Pending' = {feed[i] : i \in 1..Len(feed)} /\ Pending = Pending' \cup {u}
  BY <1>1, ComingAfterCommit
<1>3. IF Names(u, k, p) THEN depth'[k][p] = Said(u.body, k, p) /\ wroteAt'[k][p] = f.at
      ELSE UNCHANGED <<depth[k][p], wroteAt[k][p]>>
  BY <1>1, CommitEffect
<1>4. f.at \in Nat /\ wroteAt[k][p] < f.at
  BY <1>1, InHandIsNewest
<1>5. \A v \in Pending : v.seq \in Nat
  BY PendingType
<1>6. feed' = feed /\ market' = market
  BY DEF exchange
<1>7. Coming(k, p) \subseteq Pending
  BY DEF Coming
<1>8. \A g \in feeder : g = f
  BY DEF SeqInv
<1>9. \A s \in Nat : u \in After(s) => u \in Pending' \/ f.at > s
  BY <1>2, <1>8 DEF After
<1>10. u \notin Pending'
  BY <1>2 DEF SeqInv, Received
<1> HIDE DEF u
<1>11. CASE ~Names(u, k, p)
  <2>1. Coming(k, p)' = Coming(k, p) /\ UNCHANGED <<depth[k][p], wroteAt[k][p]>>
    BY <1>2, <1>3, <1>11
  <2>2. u \notin Coming(k, p)
    BY <1>11 DEF Coming
  <2>3. Coming(k, p) \subseteq Pending'
    BY <1>2, <1>7, <2>2
  <2>4. \A s \in Nat : s <= clock => After(s) \cap Coming(k, p) \subseteq After(s)'
    BY <1>2, <1>6, <2>3 DEF After
  <2>5. market'[k][p] = market[k][p]
    BY <1>6
  <2> QED
    BY <2>1, <2>3, <2>4, <2>5, CalmWhen
<1>12. CASE Names(u, k, p)
  <2>1. /\ Coming(k, p)' = {v \in Coming(k, p) : v.seq > u.seq} /\ u \in Coming(k, p)
        /\ depth'[k][p] = Said(u.body, k, p) /\ wroteAt'[k][p] = f.at
    BY <1>2, <1>3, <1>12
  <2>2. PICK v \in Pending : Latest(v, k, p) /\ Said(v.body, k, p) = market[k][p]
    BY <2>1 DEF Announced
  <2>3. v \in Coming(k, p) /\ \A x \in Coming(k, p) : x.seq <= v.seq
    BY <2>2 DEF Latest
  <2>4. CASE v = u
    <3>1. Coming(k, p)' = {}
      BY <1>5, <1>7, <2>1, <2>3, <2>4
    <3>2. \A x : Latest(x, k, p) => x = u
      <4>1. SUFFICES ASSUME NEW x, Latest(x, k, p) PROVE x = u
        OBVIOUS
      <4>2. x \in Coming(k, p) /\ u.seq <= x.seq /\ x.seq <= u.seq
        BY <2>1, <2>3, <2>4, <4>1 DEF Latest
      <4> QED
        BY <1>2, <1>5, <1>7, <2>1, <4>2
    <3>3. \A s \in Nat : f.at <= s => ~\E x \in After(s) : Latest(x, k, p)
      <4>1. SUFFICES ASSUME NEW s \in Nat, f.at <= s, NEW x \in After(s), Latest(x, k, p)
                     PROVE  FALSE
        OBVIOUS
      <4>2. x = u
        BY <3>2, <4>1
      <4>3. f.at > s
        BY <1>9, <1>10, <4>2
      <4> QED
        BY <1>4, <4>1, <4>3
    <3>4. depth'[k][p] = market[k][p]
      BY <2>1, <2>2, <2>4
    <3>5. Settles(k, p)
      BY <1>4, <1>6, <2>1, <3>1, <3>3, <3>4 DEF Settles
    <3>6. Announced(k, p)'
      BY <3>1 DEF Announced
    <3> QED
      BY <3>5, <3>6
  <2>5. CASE v # u
    <3>1. v.seq > u.seq
      <4>1. u.seq <= v.seq /\ v.seq # u.seq
        BY <1>2, <2>1, <2>3, <2>5
      <4> QED
        BY <1>5, <1>7, <2>1, <2>3, <4>1
    <3>2. v \in Coming(k, p)' /\ v \in Pending'
      BY <1>2, <2>1, <2>3, <2>5, <3>1
    <3>3. Latest(v, k, p)'
      BY <2>1, <2>3, <3>2 DEF Latest
    <3>4. Announced(k, p)'
      BY <1>6, <2>2, <3>2, <3>3 DEF Announced
    <3>5. News(k, p)
      BY <1>2, <1>6, <3>2, <3>3 DEF News
    <3> QED
      BY <3>4, <3>5
  <2> QED
    BY <2>4, <2>5
<1> QED
  BY <1>11, <1>12

\* A change is published to whom it concerns.
LEMMA ChangePrice ==
    ASSUME SteadyExchange, LiveType, TypeOK, SeqInv, link = "up",
           NEW i \in Key, NEW q \in Price, NEW z \in Qty \cup {0}, Change(i, q, z),
           UNCHANGED vars, NEW k \in Key, NEW p \in Price, Announced(k, p)
    PROVE  Announced(k, p)' /\ (Calm(k, p) \/ News(k, p))
<1>1. PICK w, b, n, u : /\ w = mode.wholeLines /\ b = market' /\ n = changes + 1
                        /\ u = Message(w, b, i, q, n)
  OBVIOUS
<1>2. /\ feed' = Append(feed, u) /\ market' = [market EXCEPT ![i][q] = z]
      /\ UNCHANGED <<feeder, lastSeq, depth, wroteAt, clock>>
  BY <1>1 DEF Change, vars, book, journal
<1>3. w \in BOOLEAN /\ b \in MarketBook
  BY <1>1, <1>2, ModeType, FeedTypes DEF LiveType, MarketBook
<1>4. /\ Names(u, k, p) <=> IF w THEN LineOf(k) = LineOf(i) ELSE k = i /\ p = q
      /\ Names(u, k, p) => Said(u.body, k, p) = market'[k][p]
  <2>1. u = Message(w, b, i, q, n) /\ b = market'
    BY <1>1
  <2>2. /\ Names(Message(w, b, i, q, n), k, p)
               <=> IF w THEN LineOf(k) = LineOf(i) ELSE k = i /\ p = q
        /\ Names(Message(w, b, i, q, n), k, p)
               => Said(Message(w, b, i, q, n).body, k, p) = b[k][p]
    BY <1>3, MessageSays
  <2> QED
    BY <2>1, <2>2
<1>5. u.seq = changes + 1 /\ u.scope = KeyScope[i] /\ u.scope \in Scope
  BY <1>1, FeedTypes DEF Message
<1>6. Pending' = Pending \cup {u} /\ Received' = Received
  <2>1. feed \in Seq(Sent) /\ Len(feed) \in Nat
    BY DEF LiveType
  <2>2. Len(feed') = Len(feed) + 1 /\ \A j \in 1..Len(feed) : feed'[j] = feed[j]
    BY <1>2, <2>1
  <2>3. feed'[Len(feed) + 1] = u
    BY <1>2, <2>1
  <2>4. {feed'[j] : j \in 1..Len(feed')} = {feed[j] : j \in 1..Len(feed)} \cup {u}
    <3>1. \A j \in 1..Len(feed') : j \in 1..Len(feed) \/ j = Len(feed) + 1
      BY <2>1, <2>2
    <3>2. \A j \in 1..Len(feed) : j \in 1..Len(feed')
      BY <2>1, <2>2
    <3>3. Len(feed) + 1 \in 1..Len(feed')
      BY <2>1, <2>2
    <3> QED
      BY <2>2, <2>3, <3>1, <3>2, <3>3
  <2>5. Received' = Received
    BY <1>2 DEF Received
  <2> QED
    BY <2>4, <2>5 DEF Pending
<1>7. u \in {feed'[j] : j \in 1..Len(feed')}
  <2>1. feed \in Seq(Sent) /\ Len(feed) \in Nat
    BY DEF LiveType
  <2>2. feed'[Len(feed) + 1] = u /\ Len(feed') = Len(feed) + 1
    BY <1>2, <2>1
  <2> QED
    BY <2>1, <2>2
<1>8. \A v \in Pending : v.seq \in Nat /\ v.seq <= changes
  BY PendingType DEF LiveType
<1>9. changes \in Nat /\ lastSeq[u.scope] \in Int /\ lastSeq[u.scope] <= changes
  <2>1. \A s \in Scope : lastSeq[s] \in Int /\ lastSeq[s] <= changes
    BY DEF SeqInv, TypeOK, NoSeq
  <2> QED
    BY <1>5, <2>1 DEF LiveType
<1>10. CASE Names(u, k, p)
  <2>1. u \in Coming(k, p)'
    BY <1>2, <1>5, <1>6, <1>9, <1>10 DEF Coming, Names
  <2>2. \A v \in Coming(k, p)' : v.seq <= u.seq
    <3>1. \A v \in Coming(k, p)' : v \in Pending \cup {u}
      BY <1>6 DEF Coming
    <3> QED
      BY <1>5, <1>8, <1>9, <3>1
  <2>3. Latest(u, k, p)'
    BY <2>1, <2>2 DEF Latest
  <2>4. Announced(k, p)'
    BY <1>4, <1>6, <1>10, <2>3 DEF Announced
  <2>5. News(k, p)
    BY <1>7, <2>3 DEF News
  <2> QED
    BY <2>4, <2>5
<1>11. CASE ~Names(u, k, p)
  <2>1. Coming(k, p)' = Coming(k, p)
    BY <1>2, <1>6, <1>11 DEF Coming, Names
  <2>2. market'[k][p] = market[k][p]
    <3>1. k # i \/ p # q
      BY <1>3, <1>4, <1>11
    <3> QED
      BY <1>2, <3>1 DEF LiveType, MarketBook
  <2>3. Coming(k, p) \subseteq Pending'
    BY <1>6 DEF Coming
  <2>4. \A s \in Nat : s <= clock => After(s) \cap Coming(k, p) \subseteq After(s)'
    <3>1. feed \in Seq(Sent) /\ Len(feed) \in Nat
      BY DEF LiveType
    <3>2. Len(feed') = Len(feed) + 1 /\ \A j \in 1..Len(feed) : feed'[j] = feed[j]
      BY <1>2, <3>1
    <3>3. \A j \in 1..Len(feed) : j \in 1..Len(feed')
      BY <3>1, <3>2
    <3> QED
      BY <1>2, <3>2, <3>3 DEF After
  <2> QED
    BY <1>2, <2>1, <2>2, <2>3, <2>4, CalmWhen
<1> QED
  BY <1>10, <1>11

\* A message that is received is still to be applied.
LEMMA DeliverPrice ==
    ASSUME LiveType, TypeOK, NEW i \in 1..Len(feed), Deliver(i),
           NEW k \in Key, NEW p \in Price, Announced(k, p)
    PROVE  Announced(k, p)' /\ Calm(k, p)
<1> DEFINE f == [update |-> feed[i], at |-> clock + 1, view |-> layout]
<1>1. /\ feeder = {} /\ feeder' = {f} /\ feed' = RemoveAt(feed, i)
      /\ UNCHANGED <<lastSeq, depth, wroteAt, market>>
  BY DEF Deliver, Receive, book, journal
<1>2. /\ Len(feed') = Len(feed) - 1
      /\ \A j \in 1..(Len(feed) - 1) : feed'[j] = IF j < i THEN feed[j] ELSE feed[j + 1]
  BY <1>1, TakenOut
<1>3. Len(feed) \in Nat /\ i \in Nat /\ 1 <= i /\ i <= Len(feed) /\ clock \in Nat
  BY DEF LiveType, TypeOK
<1>4. \A j \in 1..Len(feed') : feed'[j] \in {feed[x] : x \in 1..Len(feed)}
  <2>1. ASSUME NEW j \in 1..Len(feed')
        PROVE  \E x \in 1..Len(feed) : feed'[j] = feed[x]
    <3>1. j \in 1..(Len(feed) - 1)
      BY <1>2, <2>1
    <3>2. CASE j < i
      BY <1>2, <1>3, <3>1, <3>2
    <3>3. CASE ~(j < i)
      <4>1. j + 1 \in 1..Len(feed)
        BY <1>3, <3>1
      <4> QED
        BY <1>2, <3>1, <3>3, <4>1
    <3> QED
      BY <3>2, <3>3
  <2> QED
    BY <2>1
<1>5. ASSUME NEW x \in 1..Len(feed)
      PROVE  feed[x] = feed[i] \/ \E j \in 1..Len(feed') : feed'[j] = feed[x]
  <2>1. CASE x < i
    <3>1. x \in 1..(Len(feed) - 1)
      BY <1>3, <2>1
    <3> QED
      BY <1>2, <2>1, <3>1
  <2>2. CASE x > i
    <3>1. x - 1 \in 1..(Len(feed) - 1) /\ ~(x - 1 < i) /\ (x - 1) + 1 = x
      BY <1>3, <2>2
    <3>2. feed'[x - 1] = feed[x]
      BY <1>2, <3>1
    <3> QED
      BY <1>2, <3>1, <3>2
  <2> QED
    BY <1>3, <2>1, <2>2
<1>6. Received' = {feed[i]} /\ Received = {}
  BY <1>1 DEF Received
<1>7. Pending' = Pending
  BY <1>4, <1>5, <1>6 DEF Pending
<1>8. Coming(k, p)' = Coming(k, p) /\ Coming(k, p) \subseteq Pending'
  BY <1>1, <1>7 DEF Coming, Names
<1>9. \A s \in Nat : s <= clock => After(s) \cap Coming(k, p) \subseteq After(s)'
  <2>1. SUFFICES ASSUME NEW s \in Nat, s <= clock, NEW v \in After(s)
                 PROVE  v \in After(s)'
    OBVIOUS
  <2>2. v \in {feed[x] : x \in 1..Len(feed)}
    BY <1>1 DEF After
  <2>3. After(s)' = {feed'[j] : j \in 1..Len(feed')} \cup {feed[i]}
    <3>1. f.at > s /\ f.update = feed[i]
      BY <1>3, <2>1
    <3> HIDE DEF f
    <3>2. {g \in feeder' : g.at > s} = {f}
      BY <1>1, <3>1
    <3> QED
      BY <3>1, <3>2 DEF After
  <2> QED
    BY <1>5, <2>2, <2>3
<1> QED
  BY <1>1, <1>8, <1>9, CalmWhen

\* A message that is dropped was not to be applied.
LEMMA DropPrice ==
    ASSUME LiveType, TypeOK, SeqInv, DropStale, UNCHANGED exchange,
           NEW k \in Key, NEW p \in Price, Announced(k, p)
    PROVE  Announced(k, p)' /\ Calm(k, p)
<1>1. PICK f \in feeder : Stale(f.update)
  BY DEF DropStale
<1>2. feeder' = {} /\ UNCHANGED <<feed, lastSeq, depth, wroteAt, market>>
  BY DEF DropStale, exchange, book, journal
<1>3. ~(f.update.seq > lastSeq[f.update.scope])
  BY <1>1, NotStale
<1>4. \A g \in feeder : g = f
  BY DEF SeqInv
<1>5. Coming(k, p) \subseteq {feed[i] : i \in 1..Len(feed)}
  BY <1>3, <1>4 DEF Coming, Pending, Received
<1>6. Pending' = {feed[i] : i \in 1..Len(feed)} /\ Pending' \subseteq Pending
  BY <1>2 DEF Pending, Received
<1>7. Coming(k, p)' = Coming(k, p)
  BY <1>2, <1>5, <1>6 DEF Coming, Names
<1>8. \A s \in Nat : s <= clock => After(s) \cap Coming(k, p) \subseteq After(s)'
  BY <1>2, <1>5 DEF After
<1>9. Coming(k, p) \subseteq Pending'
  BY <1>5, <1>6
<1> QED
  BY <1>2, <1>7, <1>8, <1>9, CalmWhen

\* The other steps leave what is to come alone, and the price if no answer is installed.
LEMMA QuietPrice ==
    ASSUME SteadyExchange, LiveType, CacheInv, [LiveNext]_allVars, link = "up",
           UNCHANGED <<feed, feeder, lastSeq, changes, market>>,
           NEW k \in Key, NEW p \in Price, Announced(k, p)
    PROVE  Announced(k, p)' /\ Calm(k, p)
<1>1. TypeOK /\ PayloadsInv /\ OwnPayloads
  BY SteadyIsOwn DEF CacheInv, ReplayInv
<1>2. Coming(k, p)' = Coming(k, p) /\ Coming(k, p) \subseteq Pending'
  BY DEF Coming, Names, Pending, Received
<1>3. \A s \in Nat : s <= clock => After(s) \cap Coming(k, p) \subseteq After(s)'
  BY DEF After
<1>4. \/ UNCHANGED <<depth, wroteAt>>
      \/ \E t \in Thread : ApplyAuthoritative(t)
  BY WhoWrites DEF journal
<1>5. \/ UNCHANGED <<depth[k][p], wroteAt[k][p]>>
      \/ \E t \in Thread : ApplyAuthoritative(t) /\ KeyEvent[k] = job[t].current
  <2>1. ASSUME NEW t \in Thread, ApplyAuthoritative(t), KeyEvent[k] # job[t].current
        PROVE  UNCHANGED <<depth[k], wroteAt[k]>>
    BY <1>1, <2>1, ApplyLeavesOthers
  <2> QED
    BY <1>4, <2>1
<1> QED
  BY <1>2, <1>3, <1>5, CalmWhen

\* Every step, while the stream is up.
LEMMA PriceStep ==
    ASSUME SteadyExchange, LiveType, CacheInv, LayoutInv, SeqInv, [LiveNext]_allVars,
           link = "up", link' = "up", NEW k \in Key, NEW p \in Price, Announced(k, p)
    PROVE  Announced(k, p)' /\ (Calm(k, p) \/ News(k, p) \/ Settles(k, p))
<1>1. TypeOK
  BY DEF CacheInv
<1>2. ASSUME NEW f \in feeder, ~Stale(f.update), Commit(f), feeder' = {},
             UNCHANGED <<exchange, job>>
      PROVE  Announced(k, p)' /\ (Calm(k, p) \/ News(k, p) \/ Settles(k, p))
  BY <1>2, CommitPrice
<1>3. ~Break
  BY DEF Break
<1> QED
  BY <1>1, <1>2, <1>3, FeedCases, ChangePrice, DeliverPrice, DropPrice, QuietPrice

-----------------------------------------------------------------------------
(* The invariant.                                                          *)

\* When the client has connected again nothing is to come, and nothing is valid.
LEMMA Connected ==
    ASSUME DownInv, LiveType, TypeOK, [LiveNext]_allVars, link # "up", link' = "up"
    PROVE  /\ Pending' = {} /\ invalid' = Event
           /\ \A t \in Thread : InFlight(t)' => Due(t)' \subseteq overtaken'[t]
<1>1. Subscribe
  BY LiveCases DEF allVars, exchange, Change, Deliver, Break, Detect
<1>2. /\ Len(feed) = 0 /\ feeder = {} /\ invalid = Event
      /\ \A t \in Thread : InFlight(t) => Due(t) \subseteq overtaken[t]
  BY <1>1 DEF Subscribe, DownInv
<1>3. UNCHANGED <<feed, feeder, invalid, job, overtaken>>
  BY <1>1 DEF Subscribe, vars, fence
<1> QED
  BY <1>2, <1>3 DEF Pending, Received, Due, InFlight

LEMMA NewsNext ==
    ASSUME SteadyExchange, LiveType, CacheInv, LayoutInv, SeqInv, DownInv, NewsInv,
           [LiveNext]_allVars
    PROVE  NewsInv'
<1> SUFFICES ASSUME link' = "up", NEW k \in Key, NEW p \in Price
             PROVE  Announced(k, p)'
  BY DEF NewsInv
<1>1. CASE link = "up"
  BY <1>1, PriceStep DEF NewsInv
<1>2. CASE link # "up"
  <2>1. Pending' = {}
    BY <1>2, Connected DEF CacheInv
  <2> QED
    BY <2>1 DEF Announced, Coming
<1> QED
  BY <1>1, <1>2

\* Installing an answer gives a price its depth at the exchange, unless more is to come.
LEMMA InstallPrice ==
    ASSUME SteadyExchange, CacheInv, RequestsInv, link = "up", NEW t \in Thread,
           ApplyAuthoritative(t), NEW k \in Key, KeyEvent[k] = job[t].current, NEW p \in Price
    PROVE  Coming(k, p) # {} \/ depth'[k][p] = market[k][p]
<1> DEFINE e == job[t].current
<1>1. TypeOK /\ FenceInv /\ ToldInv /\ LiveKeysKnown /\ ReplayInv /\ SteadyPositions
  BY SteadyIsSteady DEF CacheInv
<1>2. Applying(t) /\ Accepted(t) /\ job[t].pc = "apply"
  BY DEF ApplyAuthoritative, Applying
<1>3. InFlight(t) /\ e \in Due(t) \ overtaken[t] /\ k \in KeysOf(e)
  BY <1>1, <1>2, AcceptedCounts DEF KeysOf
<1>4. Sound(t, e, k, p)
  BY <1>3 DEF RequestsInv
<1>5. CASE \E u \in After(job[t].started) : Latest(u, k, p)
  BY <1>5 DEF Latest
<1>6. CASE wroteAt[k][p] > job[t].started /\ depth[k][p] = market[k][p]
  <2>1. depth'[k][p] = depth[k][p]
    BY <1>1, <1>6, FeedWriteStays
  <2> QED
    BY <1>6, <2>1
<1>7. CASE ~(wroteAt[k][p] > job[t].started) /\ Said(job[t].answer[e], k, p) = market[k][p]
  <2>1. wroteAt[k][p] <= job[t].started
    BY <1>1, <1>7 DEF TypeOK, Job
  <2>2. depth'[k][p] = Merged(Empty, job[t].answer[e].groups[k])[p]
    BY <1>1, <2>1, AnswerIsBase
  <2> QED
    BY <1>7, <2>2 DEF Said
<1> QED
  BY <1>2, <1>4, <1>5, <1>6, <1>7 DEF Sound

LEMMA BooksNext ==
    ASSUME SteadyExchange, LiveType, CacheInv, LayoutInv, SeqInv, DownInv, NewsInv, BooksInv,
           RequestsInv, [LiveNext]_allVars
    PROVE  BooksInv'
<1> SUFFICES ASSUME link' = "up", NEW e \in Event \ invalid', NEW k \in KeysOf(e), NEW p \in Price
             PROVE  Coming(k, p)' # {} \/ depth'[k][p] = market'[k][p]
  BY DEF BooksInv
<1>1. TypeOK /\ k \in Key /\ KeyEvent[k] = e
  BY DEF CacheInv, KeysOf
<1>2. link = "up"
  BY <1>1, Connected
<1>3. Announced(k, p)
  BY <1>1, <1>2 DEF NewsInv
<1>4. CASE News(k, p)
  BY <1>4 DEF News, Latest
<1>5. CASE Settles(k, p)
  BY <1>5 DEF Settles
<1>6. CASE Calm(k, p)
  <2>1. ASSUME NEW t \in Thread, ApplyAuthoritative(t), KeyEvent[k] = job[t].current
        PROVE  Coming(k, p) # {} \/ depth'[k][p] = market[k][p]
    BY <1>1, <1>2, <2>1, InstallPrice
  <2>2. ASSUME UNCHANGED <<depth[k][p], wroteAt[k][p]>>,
               ~\E t \in Thread : ApplyAuthoritative(t) /\ KeyEvent[k] = job[t].current
        PROVE  Coming(k, p) # {} \/ depth'[k][p] = market[k][p]
    <3>1. e \notin invalid
      <4>1. \/ invalid \subseteq invalid'
            \/ \E t \in Thread : ApplyAuthoritative(t) /\ invalid' = invalid \ {job[t].current}
        <5>1. \/ invalid' = invalid
              \/ \E ids : Invalidate(ids)
              \/ \E t \in Thread : ApplyAuthoritative(t)
          BY WhoWrites
        <5>2. \A ids : Invalidate(ids) => invalid \subseteq invalid'
          BY DEF Invalidate
        <5>3. \A t \in Thread : ApplyAuthoritative(t) => invalid' = invalid \ {job[t].current}
          BY DEF ApplyAuthoritative
        <5> QED
          BY <5>1, <5>2, <5>3
      <4> QED
        BY <1>1, <2>2, <4>1
    <3>2. Coming(k, p) # {} \/ depth[k][p] = market[k][p]
      BY <1>2, <3>1 DEF BooksInv
    <3> QED
      BY <2>2, <3>2
  <2> QED
    BY <1>6, <2>1, <2>2 DEF Calm
<1> QED
  BY <1>1, <1>2, <1>3, <1>4, <1>5, <1>6, PriceStep

\* A request begins, is answered or goes on.
LEMMA RequestNext ==
    ASSUME LiveType, TypeOK, [LiveNext]_allVars, NEW t \in Thread, InFlight(t)'
    PROVE  \/ job'[t].pc = "fetch" /\ job'[t].started = clock /\ wroteAt' = wroteAt
           \/ /\ InFlight(t) /\ job'[t].started = job[t].started
              /\ overtaken[t] \subseteq overtaken'[t] /\ Due(t)' \subseteq Due(t)
              /\ \/ Answered(t)
                 \/ job'[t].pc = job[t].pc /\ job'[t].answer = job[t].answer
<1>1. [Next]_vars
  BY LiveIsCache
<1>2. CASE Begins(t)
  BY <1>2 DEF Begins, journal
<1>3. CASE ~Begins(t)
  <2>1. /\ InFlight(t) /\ job'[t].started = job[t].started
        /\ overtaken[t] \subseteq overtaken'[t] /\ Due(t)' \subseteq Due(t)
    BY <1>1, <1>3, RequestCases
  <2>2. Answered(t) \/ Stays(t)
    BY <1>1, <1>3, JobCases DEF InFlight, Seeds, IdleJob
  <2> QED
    BY <2>1, <2>2 DEF Stays
<1> QED
  BY <1>2, <1>3

LEMMA RequestsNext ==
    ASSUME SteadyExchange, LiveType, CacheInv, LayoutInv, SeqInv, DownInv, NewsInv, RequestsInv,
           [LiveNext]_allVars
    PROVE  RequestsInv'
<1> SUFFICES ASSUME link' = "up", NEW t \in Thread, InFlight(t)', NEW e \in Due(t)' \ overtaken'[t],
                    NEW k \in KeysOf(e), NEW p \in Price
             PROVE  Sound(t, e, k, p)'
  BY DEF RequestsInv
<1>1. TypeOK /\ TimesInv /\ k \in Key
  BY DEF CacheInv, ReplayInv, KeysOf
<1>2. link = "up"
  BY <1>1, Connected
<1>3. Announced(k, p)
  BY <1>1, <1>2 DEF NewsInv
<1>4. CASE job'[t].pc = "fetch" /\ job'[t].started = clock /\ wroteAt' = wroteAt
  <2>1. wroteAt[k][p] <= clock /\ wroteAt[k][p] \in Nat /\ clock \in Nat
    BY <1>1 DEF TimesInv, NotAfter, TypeOK
  <2>2. ~(wroteAt'[k][p] > job'[t].started)
    BY <1>4, <2>1
  <2> QED
    BY <1>4, <2>2 DEF Sound
<1>5. CASE /\ InFlight(t) /\ job'[t].started = job[t].started
           /\ overtaken[t] \subseteq overtaken'[t] /\ Due(t)' \subseteq Due(t)
           /\ \/ Answered(t)
              \/ job'[t].pc = job[t].pc /\ job'[t].answer = job[t].answer
  <2> PICK s : s = job[t].started
    OBVIOUS
  <2>1. Sound(t, e, k, p)
    BY <1>2, <1>5 DEF RequestsInv
  <2>2. e \in Event /\ s \in Nat /\ s <= clock
    BY <1>1, <1>5 DEF TypeOK, Job, Due, TimesInv
  <2>3. CASE Answered(t)
    <3>1. e \in job[t].ids
      BY <1>5, <2>3 DEF Answered, Due
    <3>2. /\ job'[t].answer[e] = RestBody(mode.wholeLines, market, e)
          /\ UNCHANGED <<exchange, book, journal, lastSeq, feeder, overtaken>>
      BY <1>1, <2>3, <3>1, AnsweredNow
    <3>3. Said(job'[t].answer[e], k, p) = market[k][p]
      BY <2>2, <3>2, AnswerSays DEF LiveType
    <3>4. UNCHANGED <<feed, feeder, lastSeq, market, depth, wroteAt>>
      BY <3>2 DEF exchange, book, journal
    <3>5. CASE \E u \in After(s) : Latest(u, k, p)
      <4>1. PICK u \in After(s) : Latest(u, k, p)
        BY <3>5
      <4>2. Latest(u, k, p)'
        BY <3>4, <4>1 DEF Latest, Coming, Pending, Received
      <4>3. u \in After(job[t].started)'
        BY <1>5, <3>4, <4>1 DEF After
      <4> QED
        BY <1>5, <4>2, <4>3 DEF Sound
    <3>6. CASE wroteAt[k][p] > s => depth[k][p] = market[k][p]
      BY <1>5, <3>3, <3>4, <3>6 DEF Sound
    <3> QED
      BY <2>1, <3>5, <3>6 DEF Sound
  <2>4. CASE job'[t].pc = job[t].pc /\ job'[t].answer = job[t].answer
    <3>1. CASE News(k, p)
      BY <3>1 DEF News, After, Sound
    <3>2. CASE Settles(k, p)
      <4>1. PICK f \in feeder :
                /\ market' = market /\ job' = job
                /\ depth'[k][p] = market[k][p] /\ wroteAt'[k][p] = f.at /\ wroteAt[k][p] < f.at
                /\ \A x \in Nat : f.at <= x => ~\E u \in After(x) : Latest(u, k, p)
        BY <3>2 DEF Settles
      <4>2. f.at \in Nat /\ wroteAt[k][p] \in Nat
        BY <1>1 DEF TypeOK, InHand
      <4>3. CASE f.at > s
        BY <1>5, <4>1, <4>3 DEF Sound
      <4>4. CASE f.at <= s
        <5>1. ~\E u \in After(s) : Latest(u, k, p)
          BY <2>2, <4>1, <4>4
        <5>2. ~(wroteAt[k][p] > s) /\ ~(wroteAt'[k][p] > s)
          BY <2>2, <4>1, <4>2, <4>4
        <5>3. job[t].pc = "apply" => Said(job[t].answer[e], k, p) = market[k][p]
          BY <2>1, <5>1, <5>2 DEF Sound
        <5> QED
          BY <4>1, <5>2, <5>3 DEF Sound
      <4> QED
        BY <2>2, <4>2, <4>3, <4>4
    <3>3. CASE Calm(k, p)
      <4>1. CASE \E u \in After(s) : Latest(u, k, p)
        <5>1. \E u \in After(s)' : Latest(u, k, p)'
          BY <2>2, <3>3, <4>1 DEF Calm
        <5> QED
          BY <1>5, <5>1 DEF Sound
      <4>2. CASE UNCHANGED <<depth[k][p], wroteAt[k][p]>>
        BY <1>5, <2>1, <2>4, <3>3, <4>1, <4>2 DEF Sound, Calm
      <4>3. ASSUME NEW x \in Thread, ApplyAuthoritative(x), KeyEvent[k] = job[x].current
            PROVE  FALSE
        <5>1. e = job[x].current
          BY SMTT(30), <4>3 DEF KeysOf
        <5>2. InFlight(x) /\ e \in job[x].ids /\ e \in Due(x) \ overtaken[x]
          BY <4>3, <5>1, AcceptedCounts DEF ApplyAuthoritative, CacheInv
        <5>3. CASE x = t
          <6>1. job' = Applied(t) /\ Applying(t)
            BY <4>3, <5>3 DEF ApplyAuthoritative
          <6>2. job'[t].pc = "apply" /\ job'[t].todo = job[t].todo \ {e}
            BY <1>1, <5>1, <5>3, <6>1 DEF Applied, Applying, TypeOK, Job
          <6> QED
            BY SMTT(30), <6>2 DEF Due
        <5>4. CASE x # t
          <6>1. e \in job[t].ids
            <7>1. e \in Due(t) /\ Fenced(t)
              BY <1>5 DEF CacheInv, FenceInv
            <7> QED
              BY <7>1 DEF Due, Fenced
          <6>2. e \notin overtaken[t]
            BY <1>5
          <6> QED
            BY <1>5, <5>2, <5>4, <6>1, <6>2 DEF CacheInv, ReplayInv, OneFresh
        <5> QED
          BY <5>3, <5>4
      <4> QED
        BY <3>3, <4>2, <4>3 DEF Calm
    <3> QED
      BY <1>1, <1>2, <1>3, <3>1, <3>2, <3>3, PriceStep
  <2> QED
    BY <1>5, <2>3, <2>4
<1> QED
  BY <1>1, <1>4, <1>5, RequestNext

-----------------------------------------------------------------------------
(* The theorems.                                                           *)

LiveInv == LiveType /\ CacheInv /\ LayoutInv /\ SeqInv

\* What the exchange, the channel, the cache and the refreshes keep in order: the types,
\* the fence and the journal of the cache, layouts with every selection in its place, and
\* sequence numbers in the order of the changes (cache.py:225-330).
THEOREM LiveInvHolds == ASSUME SteadyExchange PROVE LiveSpec => []LiveInv
<1>1. LiveInit => LiveInv
  BY LiveStarts, LayoutInit, SeqInit DEF LiveInv
<1>2. LiveInv /\ [LiveNext]_allVars => LiveInv'
  <2>1. SUFFICES ASSUME LiveInv, [LiveNext]_allVars PROVE LiveInv'
    OBVIOUS
  <2>2. LiveType /\ CacheInv /\ LayoutInv /\ SeqInv /\ TypeOK /\ FenceInv
    BY <2>1 DEF LiveInv, CacheInv
  <2>3. CacheInv'
    BY <2>1, <2>2, LiveIsCache, CacheNext
  <2> QED
    BY <2>1, <2>2, <2>3, LiveTypeNext, LayoutInvNext, SeqInvNext DEF LiveInv
<1> QED
  BY <1>1, <1>2, PTL DEF LiveSpec

\* With it, of a client that refreshes while it believes it is connected: what is to come
\* for a price ends with the exchange's depth, a valid book has it or waits for more, and
\* an answer that still counts will leave it so (cache.py:381).
ConvergeInv == DownInv /\ NewsInv /\ BooksInv /\ RequestsInv

THEOREM ConvergeInvHolds ==
    ASSUME SteadyExchange, "down" \notin RefreshWhen PROVE LiveSpec => []ConvergeInv
<1>1. LiveInit => ConvergeInv
  BY DownInit DEF LiveInit, ConvergeInv, NewsInv, BooksInv, RequestsInv
<1>2. LiveInv /\ ConvergeInv /\ [LiveNext]_allVars => ConvergeInv'
  <2>1. SUFFICES ASSUME LiveInv, ConvergeInv, [LiveNext]_allVars PROVE ConvergeInv'
    OBVIOUS
  <2>2. /\ LiveType /\ CacheInv /\ LayoutInv /\ SeqInv /\ TypeOK /\ FenceInv
        /\ DownInv /\ NewsInv /\ BooksInv /\ RequestsInv
    BY <2>1 DEF LiveInv, ConvergeInv, CacheInv
  <2> QED
    BY <2>1, <2>2, DownInvNext, NewsNext, BooksNext, RequestsNext DEF ConvergeInv
<1> QED
  BY <1>1, <1>2, LiveInvHolds, PTL DEF LiveSpec

\* While the stream is up, once everything published has been applied, every book the
\* cache calls valid is the exchange's, whatever refreshes were in flight, refused or
\* applied meanwhile (cache.py:381).
THEOREM ConvergedCorrect ==
    ASSUME SteadyExchange, "down" \notin RefreshWhen PROVE LiveSpec => []Converged
<1>1. LiveInv /\ ConvergeInv => Converged
  <2>1. SUFFICES ASSUME LiveInv, ConvergeInv, link = "up", feed = <<>>, feeder = {},
                        NEW e \in Event \ invalid, NEW k \in KeysOf(e)
                 PROVE  depth[k] = market[k]
    BY DEF Converged
  <2>2. \A p \in Price : Coming(k, p) = {}
    BY <2>1 DEF Coming, Pending, Received
  <2>3. \A p \in Price : depth[k][p] = market[k][p]
    BY <2>1, <2>2 DEF ConvergeInv, BooksInv
  <2>4. k \in Key
    BY DEF KeysOf
  <2>5. depth[k] \in [Price -> Nat] /\ market[k] \in [Price -> Qty \cup {0}]
    BY <2>1, <2>4 DEF LiveInv, CacheInv, TypeOK, LiveType, MarketBook
  <2> QED
    BY <2>3, <2>5
<1> QED
  BY <1>1, LiveInvHolds, ConvergeInvHolds, PTL

\* When the feed wrote nothing of the event since the request began, the book after
\* installing the answer is the answer, for this exchange too (cache.py:381).
THEOREM LiveRestBase == ASSUME SteadyExchange PROVE LiveSpec => RestIsBase
<1>1. LiveInv /\ [LiveNext]_allVars =>
          [\A t \in Thread : ApplyAuthoritative(t) =>
              LET e == job[t].current
              IN  (\A k \in KeysOf(e), p \in Price : wroteAt[k][p] <= job[t].started)
                  => \A k \in KeysOf(e) :
                         depth'[k] = Merged(Empty, job[t].answer[e].groups[k])]_vars
  BY SteadyIsSteady, RestBaseStep DEF LiveInv, CacheInv
<1> QED
  BY <1>1, LiveInvHolds, PTL DEF LiveSpec, RestIsBase
=============================================================================
