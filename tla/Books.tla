-------------------------------- MODULE Books --------------------------------
(***************************************************************************)
(* What a cache of market depth (src/src/fastprophetx/cache.py) promises   *)
(* to the threads that share it, without the journal, the layouts and the  *)
(* revisions by which it keeps the promise:                                *)
(*   - an event's book is what the last accepted answer or update made it, *)
(*     and whoever sees the same version twice sees the same book;         *)
(*   - a book that was declared invalid is valid again only by an answer   *)
(*     that nothing has overtaken, or when the event is forgotten;         *)
(*   - the answer to a request counts at most once for each event, and not *)
(*     at all for an event that was requested again, invalidated or        *)
(*     forgotten since.                                                    *)
(* MarketCache implements it (KeepsPromise); MarketStore is built on it.   *)
(***************************************************************************)
EXTENDS Integers, FiniteSets

CONSTANTS
    Event,   \* event ids
    Thread,  \* threads that make requests
    Content, \* what a book can hold
    Blank    \* the content of an event nothing is known of

ASSUME BooksAssumption ==
    /\ Event \subseteq Nat /\ IsFiniteSet(Event)
    /\ Blank \in Content

VARIABLES
    invalid, \* events whose books were declared invalid
    content, \* what the book of each event holds
    bumps,   \* versions given out
    version, \* the version of each book
    fresh    \* the events for which each thread's request still counts

books == <<invalid, content, bumps, version, fresh>>

BooksInit ==
    /\ invalid = {}
    /\ content = [e \in Event |-> Blank]
    /\ bumps = 0
    /\ version = [e \in Event |-> 0]
    /\ fresh = [t \in Thread |-> {}]

-----------------------------------------------------------------------------
\* Each event of S gets a version never given before.
NewVersions(S) ==
    /\ bumps' = bumps + Cardinality(S)
    /\ version' = [e \in Event |->
           IF e \in S THEN bumps + Cardinality({x \in S : x <= e}) ELSE version[e]]

OnlyOf(S) ==
    /\ content' \in [Event -> Content]
    /\ \A e \in Event \ S : content'[e] = content[e]

Lose(S) == [t \in Thread |-> fresh[t] \ S]

\* A request takes its events away from every other request.
Request(t, S) ==
    /\ fresh' = [Lose(S) EXCEPT ![t] = S]
    /\ UNCHANGED <<invalid, content, bumps, version>>

\* The answer of t counts for e; what else it mentions is written too.
Accept(t, e, S) ==
    /\ e \in fresh[t] /\ e \in S
    /\ fresh' = [fresh EXCEPT ![t] = @ \ {e}]
    /\ invalid' = invalid \ {e}
    /\ OnlyOf(S)
    /\ NewVersions(S)

\* t gives up what its request was for.
GiveUp(t) ==
    /\ fresh' = [fresh EXCEPT ![t] = {}]
    /\ UNCHANGED <<invalid, content, bumps, version>>

\* The feed writes books of S.
Write(S) ==
    /\ OnlyOf(S)
    /\ NewVersions(S)
    /\ UNCHANGED <<invalid, fresh>>

Invalidate(S) ==
    /\ invalid' = invalid \cup S
    /\ fresh' = Lose(S)
    /\ NewVersions(S)
    /\ UNCHANGED content

Forget(e) ==
    /\ content' = [content EXCEPT ![e] = Blank]
    /\ invalid' = invalid \ {e}
    /\ fresh' = Lose({e})
    /\ NewVersions({e})

BooksNext ==
    \/ \E S \in SUBSET Event : Write(S) \/ Invalidate(S)
    \/ \E e \in Event : Forget(e)
    \/ \E t \in Thread :
          \/ \E S \in SUBSET Event : Request(t, S)
          \/ \E e \in Event, S \in SUBSET Event : Accept(t, e, S)
          \/ GiveUp(t)

BooksSpec == BooksInit /\ [][BooksNext]_books
=============================================================================
